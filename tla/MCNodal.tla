------------------------------ MODULE MCNodal ------------------------------
(* Small circuits for the nodal solver.                                      *)
EXTENDS NodalFrames

\* The ports of a class: those its role names and the signals of its outputs
\* and inputs.
PortsOf(d) ==
    LET extra ==
            [Value |-> {"o"}, Greater |-> {"A", "B", "o"},
             VoltageSense |-> {"v_in", "v_ref", "gain", "offset", "out"},
             CurrentSense |-> {"i_out"}, HoldButton |-> {"control"},
             Relay |-> {"control", "hold_threshold"}, KnobSwitch |-> {"control"},
             ControlledVoltageSource |-> {"i_out"}, PneumaticCompressor |-> {"rpm_in"},
             PneumaticValve |-> {"ctrl"}]
        role == d.role
    IN (IF d.class \in DOMAIN extra THEN extra[d.class] ELSE {})
       \cup (IF role.kind = None THEN {} ELSE Range(role.ports))
       \cup (IF role.kind = None \/ role.patch.kind = None THEN {} ELSE ToSet(role.patch.signals))

Device(name, class, params) ==
    [name |-> name, class |-> class, params |-> params, role |-> SolverRole[class]]
Constant(name, n) == Device(name, "Value", [value |-> Whole(n)])
Load(name, g) == Device(name, "Resistor", [conductance |-> Whole(g)])
Meter(name) == Device(name, "CurrentSense", [conductance |-> One])
Ground == Device("ref", "RefNode", [value |-> Zero])
Supply(name) ==
    Device(name, "ElectricalSource", [voltage |-> Whole(12), resistance |-> Frac(1, 2)])
Button(name, open) ==
    Device(name, "HoldButton", [g_open |-> open, g_closed |-> Whole(2), idle |-> Zero])
Contacts(name) ==
    Device(name, "Relay", [g_open |-> Frac(1, 2), g_closed |-> Whole(2), closed |-> Zero])

Drive(device, port, values) == {[port |-> <<device, port>>, value |-> v] : v \in values}

\* Nets are the wires, which are sets of ports, and the ports without a wire.
MCCircuit(name, devices, wires, drives) ==
    LET ports == UNION {{<<d.name, port>> : port \in PortsOf(d)} : d \in ToSet(devices)}
        nets == Listed(wires \cup {{p} : p \in ports \ UNION wires})
    IN [name |-> name, devices |-> devices, drives |-> drives,
        signal |-> [p \in ports |-> CHOOSE n \in DOMAIN nets : p \in nets[n]]]

\* source - meter - button - lamp - ground: a dense island.
Divider ==
    MCCircuit("divider",
        <<Ground, Supply("bat"), Meter("amp"), Button("push", Frac(1, 2)), Load("lamp", 1)>>,
        {{<<"ref", "v">>, <<"bat", "v_in">>, <<"lamp", "v_out">>},
         {<<"bat", "v_out">>, <<"amp", "v_in">>}, {<<"amp", "v_out">>, <<"push", "v_in">>},
         {<<"push", "v_out">>, <<"lamp", "v_in">>}},
        Drive("push", "control", {Zero, One}))

\* An open button without leakage cuts a lamp off; a second network has no ground.
CutOff ==
    MCCircuit("cut off",
        <<Ground, Supply("bat"), Load("lamp", 1), Button("push", Zero), Meter("amp"), Load("tail", 1),
          Supply("spare"), Meter("spare_amp"), Load("spare_lamp", 1)>>,
        {{<<"ref", "v">>, <<"bat", "v_in">>, <<"lamp", "v_out">>},
         {<<"bat", "v_out">>, <<"lamp", "v_in">>, <<"push", "v_in">>},
         {<<"push", "v_out">>, <<"amp", "v_in">>}, {<<"amp", "v_out">>, <<"tail", "v_in">>},
         {<<"spare", "v_out">>, <<"spare_amp", "v_in">>},
         {<<"spare_amp", "v_out">>, <<"spare_lamp", "v_in">>},
         {<<"spare", "v_in">>, <<"spare_lamp", "v_out">>}},
        Drive("push", "control", {Zero, One}))

\* A measured voltage switches a controlled source, whose load is a knob.
Controlled ==
    MCCircuit("controlled",
        <<Constant("one", 1), Constant("three", 3), Constant("zero", 0), Constant("five", 5),
          Ground, Supply("bat"), Button("push", Frac(1, 2)), Load("lamp", 1),
          Device("cvs", "ControlledVoltageSource", [r_internal |-> Frac(1, 2)]),
          Device("knob", "KnobSwitch", [positions |-> Whole(3), initial_position |-> One,
                                        g_open |-> Zero, g_closed |-> One]),
          Load("low", 1), Load("high", 2),
          Device("sense", "VoltageSense", Nothing), Device("over", "Greater", Nothing)>>,
        {{<<"ref", "v">>, <<"bat", "v_in">>, <<"lamp", "v_out">>, <<"cvs", "v_neg">>,
          <<"low", "v_out">>, <<"high", "v_out">>, <<"sense", "v_ref">>, <<"knob", "throw3">>},
         {<<"bat", "v_out">>, <<"push", "v_in">>},
         {<<"push", "v_out">>, <<"lamp", "v_in">>, <<"sense", "v_in">>},
         {<<"sense", "out">>, <<"over", "A">>}, {<<"five", "o">>, <<"over", "B">>, <<"cvs", "max_v">>},
         {<<"over", "o">>, <<"cvs", "cmd">>}, {<<"three", "o">>, <<"cvs", "gain">>},
         {<<"one", "o">>, <<"sense", "gain">>, <<"cvs", "offset">>},
         {<<"zero", "o">>, <<"sense", "offset">>, <<"cvs", "min_v">>},
         {<<"cvs", "v_pos">>, <<"knob", "wiper">>},
         {<<"knob", "throw1">>, <<"low", "v_in">>}, {<<"knob", "throw2">>, <<"high", "v_in">>}},
        Drive("push", "control", {One}) \cup Drive("knob", "control", {Zero, Whole(2), Whole(7)}))

\* Relays that switch relays, around a conductance that can be shut.
Chain ==
    MCCircuit("chain",
        <<Ground, Supply("bat"), Contacts("first"), Contacts("second"), Contacts("third"),
          Device("dimmer", "VariableConductance", Nothing), Constant("two", 2)>>,
        {{<<"ref", "v">>, <<"bat", "v_in">>, <<"dimmer", "v_out">>},
         {<<"bat", "v_out">>, <<"first", "v_in">>, <<"second", "v_in">>, <<"third", "v_in">>},
         {<<"first", "v_out">>, <<"second", "v_out">>, <<"third", "v_out">>, <<"dimmer", "v_in">>},
         {<<"first", "state">>, <<"second", "control">>},
         {<<"second", "state">>, <<"third", "control">>}, {<<"two", "o">>, <<"dimmer", "g_max">>}},
        Drive("first", "control", {Whole(-1), One})
            \cup Drive("dimmer", "cmd", {Zero, Frac(1, 2), Whole(2)}))

\* Air: a compressor through a valve into a tank of fixed pressure.
Air ==
    MCCircuit("air",
        <<Device("out", "PneumaticRef", [pressure |-> One]),
          Device("pump", "PneumaticCompressor", [internal_r |-> Frac(1, 2), max_pressure |-> Whole(4),
                                                 rated_rpm |-> Whole(2)]),
          Device("inlet", "PneumaticValve", [g_open |-> Whole(2), g_closed |-> Frac(1, 2)]),
          Device("vent", "PneumaticValve", [g_open |-> One, g_closed |-> Zero,
                                            normally_closed |-> Zero])>>,
        {{<<"out", "p">>, <<"pump", "p_ref">>, <<"vent", "flow_out">>},
         {<<"pump", "p_out">>, <<"inlet", "flow_in">>}, {<<"inlet", "flow_out">>, <<"vent", "flow_in">>}},
        Drive("pump", "rpm_in", {One, Whole(4)}) \cup Drive("inlet", "ctrl", {Zero, One})
            \cup Drive("vent", "ctrl", {Zero, One}))

\* Turned away: two sources on a net, a parameter too many, one too few.
Conflict ==
    MCCircuit("conflict", <<Ground, Supply("bat"), Supply("spare")>>,
        {{<<"bat", "v_out">>, <<"spare", "v_out">>},
         {<<"ref", "v">>, <<"bat", "v_in">>, <<"spare", "v_in">>}}, {})
Surplus ==
    MCCircuit("surplus",
        <<Ground, Device("lamp", "Resistor", [conductance |-> One, resistance |-> One])>>,
        {{<<"ref", "v">>, <<"lamp", "v_out">>}}, {})
Lacking ==
    MCCircuit("lacking", <<Ground, Device("amp", "CurrentSense", Nothing)>>,
        {{<<"ref", "v">>, <<"amp", "v_out">>}}, {})

MCCircuits == {Divider, CutOff, Controlled, Chain, Air, Conflict, Surplus, Lacking}
=============================================================================
