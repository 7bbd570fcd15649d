---------------------------- MODULE MCSimulation ---------------------------
EXTENDS Simulation

MakeCircuit(devices, kinds, params, wires, ok) ==
    [devices |-> devices,
     kind    |-> [n \in ToSet(devices) |-> kinds[SelectInSeq(devices, LAMBDA d : d = n)]],
     param   |-> [n \in ToSet(devices) |-> params[SelectInSeq(devices, LAMBDA d : d = n)]],
     wires   |-> wires,
     ok      |-> ok]

\* A reader listed before its writer, and a switch fed by the same writer.
Chain == MakeCircuit(<<"r", "l", "s">>, <<"Slider", "Slider", "Switch">>, <<0, 0, 0>>,
                  << <<<<"l", "out">>, <<"r", "control">>>>, <<<<"l", "out">>, <<"s", "v_in">>>> >>, TRUE)

\* The same switch, at other ids, next to a hold button.
Button == MakeCircuit(<<"b", "s">>, <<"HoldButton", "Switch">>, <<0, 1>>,
                   << <<<<"b", "state">>, <<"s", "v_in">>>> >>, TRUE)

\* A constant that a switch lets through to a knob.
Feed == MakeCircuit(<<"k", "s", "v">>, <<"KnobSwitch", "Switch", "Value">>, <<1, 0, 1>>,
                 << <<<<"v", "o">>, <<"s", "v_in">>>>, <<<<"s", "v_out">>, <<"k", "control">>>> >>, TRUE)

\* Two sliders in a loop.
Loop == MakeCircuit(<<"r", "l">>, <<"Slider", "Slider">>, <<0, 0>>,
                 << <<<<"l", "out">>, <<"r", "control">>>>, <<<<"r", "out">>, <<"l", "control">>>> >>, TRUE)

\* A document that does not build.
Broken == [Button EXCEPT !.ok = FALSE]

AllCircuits == {Chain, Button, Feed, Loop, Broken}
=============================================================================
