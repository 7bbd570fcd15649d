---------------------------- MODULE MCExtraction ---------------------------
(* Documents to extract from: a fan-out with a loop, a chain, ports of one   *)
(* name, and a document that is itself a blueprint with two references.      *)
EXTENDS Flattening

Port(name, dir) == [name |-> <<name>>, dir |-> dir]
Part(id, ports) ==
    [id |-> <<id>>, kind |-> "component", ports |-> ports, exposed |-> <<>>, inner |-> <<>>]
Reference(id, name) ==
    [id |-> <<id>>, kind |-> "reference", ports |-> <<>>, exposed |-> <<>>, inner |-> <<name>>]
Bridge(id, name, dir) ==
    [id |-> <<id>>, kind |-> "bridge", ports |-> BridgePorts(dir), exposed |-> <<name>>, inner |-> <<>>]
W(id, n, p, m, q) == NewWire(<<id>>, End(<<n>>, <<p>>), End(<<m>>, <<q>>))

Gate(id) == Part(id, <<Port("a", "Input"), Port("b", "Input"), Port("o", "Output")>>)
Terminal(id) == Part(id, <<Port("v", "InOut")>>)

\* x drives y and z, y drives both inputs of z, z drives y.
Fanned == [id |-> <<"fanned">>, iface |-> <<>>,
    nodes |-> <<Gate("x"), Gate("y"), Gate("z"), Gate("u")>>,
    wires |-> <<W("w1", "x", "o", "y", "a"), W("w2", "x", "o", "z", "a"), W("w3", "y", "o", "z", "b"),
                W("w4", "z", "o", "y", "b"), W("w5", "y", "o", "u", "a")>>]

\* Long enough for two extractions that leave a part between them.
Chain == [id |-> <<"chain">>, iface |-> <<>>,
    nodes |-> <<Gate("x"), Gate("y"), Gate("z"), Gate("u"), Gate("v")>>,
    wires |-> <<W("w1", "x", "o", "y", "a"), W("w2", "y", "o", "z", "a"), W("w3", "z", "o", "u", "a"),
                W("w4", "u", "o", "v", "a"), W("w5", "u", "o", "v", "b")>>]

\* Terminals of one name, wired in a star: inputs and outputs collide.
Star == [id |-> <<"star">>, iface |-> <<>>,
    nodes |-> <<Terminal("x"), Terminal("y"), Terminal("z"), Terminal("u")>>,
    wires |-> <<W("w1", "x", "v", "y", "v"), W("w2", "y", "v", "z", "v"), W("w3", "y", "v", "u", "v")>>]

Twice == [id |-> <<"Twice">>,
    iface |-> <<Port("i", "Input"), Port("o", "Output")>>,
    nodes |-> <<Gate("g"), Gate("h"), Bridge("bi", "i", "Input"), Bridge("bo", "o", "Output")>>,
    wires |-> <<W("w1", "bi", "port", "g", "a"), W("w2", "g", "o", "h", "a"),
                W("w3", "h", "o", "bo", "port")>>]

\* A blueprint of its own: a bridge, a gate and two references to Twice.
Outer == [id |-> <<"outer">>,
    iface |-> <<Port("in", "Input")>>,
    nodes |-> <<Bridge("b", "in", "Input"), Gate("x"), Reference("s", <<"Twice">>), Reference("t", <<"Twice">>)>>,
    wires |-> <<W("w1", "b", "port", "x", "a"), W("w2", "x", "o", "s", "i"), W("w3", "s", "o", "t", "i"),
                W("w4", "t", "o", "x", "b")>>]

MCDocuments == {Fanned, Chain, Star, Outer}
MCLibrary == [n \in {<<"Twice">>} |-> Twice]
\* Every extraction and the first bake-in add a level.
ASSUME DeepEnough ==
    \A bp \in MCDocuments \cup {Twice} : LevelsOf(bp)[Depth - MaxExtracted - 1] = {}

MCNames == {<<"A">>, <<"B">>, <<"C">>}
=============================================================================
