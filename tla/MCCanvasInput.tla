--------------------------- MODULE MCCanvasInput ----------------------------
(* A small sheet for CanvasInput: a converter and a bus.                   *)
EXTENDS CanvasInput

CONSTANTS a, u, out, in, flag, v

MCNodes == <<u, a>>
MCPorts ==
  u :> (v :> [direction |-> "InOut", type |-> "V"]) @@
  a :> (out :> [direction |-> "Output", type |-> "V"]
        @@ in :> [direction |-> "Input", type |-> "V"]
        @@ flag :> [direction |-> "Input", type |-> "Bool"])
MCControls == a :> "drag" @@ u :> "click"

MCWire(i, s, t, ps) == [id |-> i, source |-> s, target |-> t, points |-> ps]
Sheet(ns, ws) == [nodes |-> [n \in ns |-> 0], wires |-> ws]

\* No bus yet; out through the bus and back.
MCFiles == {Sheet({a}, <<>>),
            Sheet({a, u}, <<MCWire(1, End(a, out), End(u, v), <<0>>), MCWire(2, End(u, v), End(a, in), <<>>)>>)}
=============================================================================
