---------------------------- MODULE NodalFrames ----------------------------
(***************************************************************************)
(* The frames of the simulator over the nodal solver (core/solvers/jit/    *)
(* simulator.cpp): patch, solve and execute each domain, then the          *)
(* scheduled components, then the commits of the components the solver     *)
(* owns.  A commit is seen by the solver in the next frame.                *)
(*                                                                         *)
(* The components the solver owns run in the order of a hash map, which is *)
(* any order, fixed when the circuit is built.  Documents list their       *)
(* consumers in the order the factory sorts them (Circuit.tla sorts).      *)
(***************************************************************************)
EXTENDS NodalSolve

CONSTANT Lag    \* frames after which a circuit that is left alone rests

ASSUME LagAssumption == Lag \in Nat \ {0}

VARIABLES
    circuit,  \* the document
    running,  \* Simulator: running_
    built,    \* build_result_: the plan, and the components the solver owns
              \* by domain; Nothing when stopped
    sim,      \* its state: [values, memory, ev, flow], Nothing when stopped
    held      \* history: frames since the signals were last overridden

vars == <<circuit, running, built, sim, held>>

At(c, d, port, s) == s.values[Signal(c, d, port)]
Put(c, d, port, x, s) == [s EXCEPT !.values[Signal(c, d, port)] = x]
Level(condition) == IF condition THEN One ELSE Zero

\* The domain whose solver a component of a class has a handle in.
HandleDomain ==
    [class \in {"CurrentSense", "HoldButton", "Relay", "VariableConductance",
                "ControlledVoltageSource", "KnobSwitch"} |-> "Electrical"]
    @@ [class \in {"PneumaticCompressor", "PneumaticValve"} |-> "Pneumatic"]

Owned(c, domain) ==
    {d \in ToSet(c.devices) : d.class \in DOMAIN HandleDomain /\ HandleDomain[d.class] = domain}

\* build_domain_step_ops walks a hash map.
Orders(c) ==
    {order \in [ToSet(Domains) -> UNION {SetToSeqs(Owned(c, domain)) : domain \in ToSet(Domains)}] :
        \A domain \in ToSet(Domains) : order[domain] \in SetToSeqs(Owned(c, domain))}

\* Mutant: the handle of a component names the element before its own.
BranchFlowBefore(b, d, s) ==
    LET domain == HandleDomain[d.class]
        id == Last(IdsOf(b.plan[domain].elements, d)) - 1
    IN IF id \in DOMAIN s.flow[domain] THEN s.flow[domain][id] ELSE Zero

\* get_branch_flow at the handle of d, the last element that is bound to it:
\* there is no solve to read while the simulation starts.
BranchFlow(b, d, s) ==
    LET domain == HandleDomain[d.class]
        id == Last(IdsOf(b.plan[domain].elements, d))
    IN IF id \in DOMAIN s.flow[domain] THEN s.flow[domain][id] ELSE Zero

-----------------------------------------------------------------------------
(* The components: execute after the solve of their domain, or when the      *)
(* scheduler reaches them; commit at the end.                                *)

Execute(b, c, d, s) ==
    CASE d.class \in {"Value", "RefNode"} ->
            Put(c, d, IF d.class = "Value" THEN "o" ELSE "v", Param(d, "value", Zero), s)
      [] d.class = "PneumaticRef" -> Put(c, d, "p", Param(d, "pressure", Zero), s)
      [] d.class = "Greater" -> Put(c, d, "o", Level(Less(At(c, d, "B", s), At(c, d, "A", s))), s)
      [] d.class = "VoltageSense" ->
            Put(c, d, "out", Plus(Times(Minus(At(c, d, "v_in", s), At(c, d, "v_ref", s)),
                                        At(c, d, "gain", s)), At(c, d, "offset", s)), s)
      [] d.class = "CurrentSense" -> Put(c, d, "i_out", BranchFlow(b, d, s), s)
      [] d.class = "PneumaticCompressor" ->
            LET part == Clamped(Over(At(c, d, "rpm_in", s), Param(d, "rated_rpm", Whole(24000))),
                                Zero, Frac(3, 2))
            IN Put(c, d, "p_source",
                   Times(Param(d, "max_pressure", Whole(700)), Times(part, part)), s)
      [] OTHER -> s

\* The edge of a knob: the first commit keeps initial_position at a control of 0.
CommitKnobSwitch(c, d, s) ==
    LET control == At(c, d, "control", s)
        m == s.memory[d.name]
        kept == Less(m.last, Frac(-1, 2)) /\ Less(Size(control), Frac(1, 10))
        positions == Within(Truncated(Param(d, "positions", Whole(2))), 2, Len(Throws))
        selected == IF kept THEN m.selected ELSE Within(Rounded(control), 0, positions - 1)
    IN Put(c, d, "position", Whole(selected),
           [s EXCEPT !.memory[d.name].selected = selected, !.memory[d.name].last = control])

CommitRelay(c, d, s) ==
    LET control == At(c, d, "control", s)
        threshold == At(c, d, "hold_threshold", s)
        closed == IF Less(threshold, control) THEN TRUE
                  ELSE ~Less(control, Negated(threshold)) /\ s.memory[d.name].closed
    IN Put(c, d, "state", Level(closed), [s EXCEPT !.memory[d.name].closed = closed])

Commit(b, c, d, s) ==
    CASE d.class = "HoldButton" ->
            Put(c, d, "state", Level(Less(Frac(1, 10), Size(Minus(At(c, d, "control", s),
                                                                  Param(d, "idle", Zero))))), s)
      [] d.class = "Relay" -> CommitRelay(c, d, s)
      [] d.class = "KnobSwitch" -> CommitKnobSwitch(c, d, s)
      [] d.class = "ControlledVoltageSource" -> Put(c, d, "i_out", Size(BranchFlow(b, d, s)), s)
      [] d.class = "PneumaticValve" ->
            LET active == Less(Frac(1, 2), At(c, d, "ctrl", s))
            IN Put(c, d, "state", Level(active = (Param(d, "normally_closed", One) # Zero)), s)
      [] OTHER -> s

ExecuteAll(b, c, devices, s) == FoldLeft(LAMBDA t, d : Execute(b, c, d, t), s, devices)
CommitAll(b, c, devices, s) == FoldLeft(LAMBDA t, d : Commit(b, c, d, t), s, devices)

Sources(c) == SelectSeq(c.devices, LAMBDA d : d.class \in {"Value", "RefNode", "PneumaticRef"})
Consumers(c) == SelectSeq(c.devices, LAMBDA d : d.class \in {"Greater", "VoltageSense"})

-----------------------------------------------------------------------------
(* Starting.                                                                 *)

\* pre_load of the components, and the signals all zero.
Blank(b, c) ==
    LET positions(d) == Within(Truncated(Param(d, "positions", Whole(2))), 2, Len(Throws))
        initial(d) == Within(Truncated(Param(d, "initial_position", Zero)), 0, positions(d) - 1)
        device(name) == CHOOSE d \in ToSet(c.devices) : d.name = name
        plan(domain) == b.plan[domain].elements
    IN [values |-> [net \in Range(c.signal) |-> Zero],
        memory |-> [name \in {d.name : d \in ToSet(c.devices)} |->
                        [closed |-> Param(device(name), "closed", Zero) # Zero,
                         selected |-> initial(device(name)), last |-> Whole(-1)]],
        ev |-> [domain \in ToSet(Domains) |->
                    [id \in 0..(Len(plan(domain)) - 1) |-> plan(domain)[id + 1].value_a]],
        flow |-> [domain \in ToSet(Domains) |-> Nothing]]

\* Commits and executes of every domain, then the constants.
Started(b, c) ==
    LET bootstrap(s, domain) == ExecuteAll(b, c, b.order[domain], CommitAll(b, c, b.order[domain], s))
        constants == SelectSeq(c.devices, LAMBDA d : d.class \in {"Value", "RefNode"})
    IN ExecuteAll(b, c, constants, FoldLeft(bootstrap, Blank(b, c), Domains))

-----------------------------------------------------------------------------
(* A frame.                                                                  *)

WrittenBack(b, c, s, domain, ev, solved) ==
    ExecuteAll(b, c, b.order[domain],
               [s EXCEPT !.ev[domain] = ev, !.values = solved.values,
                         !.flow[domain] = solved.flow])

SolvedWith(b, c, s, domain, ev) ==
    WrittenBack(b, c, s, domain, ev, SolveNodal(b.plan[domain], ev, s.values))

\* update_nodal_dynamic_sources, solve_nodal and the executes of a domain.
SolvedDomain(b, c, s, domain) ==
    SolvedWith(b, c, s, domain, UpdateSources(b.plan[domain].ops, s.values, s.ev[domain]))

Stepped(b, c, s) ==
    LET solved == FoldLeft(LAMBDA t, domain : SolvedDomain(b, c, t, domain), s, Domains)
        scheduled == ExecuteAll(b, c, Sources(c) \o Consumers(c), solved)
    IN FoldLeft(LAMBDA t, domain : CommitAll(b, c, b.order[domain], t), scheduled, Domains)

-----------------------------------------------------------------------------
Init ==
    /\ circuit \in Circuits
    /\ running = FALSE
    /\ built = Nothing
    /\ sim = Nothing
    /\ held = 0

\* Another document.
Edit ==
    /\ ~running
    /\ circuit' \in Circuits
    /\ UNCHANGED <<running, built, sim, held>>

\* start throws for a circuit that is turned away.
Start ==
    /\ ~running
    /\ ~Refused(circuit)
    /\ \E order \in Orders(circuit) : built' = [plan |-> PlanOf(circuit), order |-> order]
    /\ running' = TRUE
    /\ sim' = Started(built', circuit)
    /\ held' = 0
    /\ UNCHANGED circuit

Stop ==
    /\ running
    /\ running' = FALSE
    /\ built' = Nothing
    /\ sim' = Nothing
    /\ held' = 0
    /\ UNCHANGED circuit

\* apply_typed_overrides, with one signal.
Override ==
    /\ running
    /\ \E drive \in circuit.drives :
           sim' = [sim EXCEPT !.values[circuit.signal[drive.port]] = drive.value]
    /\ held' = 0
    /\ UNCHANGED <<circuit, running, built>>

Step ==
    /\ running
    /\ sim' = Stepped(built, circuit, sim)
    /\ held' = IF held = Lag THEN Lag ELSE held + 1
    /\ UNCHANGED <<circuit, running, built>>

Next == Edit \/ Start \/ Stop \/ Override \/ Step

Spec == Init /\ [][Next]_vars

-----------------------------------------------------------------------------
(* What a circuit should do, device by device: each makes legs between two   *)
(* nets, with a conductance and a drive.  Switches stand where the frame     *)
(* before left them.                                                         *)

SwitchAt(d, state) == Param(d, IF Less(Frac(1, 2), state) THEN "g_closed" ELSE "g_open", Zero)

LegsOf(c, d, v) ==
    LET at(port) == v[Signal(c, d, port)]
        leg(a, b, g, drive) == [device |-> d.name, from |-> Signal(c, d, a), to |-> Signal(c, d, b),
                                g |-> g, drive |-> drive]
    IN CASE d.class \in {"Resistor", "CurrentSense"} ->
                {leg("v_in", "v_out", Param(d, "conductance", Zero), Zero)}
         [] d.class \in {"HoldButton", "Relay"} ->
                {leg("v_in", "v_out", SwitchAt(d, at("state")), Zero)}
         [] d.class = "VariableConductance" ->
                LET t == Clamped(at("cmd"), Zero, One) IN
                {leg("v_in", "v_out",
                     Plus(Times(at("g_min"), Minus(One, t)), Times(at("g_max"), t)), Zero)}
         [] d.class = "KnobSwitch" ->
                {leg("wiper", Throws[i],
                     SwitchAt(d, Level(at("position") = Whole(i - 1))), Zero) :
                        i \in 1..Truncated(Param(d, "positions", Whole(2)))}
         [] d.class = "ElectricalSource" ->
                {leg("v_out", "v_in", Over(One, Param(d, "resistance", One)),
                     Param(d, "voltage", Zero))}
         [] d.class = "ControlledVoltageSource" ->
                {leg("v_pos", "v_neg", Over(One, Param(d, "r_internal", One)),
                     Clamped(Plus(Times(at("cmd"), at("gain")), at("offset")),
                             at("min_v"), at("max_v")))}
         [] d.class = "PneumaticCompressor" ->
                {leg("p_out", "p_ref", Over(One, Param(d, "internal_r", One)), at("p_source"))}
         [] d.class = "PneumaticValve" ->
                {leg("flow_in", "flow_out",
                     Param(d, IF at("state") = One THEN "g_open" ELSE "g_closed", Zero), Zero)}
         [] OTHER -> {}

Legs(c, v) == UNION {LegsOf(c, d, v) : d \in ToSet(c.devices)}

Current(leg, v) == Times(leg.g, Minus(Minus(v[leg.from], v[leg.to]), leg.drive))

\* The potential each reference holds.
References(c) ==
    LET holds(d, port, param) == Signal(c, d, port) :> Param(d, param, Zero)
        add(all, d) == CASE d.class = "RefNode" -> all @@ holds(d, "v", "value")
                         [] d.class = "PneumaticRef" -> all @@ holds(d, "p", "pressure")
                         [] OTHER -> all
    IN FoldLeft(add, Nothing, c.devices)

Reach(nets, legs) ==
    LET ends(leg) == {leg.from, leg.to}
        spread(reached, i) ==
            reached \cup UNION {ends(leg) : leg \in {x \in legs : ends(x) \cap reached # {}}}
    IN FoldLeft(spread, nets, [i \in 1..Cardinality(legs) |-> i])

\* Every net that hangs together with this one conducts to a reference.
Grounded(c, legs, net) ==
    Reach({net}, legs) \subseteq Reach(DOMAIN References(c), {leg \in legs : leg.g # Zero})

\* In each frame the currents into a net that is grounded cancel out, with
\* every switch where the frame before left it; references hold; and the nets
\* of a network that is not grounded keep their potentials
\* (nodal_subsolver.cpp, simulator.cpp:152-166).
NetsObeyTheirLaws ==
    [][held' > 0 =>
        LET legs == Legs(circuit, sim.values)
            v == sim'.values
            holds == References(circuit)
            current(leg) == Current(leg, v)
            into(net) == SumOver({leg \in legs : leg.to = net}, current)
            outof(net) == SumOver({leg \in legs : leg.from = net}, current)
        IN \A net \in UNION {{leg.from, leg.to} : leg \in legs} :
               CASE net \in DOMAIN holds -> v[net] = holds[net]
                 [] net \notin DOMAIN holds /\ Grounded(circuit, legs, net) -> into(net) = outof(net)
                 [] OTHER -> v[net] = sim.values[net]
      ]_vars

\* After each frame an ammeter shows the current through its own branch in
\* that frame, a controlled source the size of its own, and both show 0 in a
\* network that is not grounded (current_sense.cpp, controlled_voltage_source.cpp).
MetersReadTheirBranch ==
    [][held' > 0 =>
        LET legs == Legs(circuit, sim.values) IN
        \A d \in ToSet(circuit.devices), leg \in legs :
            (d.class \in {"CurrentSense", "ControlledVoltageSource"} /\ leg.device = d.name) =>
                LET current == IF Grounded(circuit, legs, leg.from) THEN Current(leg, sim'.values)
                               ELSE Zero
                IN At(circuit, d, "i_out", sim')
                       = IF d.class = "CurrentSense" THEN current ELSE Size(current)
      ]_vars

\* A circuit without feedback that is left alone comes to rest in Lag frames,
\* in whatever order the solver's components run: from then on a frame
\* changes nothing (simulator.cpp:152-168, one frame of delay per switch).
ChainsComeToRest == [][held = Lag /\ held' = Lag => sim' = sim]_vars

\* Of an accepted circuit the generator makes the elements and the patch
\* operations the simulator makes (electrical_codegen.cpp:303-365).
PlansAgree ==
    LET shape(e) == <<e.id, e.kind, e.a, e.b, e.value_a, e.value_b>>
        shapes(raw) == [i \in DOMAIN raw |-> shape(raw[i])]
        elements(adapter) == shapes(RawElements(adapter, circuit, "Electrical"))
    IN ~Refused(circuit) =>
           /\ elements("AOT") = elements("JIT")
           /\ PatchOps("AOT", circuit, "Electrical") = PatchOps("JIT", circuit, "Electrical")
=============================================================================
