----------------------------- MODULE NodalPlan -----------------------------
(***************************************************************************)
(* From devices to nodal elements: what the builds of the JIT simulator    *)
(* (core/solvers/jit) and of the code generator                            *)
(* (core/solvers/aot/electrical_codegen.cpp) make of the solver roles in   *)
(* src/library.  A circuit is what a build is given:                       *)
(*   devices  [name, class, params, role] in document order                *)
(*   signal   the number of each port's net                                *)
(* Each device that has a role becomes elements of one domain: a fixed     *)
(* node, a source with a resistance, or branches with a conductance.       *)
(* Elements that share nets make an island.  Patch operations say how the  *)
(* value of an element follows signals.                                    *)
(*                                                                         *)
(* Element keys are <<device>> and <<device, index>> where the code glues  *)
(* the two with "_": names that collide once glued are left out.           *)
(***************************************************************************)
EXTENDS Fractions, Sequences, SequencesExt, FiniteSets, TLC

CONSTANT Circuits

Domains == <<"Electrical", "Hydraulic", "Pneumatic">>

None == "none"
NoNet == -1
Nothing == [k \in {} |-> None]
Bound == [bind_handle |-> One]

\* A sequence of the elements of S.
Listed(S) == FoldSet(LAMBDA e, seq : Append(seq, e), <<>>, S)

Role(kind, domain, ports, params, values, patch) ==
    [kind |-> kind, domain |-> domain, ports |-> ports, params |-> params,
     values |-> values, patch |-> patch]

NoRole == Role(None, None, Nothing, Nothing, Nothing, Nothing)
NoPatch == [kind |-> None]
Branch(g, values, patch) ==
    Role("ConductanceBranch", "Electrical", [a |-> "v_in", b |-> "v_out"], g, values, patch)
OpenOrClosed == [kind |-> "BoolSwitch", signals |-> <<"state">>,
                 true_value |-> "g_closed", false_value |-> "g_open", multi |-> FALSE]

\* solver_role of the blueprints of the library.
SolverRole ==
    [Value |-> NoRole, Greater |-> NoRole, VoltageSense |-> NoRole,
     RefNode |-> Role("FixedVoltageNode", "Electrical", [node |-> "v"],
                      [voltage |-> "value"], Bound, NoPatch),
     ElectricalSource |-> Role("TheveninSource", "Electrical", [pos |-> "v_out", neg |-> "v_in"],
                               [voltage |-> "voltage", resistance |-> "resistance"], Bound, NoPatch),
     Resistor |-> Branch([g |-> "conductance"], Nothing, NoPatch),
     CurrentSense |-> Branch([g |-> "conductance"], Bound, NoPatch),
     HoldButton |-> Branch([g |-> "g_open"], Bound, OpenOrClosed),
     Relay |-> Branch([g |-> "g_open"], Bound, OpenOrClosed),
     VariableConductance |->
         Branch(Nothing, [bind_handle |-> One, g |-> Frac(1, 1000)],
                [kind |-> "LerpClamped01", signals |-> <<"cmd", "g_min", "g_max">>,
                 true_value |-> None, false_value |-> None, multi |-> FALSE]),
     ControlledVoltageSource |->
         Role("TheveninSource", "Electrical", [pos |-> "v_pos", neg |-> "v_neg"],
              [resistance |-> "r_internal"], [bind_handle |-> One, voltage |-> Zero],
              [kind |-> "AffineClamp", signals |-> <<"cmd", "gain", "offset", "min_v", "max_v">>,
               true_value |-> None, false_value |-> None, multi |-> FALSE]),
     KnobSwitch |->
         Role("KnobSwitchBranches", "Electrical",
              [wiper |-> "wiper", throw1 |-> "throw1", throw2 |-> "throw2", throw3 |-> "throw3",
               throw4 |-> "throw4", throw5 |-> "throw5"],
              [positions |-> "positions", initial_position |-> "initial_position",
               g_open |-> "g_open", g_closed |-> "g_closed"], Bound,
              [OpenOrClosed EXCEPT !.kind = "IndexSwitch", !.signals = <<"position">>, !.multi = TRUE]),
     PneumaticRef |-> Role("FixedPressureNode", "Pneumatic", [node |-> "p"],
                           [pressure |-> "pressure"], [bind_handle |-> Zero], NoPatch),
     PneumaticCompressor |->
         Role("PressureSource", "Pneumatic", [pos |-> "p_out", neg |-> "p_ref"],
              [resistance |-> "internal_r"], [bind_handle |-> One, pressure |-> Zero],
              [kind |-> "CopySignal", signals |-> <<"p_source">>,
               true_value |-> None, false_value |-> None, multi |-> FALSE]),
     PneumaticValve |->
         Role("FlowBranch", "Pneumatic", [a |-> "flow_in", b |-> "flow_out"],
              [g |-> "g_closed"], Bound,
              [OpenOrClosed EXCEPT !.true_value = "g_open", !.false_value = "g_closed"])]

\* What the factory takes of the parameters of each class.
Consumed ==
    [Value |-> {"value"}, Greater |-> {}, VoltageSense |-> {}, RefNode |-> {"value"},
     ElectricalSource |-> {"voltage", "resistance"}, Resistor |-> {"conductance"},
     CurrentSense |-> {"conductance"}, HoldButton |-> {"g_open", "g_closed", "idle"},
     Relay |-> {"g_open", "g_closed", "closed"}, VariableConductance |-> {},
     ControlledVoltageSource |-> {"r_internal"},
     KnobSwitch |-> {"g_open", "g_closed", "initial_position", "positions"},
     PneumaticRef |-> {"pressure"},
     PneumaticCompressor |-> {"internal_r", "max_pressure", "rated_rpm"},
     PneumaticValve |-> {"g_open", "g_closed", "normally_closed"}]

\* The electrical ports that claim to drive their net.
SourceWriters ==
    [c \in DOMAIN SolverRole |-> CASE c = "ElectricalSource" -> {"v_out"}
                                   [] c = "ControlledVoltageSource" -> {"v_pos"}
                                   [] OTHER -> {}]

Signal(c, d, port) == c.signal[<<d.name, port>>]

\* A circuit's devices are of the library, and differ in their names.
ASSUME CircuitsAssumption ==
    \A c \in Circuits :
        /\ c.devices \in Seq(ToSet(c.devices))
        /\ \A i \in DOMAIN c.devices :
               LET d == c.devices[i] IN
               /\ d.class \in DOMAIN SolverRole /\ d.role = SolverRole[d.class]
               /\ d.name # None /\ \A key \in DOMAIN d.params : d.params[key] \in Fraction
               /\ \A j \in DOMAIN c.devices : c.devices[j].name = d.name => i = j

\* A parameter reaches the build as text with six decimals.
Written(q) == IF 2000000 * Magnitude(q.num) < q.den THEN Zero ELSE q

Param(d, key, default) == IF key \in DOMAIN d.params THEN Written(d.params[key]) ELSE default

-----------------------------------------------------------------------------
(* Extraction.  The simulator is strict, and asks the parameters first; the  *)
(* generator falls back on defaults, and asks the constant values first.     *)

Adapters == {"JIT", "AOT"}

\* Mutant: the constants of the role are overlooked by the generator.
ReadParamNoConstants(adapter, d, key, default) ==
    LET role == d.role
        constant == key \in DOMAIN role.values
        named == key \in DOMAIN role.params
    IN IF named THEN Param(d, role.params[key], default)
       ELSE IF adapter = "JIT" /\ constant THEN role.values[key]
       ELSE default

ReadParam(adapter, d, key, default) ==
    LET role == d.role
        constant == key \in DOMAIN role.values
        named == key \in DOMAIN role.params
    IN IF named /\ (adapter = "JIT" \/ ~constant)
       THEN Param(d, role.params[key], IF adapter = "JIT" THEN Zero ELSE default)
       ELSE IF constant THEN role.values[key]
       ELSE default

\* The keys each kind of role reads.
Read ==
    [FixedVoltageNode |-> {"voltage"}, TheveninSource |-> {"voltage", "resistance"},
     ConductanceBranch |-> {"g"}, FlowBranch |-> {"g"},
     KnobSwitchBranches |-> {"positions", "initial_position", "g_open", "g_closed"},
     FixedPressureNode |-> {"pressure"}, PressureSource |-> {"pressure", "resistance"}]

Element(kind, a, b, value_a, value_b) ==
    [kind |-> kind, a |-> a, b |-> b, value_a |-> value_a, value_b |-> value_b]

Throws == <<"throw1", "throw2", "throw3", "throw4", "throw5">>
Within(n, low, high) == IF n < low THEN low ELSE IF n > high THEN high ELSE n

KnobBranches(adapter, c, d) ==
    LET read(key, default) == ReadParam(adapter, d, key, default)
        positions == Within(Truncated(read("positions", Whole(3))), 2, Len(Throws))
        initial == Within(Truncated(read("initial_position", Zero)), 0, positions - 1)
        open == read("g_open", Frac(1, 1000000000))
        closed == read("g_closed", Frac(1, 10))
    IN [i \in 1..positions |->
            Element("Branch", Signal(c, d, "wiper"), Signal(c, d, Throws[i]),
                    IF i - 1 = initial THEN closed ELSE open, Zero)]

Extract(adapter, c, d) ==
    LET role == d.role
        port(key) == Signal(c, d, role.ports[key])
        read(key, default) == ReadParam(adapter, d, key, default)
    IN CASE role.kind = "FixedVoltageNode" ->
                <<Element("FixedNode", port("node"), NoNet, read("voltage", Zero), Zero)>>
         [] role.kind = "FixedPressureNode" ->
                <<Element("FixedNode", port("node"), NoNet, read("pressure", Zero), Zero)>>
         [] role.kind = "TheveninSource" ->
                <<Element("Source", port("pos"), port("neg"),
                          read("voltage", Whole(28)), read("resistance", Frac(1, 100)))>>
         [] role.kind = "PressureSource" ->
                <<Element("Source", port("pos"), port("neg"),
                          read("pressure", Zero), read("resistance", Frac(1, 100)))>>
         [] role.kind \in {"ConductanceBranch", "FlowBranch"} ->
                <<Element("Branch", port("a"), port("b"), read("g", Frac(1, 10)), Zero)>>
         [] role.kind = "KnobSwitchBranches" -> KnobBranches(adapter, c, d)

\* The elements of a domain, device by device, with the place of the device.
Listing(adapter, c, domain) ==
    LET of(j) == LET made == Extract(adapter, c, c.devices[j])
                 IN [i \in DOMAIN made |-> [of |-> j, element |-> made[i]]]
    IN FlattenSeq([j \in DOMAIN c.devices |->
                       IF c.devices[j].role.domain = domain THEN of(j) ELSE <<>>])

\* As they are numbered, each with the device it is bound to: the generator
\* binds all of them.
RawElements(adapter, c, domain) ==
    LET all == Listing(adapter, c, domain)
        binds(d) == \/ adapter = "AOT"
                    \/ "bind_handle" \in DOMAIN d.role.values /\ d.role.values.bind_handle = One
        device(d) == IF binds(d) THEN d.name ELSE None
        numbered(id, of, e) ==
            [id |-> id, device |-> device(c.devices[of]), kind |-> e.kind, a |-> e.a, b |-> e.b,
             value_a |-> e.value_a, value_b |-> e.value_b]
    IN [i \in DOMAIN all |-> numbered(i - 1, all[i].of, all[i].element)]

NetsOfElement(e) == {e.a, e.b} \ {NoNet}

\* Union-find over the nets of the elements.
Classes(raw) ==
    LET unite(classes, e) ==
            LET touched == {k \in classes : k \cap NetsOfElement(e) # {}}
            IN (classes \ touched) \cup {NetsOfElement(e) \cup UNION touched}
    IN FoldLeft(unite, {}, raw)

Islands(raw) ==
    {[nets |-> nets, elements |-> SelectSeq(raw, LAMBDA e : e.a \in nets)] : nets \in Classes(raw)}

\* The numbers of S in order.
Ascending(S) ==
    [k \in 1..Cardinality(S) |-> CHOOSE x \in S : Cardinality({y \in S : y < x}) = k - 1]

\* The ids of the elements bound to a device, in order.
IdsOf(raw, d) == Ascending({raw[i].id : i \in {k \in DOMAIN raw : raw[k].device = d.name}})

\* Whether the elements of a device are keyed by an index: the simulator sees
\* that there are several, the generator goes by the class.
Indexed(adapter, raw, d) ==
    IF adapter = "JIT" THEN Len(IdsOf(raw, d)) # 1 ELSE d.class = "KnobSwitch"

PatchOp(c, d, id, index) ==
    LET patch == d.role.patch
        value(param) == IF param = None THEN Zero ELSE Param(d, param, Zero)
    IN [kind |-> patch.kind, element |-> id, index |-> index,
        s |-> [i \in DOMAIN patch.signals |-> Signal(c, d, patch.signals[i])],
        on |-> value(patch.true_value), off |-> value(patch.false_value)]

PatchOpsOf(adapter, c, domain, raw) ==
    LET ops(d, ids) == [i \in DOMAIN ids |-> PatchOp(c, d, ids[i], i - 1)]
        patched(d) == /\ d.role.domain = domain /\ d.role.patch.kind # None
                      /\ d.role.patch.multi = Indexed(adapter, raw, d)
    IN FlattenSeq([j \in DOMAIN c.devices |->
                       LET d == c.devices[j] IN
                       IF patched(d) THEN ops(d, IdsOf(raw, d)) ELSE <<>>])

PatchOps(adapter, c, domain) == PatchOpsOf(adapter, c, domain, RawElements(adapter, c, domain))

-----------------------------------------------------------------------------
(* What the strict build turns away.                                         *)

UnknownParams(d) == DOMAIN d.params \ Consumed[d.class]

MissingParams(d) ==
    LET role == d.role IN
    role.kind # None
    /\ \E key \in Read[role.kind] \ DOMAIN role.values :
           ~(key \in DOMAIN role.params /\ role.params[key] \in DOMAIN d.params)

SourceConflict(c) ==
    \E p, q \in DOMAIN c.signal :
        /\ p # q /\ c.signal[p] = c.signal[q]
        /\ \E d, e \in ToSet(c.devices) :
               /\ p[1] = d.name /\ p[2] \in SourceWriters[d.class]
               /\ q[1] = e.name /\ q[2] \in SourceWriters[e.class]

Refused(c) ==
    \/ \E d \in ToSet(c.devices) : UnknownParams(d) # {} \/ MissingParams(d)
    \/ SourceConflict(c)

\* The plan of an accepted circuit, by domain.
PlanOf(c) ==
    [domain \in ToSet(Domains) |->
        [elements |-> RawElements("JIT", c, domain),
         islands |-> Islands(RawElements("JIT", c, domain)),
         ops |-> PatchOps("JIT", c, domain)]]
=============================================================================
