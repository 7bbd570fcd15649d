---------------------------- MODULE Components -----------------------------
(***************************************************************************)
(* The components that remember: timers, samplers, comparators, followers, *)
(* integrators and the breakers and relays the electrical solver drives    *)
(* (core/solvers/jit/components), one at a time on a bench.  A frame is    *)
(* Simulator::step: the inputs are what the signals hold when the part     *)
(* runs, execute reads the committed state, writes the outputs and stages  *)
(* the next state, commit makes it current.                                *)
(*                                                                         *)
(* Time is counted in ticks and values in units small enough that every    *)
(* division below is exact on the bench; the rounding of floats is left    *)
(* out.  levels of switched signals are 0 and 1 (the code compares with    *)
(* 0.5).                                                                   *)
(***************************************************************************)
EXTENDS Integers, Sequences, SequencesExt

CONSTANTS
    Bench,      \* the parts that are tried: a function from names to kinds
    Params,     \* the parameters of each, a record
    Inputs,     \* the inputs each may be given in a frame, a set of records
    Steps,      \* the frame times the host may pass
    MAX_DT,     \* Simulator::MAX_DT
    MaxFrames   \* bound on the frames of a run

ASSUME StepsAssumption == Steps \subseteq Int /\ MAX_DT \in Nat \ {0} /\ MaxFrames \in Nat

Followers == {"SlewRate", "AsymSlewRate", "FastTMO", "AsymTMO", "LerpNode"}
Kinds == {"Monostable", "TimeDelay", "SampleHold", "Comparator", "Integrator", "FuelTank",
          "Relay", "AZS"} \cup Followers

Positive == Nat \ {0}

\* The parameters of a kind: what the factory takes, which is any number.  The
\* factor of a LerpNode and the cooling of a breaker are counted in units.
Allowed(kind, p) ==
    CASE kind = "Monostable"   -> p.duration \in Int
      [] kind = "TimeDelay"    -> {p.delay_on, p.delay_off} \subseteq Int
      [] kind = "SampleHold"   -> TRUE
      [] kind = "Comparator"   -> {p.Von, p.Voff} \subseteq Int
      [] kind = "Integrator"   -> {p.initial_val, p.gain} \subseteq Int
      [] kind = "SlewRate"     -> {p.max_rate, p.deadzone} \subseteq Int
      [] kind = "AsymSlewRate" -> {p.rate_up, p.rate_down, p.deadzone} \subseteq Int
      [] kind = "FastTMO"      -> {p.tau, p.deadzone} \subseteq Int
      [] kind = "AsymTMO"      -> {p.tau_up, p.tau_down, p.deadzone} \subseteq Int
      [] kind = "LerpNode"     -> {p.factor, p.deadzone} \subseteq Int /\ p.unit \in Positive
      [] kind = "FuelTank"     -> {p.level, p.consumption_rate} \subseteq Int /\ p.capacity \in Nat
      [] kind = "Relay"        -> p.hold_threshold \in Int /\ p.closed \in {0, 1}
      [] kind = "AZS"          -> /\ p.closed \in {0, 1} /\ p.unit \in Positive
                                  /\ {p.r_heat, p.trip, p.k_cool} \subseteq Int

\* The inputs a kind reads.
Ports(kind) ==
    CASE kind \in {"Monostable", "TimeDelay"} -> [in : {0, 1}]
      [] kind = "SampleHold" -> [in : Int, trigger : {0, 1}]
      [] kind = "Integrator" -> [in : Int, reset : {0, 1}]
      [] kind = "AZS"        -> [control : Int, load : Int, leak : Int]
      [] OTHER               -> [in : Int]

ASSUME BenchAssumption ==
    \A x \in DOMAIN Bench :
        Bench[x] \in Kinds /\ Allowed(Bench[x], Params[x]) /\ Inputs[x] \subseteq Ports(Bench[x])

VARIABLES
    name,    \* the part on the bench
    part,    \* its committed state
    out,     \* the signals it wrote: [value] or, of a breaker, [state, tripped]
    frames   \* history: the frames so far, [dt, at, in, out, part], at the time it ended

benchVars == <<name, part, out, frames>>

Kind == Bench[name]
P == Params[name]
Now == IF frames = <<>> THEN 0 ELSE Last(frames).at

Smaller(a, b) == IF a < b THEN a ELSE b
Larger(a, b) == IF a < b THEN b ELSE a
Distance(a, b) == IF a < b THEN b - a ELSE a - b
Logic(condition) == IF condition THEN 1 ELSE 0

-----------------------------------------------------------------------------
(* Each part answers a frame with [part |-> committed next state,            *)
(* out |-> what it wrote].                                                   *)

Answer(next, value) == [part |-> next, out |-> [value |-> value]]

\* Mutant: an edge that comes while the pulse lasts does not start it again.
MonostableOnce(s, in, dt) ==
    LET trigger == in.in = 1 /\ s.last_in = 0 /\ s.timer = 0
    IN Answer([timer |-> IF trigger THEN P.duration ELSE Larger(0, s.timer - dt),
               last_in |-> in.in],
              Logic(s.timer > 0))

Monostable(s, in, dt) ==
    LET trigger == in.in = 1 /\ s.last_in = 0
    IN Answer([timer |-> IF trigger THEN P.duration ELSE Larger(0, s.timer - dt),
               last_in |-> in.in],
              Logic(s.timer > 0))

TimeDelay(s, in, dt) ==
    LET current == IF s.first THEN in.in ELSE s.current
        same == s.first \/ in.in = s.last_in
        accumulator == IF same THEN s.accumulator + dt ELSE 0
        delay == IF in.in = 1 THEN P.delay_on ELSE P.delay_off
    IN Answer([current |-> IF accumulator >= delay THEN in.in ELSE current,
               last_in |-> in.in, accumulator |-> accumulator, first |-> FALSE],
              current)

SampleHold(s, in, dt) ==
    Answer([stored |-> IF in.trigger = 1 /\ s.last_trig = 0 THEN in.in ELSE s.stored,
            last_trig |-> in.trigger],
           s.stored)

\* Has no staged state: it answers in the same frame.
Comparator(s, in, dt) ==
    LET set == in.in >= P.Von
        keep == in.in > P.Voff
        on == Logic(set \/ (s.output_state = 1 /\ keep))
    IN Answer([output_state |-> on], on)

Integrator(s, in, dt) ==
    LET committed == IF s.first THEN P.initial_val ELSE s.accumulator
    IN Answer([accumulator |-> IF in.reset = 1 THEN 0 ELSE committed + in.in * P.gain * dt,
               first |-> FALSE],
              committed)

\* What the followers share: they start at their input, go towards it by step
\* and ignore differences below the dead zone.
Committed(s, in) == IF s.first THEN in.in ELSE s.current
Diff(s, in) == in.in - Committed(s, in)

Follow(s, in, step) ==
    LET committed == Committed(s, in)
        moves == Distance(in.in, committed) >= P.deadzone
    IN Answer([current |-> IF moves THEN committed + step ELSE committed, first |-> FALSE],
              committed)

\* The clamp of a difference to [-max_step, max_step].
Limited(diff, max_step) == Larger(-max_step, Smaller(max_step, diff))

SlewRate(s, in, dt) == Follow(s, in, Limited(Diff(s, in), P.max_rate * dt))

AsymSlewRate(s, in, dt) ==
    LET active_rate == IF Diff(s, in) > 0 THEN P.rate_up ELSE P.rate_down
    IN Follow(s, in, Limited(Diff(s, in), active_rate * dt))

\* The lag of a follower, which pre_load keeps from nothing: a tick at least.
HeldTau(tau) == Larger(tau, 1)

\* Mutant: the factor of a long frame is not held at 1.
FastTMOUnbounded(s, in, dt) == Follow(s, in, (Diff(s, in) * dt) \div HeldTau(P.tau))

FastTMO(s, in, dt) == Follow(s, in, (Diff(s, in) * Smaller(dt, HeldTau(P.tau))) \div HeldTau(P.tau))

AsymTMO(s, in, dt) ==
    LET tau == HeldTau(IF Diff(s, in) > 0 THEN P.tau_up ELSE P.tau_down)
    IN Follow(s, in, (Diff(s, in) * Smaller(dt, tau)) \div tau)

\* The factor is not held at 1.
LerpNode(s, in, dt) == Follow(s, in, (Diff(s, in) * P.factor) \div P.unit)

FuelTank(s, in, dt) ==
    Answer([level |-> Larger(s.level - Larger(P.consumption_rate, 0) * dt, 0)], s.level)

\* Keeps its state when the control is within the threshold.
Relay(s, in, dt) ==
    LET closed == IF in.in > P.hold_threshold THEN 1
                  ELSE IF in.in < -P.hold_threshold THEN 0 ELSE s.closed
    IN Answer([closed |-> closed], closed)

-----------------------------------------------------------------------------
(* The breaker.  Heat is counted so that the trip point is P.trip; the       *)
(* solver gives it the current of its branch, whose conductance is g_closed  *)
(* or g_open by the state it wrote last frame.                               *)

\* What the closed branch carries, and what leaks through the open one.
BranchCurrent(s, in) == IF s.state = 1 THEN in.load ELSE in.leak

\* AZS::execute, after the solve.
Heated(s, in, dt) ==
    LET current == BranchCurrent(out, in)
        heat == P.r_heat * current * current
    IN Larger(0, s.temp + heat * dt - (s.temp * P.k_cool * dt) \div P.unit)

\* Mutant: the output is written before the thermal trip.
AZSCommitEarlyOutput(s, temp, control) ==
    LET moved == control # s.last_control
        closed == IF moved THEN 1 - s.closed ELSE s.closed
        trips == closed = 1 /\ temp > P.trip
        tripped == IF trips THEN 1 ELSE IF moved /\ s.closed = 0 THEN 0 ELSE s.tripped
        now == IF trips THEN 0 ELSE closed
    IN [part |-> [closed |-> now, tripped |-> tripped, temp |-> temp, last_control |-> control],
        out |-> [state |-> closed, tripped |-> tripped]]

AZSCommit(s, temp, control) ==
    LET moved == control # s.last_control
        closed == IF moved THEN 1 - s.closed ELSE s.closed
        trips == closed = 1 /\ temp > P.trip
        tripped == IF trips THEN 1 ELSE IF moved /\ s.closed = 0 THEN 0 ELSE s.tripped
        now == IF trips THEN 0 ELSE closed
    IN [part |-> [closed |-> now, tripped |-> tripped, temp |-> temp, last_control |-> control],
        out |-> [state |-> now, tripped |-> tripped]]

AZS(s, in, dt) == AZSCommit(s, Heated(s, in, dt), in.control)

-----------------------------------------------------------------------------
Behaviour(s, in, dt) ==
    CASE Kind = "Monostable"   -> Monostable(s, in, dt)
      [] Kind = "TimeDelay"    -> TimeDelay(s, in, dt)
      [] Kind = "SampleHold"   -> SampleHold(s, in, dt)
      [] Kind = "Comparator"   -> Comparator(s, in, dt)
      [] Kind = "Integrator"   -> Integrator(s, in, dt)
      [] Kind = "SlewRate"     -> SlewRate(s, in, dt)
      [] Kind = "AsymSlewRate" -> AsymSlewRate(s, in, dt)
      [] Kind = "FastTMO"      -> FastTMO(s, in, dt)
      [] Kind = "AsymTMO"      -> AsymTMO(s, in, dt)
      [] Kind = "LerpNode"     -> LerpNode(s, in, dt)
      [] Kind = "FuelTank"     -> FuelTank(s, in, dt)
      [] Kind = "Relay"        -> Relay(s, in, dt)
      [] Kind = "AZS"          -> AZS(s, in, dt)

\* The parts as they are built.
Built(kind, p) ==
    CASE kind = "Monostable" -> [timer |-> 0, last_in |-> 0]
      [] kind = "TimeDelay"  -> [current |-> 0, last_in |-> 0, accumulator |-> 0, first |-> TRUE]
      [] kind = "SampleHold" -> [stored |-> 0, last_trig |-> 0]
      [] kind = "Comparator" -> [output_state |-> 0]
      [] kind = "Integrator" -> [accumulator |-> p.initial_val, first |-> TRUE]
      [] kind = "FuelTank"   -> [level |-> Smaller(Larger(p.level, 0), p.capacity)]
      [] kind = "Relay"      -> [closed |-> p.closed]
      [] kind = "AZS"        -> [closed |-> p.closed, tripped |-> 0, temp |-> 0, last_control |-> 0]
      [] OTHER               -> [current |-> 0, first |-> TRUE]

\* Simulator::start: the signals are 0, and the solver-owned parts commit once
\* on them, which writes the state they were built with.
Bootstrapped(kind, p) ==
    IF kind = "AZS" THEN [state |-> p.closed, tripped |-> 0]
    ELSE [value |-> IF kind = "Relay" THEN p.closed ELSE 0]

BenchInit ==
    /\ name \in DOMAIN Bench
    /\ part = Built(Bench[name], Params[name])
    /\ out = Bootstrapped(Bench[name], Params[name])
    /\ frames = <<>>

\* Simulator::step: a frame without time does nothing, a hitch is cut short.
Frame(dt, in) ==
    LET d == Smaller(dt, MAX_DT)
        answer == Behaviour(part, in, d)
    IN  /\ Len(frames) < MaxFrames
        /\ dt > 0
        /\ part' = answer.part
        /\ out' = answer.out
        /\ frames' = Append(frames, [dt |-> d, at |-> Now + d, in |-> in, out |-> answer.out,
                                     part |-> answer.part])
        /\ UNCHANGED name

BenchNext == \E dt \in Steps, in \in Inputs[name] : Frame(dt, in)

BenchSpec == BenchInit /\ [][BenchNext]_benchVars

-----------------------------------------------------------------------------
(* What the parts promise, in terms of the frames they were given: fs is a   *)
(* history of frames, p the parameters.                                      *)

In(fs, i) == fs[i].in.in

\* When frame i ended, and the time from the start of frame i to the end of frame j.
Ended(fs, i) == IF i = 0 THEN 0 ELSE fs[i].at
Elapsed(fs, i, j) == Ended(fs, j) - Ended(fs, i - 1)

Edges(levels) == {i \in DOMAIN levels : levels[i] = 1 /\ (i = 1 \/ levels[i - 1] = 0)}

InEdges(fs) == Edges([i \in DOMAIN fs |-> fs[i].in.in])
TriggerEdges(fs) == Edges([i \in DOMAIN fs |-> fs[i].in.trigger])

\* The frame in which the run of equal inputs that ends in frame i began.
RunStart(fs, i) == Min({j \in 1..i : \A k \in j..i : In(fs, k) = In(fs, i)})

\* How long an input has lasted: the frame it came in does not count, but at
\* the start of the simulation.
Lasted(fs, i) ==
    LET start == RunStart(fs, i) IN Elapsed(fs, IF start = 1 THEN 1 ELSE start + 1, i)

LastOr(S, default) == IF S = {} THEN default ELSE Max(S)

PulseReference(fs, p) == Logic(\E e \in InEdges(fs) : Elapsed(fs, e + 1, Len(fs)) < p.duration)

\* The last frame whose input had lasted as long as its delay asks.
LastPassed(fs, p) ==
    LET delay(i) == IF In(fs, i) = 1 THEN p.delay_on ELSE p.delay_off
    IN LastOr({i \in DOMAIN fs : Lasted(fs, i) >= delay(i)}, 1)

SampleReference(fs) ==
    IF TriggerEdges(fs) = {} THEN 0 ELSE In(fs, Max(TriggerEdges(fs)))

\* A part with two thresholds shows the side its input last was on.
LatchReference(fs, high, low, initial) ==
    LET beyond == {i \in DOMAIN fs : In(fs, i) >= high \/ In(fs, i) <= low}
    IN IF beyond = {} THEN initial ELSE Logic(In(fs, Max(beyond)) >= high)

\* The integral of the inputs up to each frame.
Area(fs, p) ==
    LET upto[i \in 0..Len(fs)] ==
            IF i = 0 THEN 0 ELSE upto[i - 1] + In(fs, i) * p.gain * fs[i].dt
    IN upto

IntegralReference(fs, p) ==
    LET reset == LastOr({i \in DOMAIN fs : fs[i].in.reset = 1}, 0)
    IN (IF reset = 0 THEN p.initial_val ELSE 0) + (Area(fs, p)[Len(fs)] - Area(fs, p)[reset])

LevelReference(fs, p) ==
    Larger(Smaller(Larger(p.level, 0), p.capacity)
               - Larger(p.consumption_rate, 0) * Elapsed(fs, 1, Len(fs)), 0)

\* Timers, samplers, latches and integrators are functions of their history: a
\* pulse lasts its duration from the last rising edge, whatever the frames; a
\* level passes a delay when it has lasted that long and no shorter one does; a
\* sample is the input at the last edge; a comparator and a relay remember which
\* threshold was passed last; an integral starts over at a reset (the execute
\* and commit of each part).  All but the latches answer a frame late.
OutputsFollowHistory ==
    frames # <<>> =>
        LET shown == Last(frames).out.value
            past == Front(frames)
        IN CASE Kind = "Monostable" -> shown = PulseReference(past, P)
             [] Kind = "TimeDelay"  -> shown = In(frames, LastPassed(past, P))
             [] Kind = "SampleHold" -> shown = SampleReference(past)
             [] Kind = "Comparator" -> shown = LatchReference(frames, P.Von, P.Voff, 0)
             [] Kind = "Relay"      -> shown = LatchReference(frames, P.hold_threshold + 1,
                                                              -P.hold_threshold - 1, P.closed)
             [] Kind = "Integrator" -> shown = IntegralReference(past, P)
             [] Kind = "FuelTank"   -> shown = LevelReference(past, P)
             [] OTHER -> TRUE

Limiters == {"SlewRate", "AsymSlewRate"}

\* The rate of a limiter on its way between two values.
RateTo(from, aim) ==
    IF Kind = "SlewRate" THEN P.max_rate ELSE IF aim > from THEN P.rate_up ELSE P.rate_down

\* The parameters by which a follower goes towards its input and stops there.
\* Nothing holds a rate above 0, and nothing a factor at 1.
Heads(from, aim) ==
    /\ Kind \in Limiters => RateTo(from, aim) > 0
    /\ Kind = "LerpNode" => 0 < P.factor /\ P.factor <= P.unit

\* The difference of which it takes a unit or more (over floats, any).
Grain(from, aim) ==
    CASE Kind = "FastTMO"  -> HeldTau(P.tau)
      [] Kind = "AsymTMO"  -> HeldTau(IF aim > from THEN P.tau_up ELSE P.tau_down)
      [] Kind = "LerpNode" -> P.unit
      [] OTHER             -> 1

\* What a follower promises of a frame in which it showed one value and was given
\* another: never to pass it, and never to rest outside its dead zone; of a
\* limiter, to keep to its rate; of a LerpNode, to come no further away even when
\* it passes its input, as with factors from 1 to 2 it does.
Promised(from, aim, dt, next) ==
    /\ Heads(from, aim) =>
           /\ next \in Smaller(from, aim)..Larger(from, aim)
           /\ Distance(from, aim) >= Larger(P.deadzone, Grain(from, aim)) => next # from
           /\ Kind \in Limiters => Distance(from, next) <= RateTo(from, aim) * dt
    /\ Kind = "LerpNode" /\ 0 <= P.factor /\ P.factor <= 2 * P.unit =>
           Distance(next, aim) <= Distance(from, aim)

\* A follower starts where its input is, then keeps its promise to the input it
\* was given a frame before, in the longest frame as in the shortest (slew_rate,
\* asym_slew_rate, fast_tmo, asym_tmo, lerp_node).
FollowersNeverOvershoot ==
    Kind \in Followers /\ frames # <<>> =>
        LET shown == Last(frames).out.value
            before == frames[Len(frames) - 1]
        IN IF Len(frames) = 1 THEN shown = In(frames, 1)
           ELSE Promised(before.out.value, before.in.in, before.dt, shown)

\* A breaker is never left closed above its trip point; one that opens with
\* nobody at its control says that it tripped, and says so, open, until the
\* control is moved; and an open breaker gets no hotter than its own leak can make
\* it, whatever its load would be: it is heated as the branch it says it is
\* (AZS::commit, and the stamp of its state signal in the next solve).
BreakersStayTripped ==
    Kind = "AZS" /\ frames # <<>> =>
        LET now == Last(frames).part
            before == IF Len(frames) = 1 THEN Built(Kind, P) ELSE Last(Front(frames)).part
            in == Last(frames).in
            moved == in.control # before.last_control
        IN /\ now.closed = 1 => now.temp <= P.trip /\ now.tripped = 0
           /\ before.closed = 1 /\ now.closed = 0 => moved \/ now.tripped = 1
           /\ before.closed = 0 /\ ~moved => now.closed = 0 /\ now.tripped = before.tripped
           /\ before.closed = 0
              /\ P.r_heat * in.leak * in.leak * P.unit <= before.temp * P.k_cool =>
                  now.temp <= before.temp
=============================================================================
