---------------------------- MODULE MCComponents ---------------------------
(* A bench with one part of each kind, a second breaker built open, a        *)
(* LerpNode whose factor is above 1 and a FastTMO without a lag.             *)
EXTENDS Components

MCBench ==
    [pulse |-> "Monostable", delay |-> "TimeDelay", sampler |-> "SampleHold",
     comparator |-> "Comparator", integrator |-> "Integrator", slew |-> "SlewRate",
     asym_slew |-> "AsymSlewRate", lag |-> "FastTMO", asym_lag |-> "AsymTMO",
     lerp |-> "LerpNode", lerp_over |-> "LerpNode", prompt |-> "FastTMO",
     tank |-> "FuelTank", relay |-> "Relay",
     breaker |-> "AZS", open_breaker |-> "AZS"]

\* The heat is scaled by 4^6: a tick cools a quarter of it, six times exactly.
Breaker == [r_heat |-> 1024, trip |-> 4096, k_cool |-> 1, unit |-> 4, closed |-> 1]

MCParams ==
    [pulse |-> [duration |-> 3], delay |-> [delay_on |-> 3, delay_off |-> 1],
     sampler |-> [none |-> 0], comparator |-> [Von |-> 3, Voff |-> 1],
     integrator |-> [initial_val |-> 5, gain |-> 2],
     slew |-> [max_rate |-> 24, deadzone |-> 4],
     asym_slew |-> [rate_up |-> 24, rate_down |-> 40, deadzone |-> 4],
     lag |-> [tau |-> 2, deadzone |-> 2],
     asym_lag |-> [tau_up |-> 2, tau_down |-> 1, deadzone |-> 2],
     lerp |-> [factor |-> 1, unit |-> 2, deadzone |-> 2],
     lerp_over |-> [factor |-> 3, unit |-> 2, deadzone |-> 2],
     prompt |-> [tau |-> 0, deadzone |-> 0],
     tank |-> [level |-> 9, capacity |-> 7, consumption_rate |-> 2],
     relay |-> [hold_threshold |-> 1, closed |-> 1],
     breaker |-> Breaker, open_breaker |-> [Breaker EXCEPT !.closed = 0]]

Signals == {[in |-> v] : v \in {0, 1}}
Followed == {[in |-> v] : v \in {-64, 0, 64}}

\* The currents of a branch that is closed and open: without voltage, without a
\* leak, and with one that heats an open breaker up to its trip point.
Loads ==
    {[control |-> c, load |-> l[1], leak |-> l[2]] :
         c \in {0, 1}, l \in {<<0, 0>>, <<2, 0>>, <<3, 2>>}}

MCInputs ==
    [pulse |-> Signals, delay |-> Signals, sampler |-> [in : {3, 4}, trigger : {0, 1}],
     comparator |-> {[in |-> v] : v \in 0..3}, integrator |-> [in : {1, -2}, reset : {0, 1}],
     slew |-> Followed, asym_slew |-> Followed, lag |-> Followed, asym_lag |-> Followed,
     lerp |-> Followed, lerp_over |-> Followed, prompt |-> Followed,
     tank |-> {[in |-> 0]}, relay |-> {[in |-> v] : v \in -2..2},
     breaker |-> Loads, open_breaker |-> Loads]
=============================================================================
