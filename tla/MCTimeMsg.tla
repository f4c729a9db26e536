----------------------------- MODULE MCTimeMsg -----------------------------
(* The time message buffer with a few receivers. *)
EXTENDS TimeMsg

NMEA(at) == [at |-> at, ref |-> "nav", scale |-> "utc", tag |-> "NMEA",
             gnss |-> "timeGNSS", corr |-> "no", dev |-> {0}]
TIM_TP(at, scale) == [at |-> at, ref |-> "pre", scale |-> scale, tag |-> "native",
                      gnss |-> "timeGNSS", corr |-> "yes", dev |-> {0}]
TIM_TOS(at) == [at |-> at, ref |-> "post", scale |-> "both", tag |-> "native",
                gnss |-> "timeGNSS", corr |-> "yes", dev |-> {0}]
NAV(at, gnss, dev) == [at |-> at, ref |-> "nav", scale |-> "tai", tag |-> "native",
                       gnss |-> gnss, corr |-> "no", dev |-> dev]
NAV_TIMEUTC(at, dev) == [NAV(at, "timeGNSS", dev) EXCEPT !.scale = "utc"]

\* Solutions of two constellations, neither of which is the one that is used for time.
TwoSolutions == [rate |-> 1, msgs |-> <<NAV(1, "other", {0}), NAV(3, "other", {1})>>]

\* UTC from a navigation solution.
NativeUTC == [rate |-> 1, msgs |-> <<NAV_TIMEUTC(1, {0, 1})>>]

\* Two sentences; the same at 2 Hz; corrections ahead of the pulse, with UTC as the time
\* base too; corrections after and ahead of the pulse; a solution of the constellation that
\* is used for time and of another; of two others; UTC from a solution.
MCReceivers ==
  {[rate |-> 1, msgs |-> <<NMEA(1), NMEA(3)>>],
   [rate |-> 2, msgs |-> <<NMEA(1)>>],
   [rate |-> 1, msgs |-> <<NMEA(1), TIM_TP(3, "tai")>>],
   [rate |-> 1, msgs |-> <<NMEA(1), TIM_TP(3, "utc")>>],
   [rate |-> 1, msgs |-> <<TIM_TOS(0), TIM_TP(2, "tai"), NMEA(4)>>],
   [rate |-> 1, msgs |-> <<NAV(1, "other", {0}), NAV(3, "timeGNSS", {0})>>],
   TwoSolutions, NativeUTC}
=============================================================================
