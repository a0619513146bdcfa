-------------------------- MODULE MCGatewayBudget --------------------------
(* Parameters absent, negative, at and beyond their bounds. *)
EXTENDS GatewayBudget

MCWaits     == {Absent, -1, 0, 1000, 30000, IntMax}
MCHolds     == {Absent, 0, 10000, IntMax}
MCSettles   == {Absent, -1, 30000, IntMax}
MCCounts    == {1, 50, 51}
MCFallbacks == {1, 5000, IntMax}

(* --timeout as it is when nobody sets it. *)
MCDefaultFallbacks == {5000}

=============================================================================
