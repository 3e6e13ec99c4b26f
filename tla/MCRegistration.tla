--------------------------- MODULE MCRegistration ---------------------------
(* The configurations of a managed instance for TLC: two keys, none, a     *)
(* forced registration, an organization, and one the engine leaves alone.  *)
EXTENDS WarpController

Instance(k) == [up |-> TRUE, managed |-> TRUE, org |-> FALSE, force |-> FALSE,
                key |-> k, unique |-> TRUE, started |-> TRUE, pooled |-> TRUE]

ManagedConfigs ==
    {Instance("k1"), Instance("k2"), Instance(NoKey),
     [Instance("k1") EXCEPT !.force = TRUE],
     [Instance(NoKey) EXCEPT !.org = TRUE],
     [NotLoaded EXCEPT !.up = TRUE]}

OneKey == {Instance("k1")}
=============================================================================
