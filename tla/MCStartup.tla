----------------------------- MODULE MCStartup -----------------------------
(* A small instance of Startup for TLC.                                    *)
EXTENDS Startup, TLC

CONSTANTS m1, m2, s1, s2

Symmetry == Permutations({m1, m2}) \cup Permutations({s1, s2})

\* Every combination of the options that Startup looks at, for one port.
EveryPlan ==
    [listen: {"loopback", "elsewhere"}, port: {1}, cert: BOOLEAN, key: BOOLEAN,
     allow: BOOLEAN]
=============================================================================
