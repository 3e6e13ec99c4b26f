------------------------------ MODULE MCLimiter ------------------------------
(* Instances of RateHistory for TLC.                                       *)
EXTENDS RateHistory, TLC

(* Handlers are interchangeable, and so are peers. *)
Symmetry == Permutations(Conns) \cup Permutations(IPs)
=============================================================================
