------------------------------ MODULE MCSelect ------------------------------
(* Instances of SelectHistory for TLC: the clients' sticky keys.           *)
EXTENDS SelectHistory, TLC

CONSTANTS c1, c2

(* A shared key whose home, with two backends selectable, is the first. *)
KeysShared == [c \in Clients |-> 2]

(* Clients that share a key are interchangeable. *)
ClientSymmetry == Permutations(Clients)
=============================================================================
