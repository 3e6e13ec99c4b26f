------------------------------- MODULE MCPool -------------------------------
(* Instances of Pool for TLC: the clients' sticky keys.                    *)
EXTENDS Pool, TLC

CONSTANTS c1, c2

KeysShared == [c \in Clients |-> 1]

(* A key with its top bit set, as half of all 64-bit hashes have. *)
KeysHigh == [c \in Clients |-> KeyHalf + 1]

(* Clients that share a key are interchangeable. *)
ClientSymmetry == Permutations(Clients)
=============================================================================
