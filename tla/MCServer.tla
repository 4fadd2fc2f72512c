------------------------------ MODULE MCServer ------------------------------
(* Small instances of Server for TLC. *)
EXTENDS ServerProperties, TLC

(* Names are interchangeable; descriptors are not, the lowest comes first. *)
Symmetry == Permutations(Usernames)
=============================================================================
