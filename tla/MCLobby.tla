------------------------------ MODULE MCLobby -------------------------------
(* Small instances of Lobby for TLC. *)
EXTENDS LobbyClaims, TLC

(* Client objects are interchangeable. *)
Symmetry == Permutations(Clients)
=============================================================================
