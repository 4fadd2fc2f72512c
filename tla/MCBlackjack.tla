----------------------------- MODULE MCBlackjack -----------------------------
(* Small instances of Blackjack for TLC. *)
EXTENDS Blackjack

(* The deck of the instance is as good as a deck of 52 for its seats. *)
ASSUME DeckIsLargeEnough == EnoughCards

(* Clients are interchangeable. *)
Symmetry == Permutations(Clients)
==============================================================================
