------------------------------- MODULE Vector -------------------------------
(***************************************************************************)
(* The two idioms on std::vector<shared_ptr<Client>> that the lobby code   *)
(* is written with.  They are stated here with recursive functions, and    *)
(* not with SelectSeq, so that module VectorProofs can prove about them.   *)
(***************************************************************************)
EXTENDS Integers, Sequences

(* The clients that a vector holds. *)
Members(s) == {s[i] : i \in DOMAIN s}

(* v.erase(remove(v.begin(), v.end(), c), v.end()), done for each c in D: *)
(* the elements outside D, in the order they had.                         *)
Without(s, D) ==
    LET kept[i \in 0 .. Len(s)] ==
            IF i = 0 THEN << >>
            ELSE IF s[i] \in D THEN kept[i - 1] ELSE Append(kept[i - 1], s[i])
    IN  kept[Len(s)]
=============================================================================
