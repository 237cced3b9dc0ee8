----------------------------- MODULE MCSequence -----------------------------
(* Instances of Sequence for TLC. *)
EXTENDS Sequence

SomePlans == {<<>>, <<1, 2>>}

=============================================================================
