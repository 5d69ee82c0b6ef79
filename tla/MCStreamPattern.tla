-------------------------- MODULE MCStreamPattern --------------------------
(* Instances of StreamPattern for TLC. *)
EXTENDS StreamPattern

(* Lines, rows, repetition, and negative differences. *)
MixedVals == {0, 1, 2}

=============================================================================
