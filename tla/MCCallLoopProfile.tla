------------------------- MODULE MCCallLoopProfile -------------------------
(***************************************************************************)
(* Programs for CallLoopProfile.  Instructions are numbers; every first    *)
(* instruction of a block is also its name.                                *)
(***************************************************************************)
EXTENDS CallLoopProfile

(* main: a loop that calls f through a pointer; f: a branch into a loop     *)
(* that calls f again.                                                      *)
(*   main  1 op; 2 br 3 | 3 op; 4 br 5, 7 | 5 icall f; 6 br 3 | 7 ret       *)
(*   f     8 br 9, 11   | 9 call f; 10 br 9, 11 | 11 ret                    *)
LoopInst   == 1 .. 11
LoopKind   == <<"op", "br", "op", "br", "icall", "br", "ret", "br", "call", "br", "ret">>
LoopSucc   == <<{2}, {3}, {4}, {5, 7}, {6}, {3}, {}, {9, 11}, {10}, {9, 11}, {}>>
LoopCallee == [i \in LoopInst |-> IF i \in {5, 9} THEN {8} ELSE {}]
LoopRegion == <<1, 1, 3, 3, 3, 3, 1, 8, 9, 9, 8>>
LoopBlock  == <<1, 1, 3, 3, 5, 5, 7, 8, 9, 9, 11>>
LoopStarts == {1, 4}

(* The program has what the proofs ask of it. *)
ASSUME LoopAssumption == MarksPlaceable

=============================================================================
