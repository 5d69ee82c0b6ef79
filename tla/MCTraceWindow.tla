--------------------------- MODULE MCTraceWindow ---------------------------
(* Instances of TraceWindow for TLC. *)
EXTENDS TraceWindow, TLC

CONSTANTS t1, t2, fn, gn, lib

(* One instruction, a gap, and two that touch. *)
ThreeIntervals == <<[lhs |-> 1, rhs |-> 2], [lhs |-> 3, rhs |-> 4], [lhs |-> 4, rhs |-> 6]>>

(* All of a program with one function, in intervals the threads share. *)
Shared(threads, list) ==
  [threads |-> threads, roi |-> "All", mode |-> "TraceSpecifiedInterval",
   startInst |-> 0, maxInst |-> 1, skipInst |-> 0, endInst |-> 0,
   intervals |-> list, hardExitCount |-> 99,
   instrumented |-> {fn}, traced |-> {fn}, external |-> {}, nameless |-> {}]

(* One function and its callees, among others, some of them not             *)
(* instrumented, and these with or without a name for the unwinder.         *)
Specified(t, mode, start, max, skip, end, hard, nameless) ==
  [threads |-> {t}, roi |-> "SpecifiedFunction", mode |-> mode,
   startInst |-> start, maxInst |-> max, skipInst |-> skip, endInst |-> end,
   intervals |-> <<>>, hardExitCount |-> hard,
   instrumented |-> {fn, gn}, traced |-> {fn}, external |-> {lib},
   nameless |-> nameless]

(* One setup for each thread, so that the threads remain symmetric. *)
AllSetups ==
  {Shared(Thread, ThreeIntervals)}
    \cup {Specified(t, "TraceUniformInterval", 1, 2, 1, 6, 8, {}) : t \in Thread}
    \cup {Specified(t, "TraceAll", 0, 1, 0, 0, 6, {lib}) : t \in Thread}
UnwindSetups == {Specified(t1, "TraceAll", 0, 1, 0, 0, 99, {})}

(* What the proofs assume of the intervals. *)
ASSUME NoIntervalIsEmpty == IntervalsNotEmpty

Symmetry == Permutations(Thread)

=============================================================================
