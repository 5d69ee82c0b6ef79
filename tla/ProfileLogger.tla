--------------------------- MODULE ProfileLogger ---------------------------
(***************************************************************************)
(* ProfileLogger.cpp: basic block counts, of the whole execution and of    *)
(* intervals that the user of a logger ends.  A logger is a record; a      *)
(* function's counts are kept per block, since a block has one function.   *)
(***************************************************************************)
EXTENDS Naturals, Sequences

CONSTANTS
  Blocks,          \* basic blocks of the profiled program
  IntervalSize     \* INTERVAL_SIZE of the fixed size logger

ASSUME LoggerAssumption == IntervalSize \in Nat \ {0}

NoCounts == [b \in Blocks |-> 0]

Counts == [Blocks -> Nat]
Intervals == [lhs : Nat, rhs : Nat, lhsMark : Nat, rhsMark : Nat, counts : Counts]
Loggers == [count : Nat, lhs : Nat, lhsMark : Nat,
            total : Counts, interval : Counts, saved : Seq(Intervals)]

NewLogger ==
  [count |-> 0, lhs |-> 0, lhsMark |-> 0,
   total |-> NoCounts, interval |-> NoCounts, saved |-> <<>>]

Increment(counts, b) == [counts EXCEPT ![b] = @ + 1]

LogInst(l, b) ==
  [l EXCEPT !.total = Increment(@, b), !.interval = Increment(@, b), !.count = @ + 1]

DiscardAndRestartInterval(l, mark) ==
  [l EXCEPT !.lhs = l.count, !.lhsMark = mark, !.interval = NoCounts]

(* Mutant: the counts of the interval are kept. *)
SaveAndRestartInterval_KeepsCounts(l, mark) ==
  [l EXCEPT !.saved = Append(@, [lhs |-> l.lhs, rhs |-> l.count,
                                 lhsMark |-> l.lhsMark, rhsMark |-> mark,
                                 counts |-> l.interval]),
            !.lhs = l.count, !.lhsMark = mark]

SaveAndRestartInterval(l, mark) ==
  [DiscardAndRestartInterval(l, mark) EXCEPT
     !.saved = Append(@, [lhs |-> l.lhs, rhs |-> l.count,
                          lhsMark |-> l.lhsMark, rhsMark |-> mark,
                          counts |-> l.interval])]

(* Mutant: an interval may grow past its size. *)
LogInstFixed_OffByOne(l, b) ==
  LET m == LogInst(l, b) IN
  IF l.count - l.lhs = IntervalSize THEN SaveAndRestartInterval(m, 0) ELSE m

(* FixedSizeIntervalProfileLogger: an interval ends when it is full. *)
LogInstFixed(l, b) ==
  LET m == LogInst(l, b) IN
  IF m.count - m.lhs = IntervalSize THEN SaveAndRestartInterval(m, 0) ELSE m

=============================================================================
