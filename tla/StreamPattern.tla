--------------------------- MODULE StreamPattern ---------------------------
(***************************************************************************)
(* How the stream pass recognises what a static instruction does in a      *)
(* loop.  DynStream sorts the events of the trace into one entry per       *)
(* iteration; StreamPattern feeds every entry to state machines, one for   *)
(* each way to access and each shape of the values, and picks the most     *)
(* constrained one that still fits when the loop ends;                     *)
(* FunctionalStreamPattern replays what was picked.                        *)
(***************************************************************************)
EXTENDS Integers, Sequences, SequencesExt, FiniteSets

CONSTANTS
  M,            \* number of values of a word: 2^64 in the code
  Vals,         \* values of the instruction
  MaxEntries,   \* bound: entries of all instances of the stream
  MaxStreams    \* bound: instances of the stream

ASSUME PatternAssumption ==
  /\ M \in Nat \ {0} /\ Vals \subseteq 0 .. M - 1
  /\ {MaxEntries, MaxStreams} \subseteq Nat

ValueOrder  == <<"UNKNOWN", "CONSTANT", "LINEAR", "QUARDRIC", "RANDOM">>
AccessOrder == <<"UNCOND", "COND_ACCESS", "COND_UPDATE", "SAME_COND">>
ValuePattern  == ToSet(ValueOrder)
AccessPattern == ToSet(AccessOrder)

None == [val |-> "none", acc |-> "none"]

VARIABLES
  type,              \* "MEM" or "IV" (StaticStream::TypeT)
  candidate,         \* is its innermost loop one whose iterations are seen?
  iters, lastAccessIters,
  history,           \* entries <<valid, value>> of this instance
  fsms,              \* ComputingFSMs
  aggregated,        \* AggregatedPatternPtr
  patterns,          \* ProtobufPatterns: what was computed at each end
  seen, touched,     \* the program: what each iteration of a candidate did
                     \* first (until late), and is the current one among them?
  late               \* has the value been used after the end of its loop?

dyn  == <<iters, lastAccessIters>>
vars == <<type, candidate, dyn, history, fsms, aggregated, patterns, seen, touched, late>>

-----------------------------------------------------------------------------
(* Value patterns.  One record stands for the fields of all five classes;   *)
(* `confirmed' holds pairs <<index, value>>.                                *)

FreshValueFSM(v) ==
  [state |-> IF v \in {"UNKNOWN", "RANDOM"} THEN "SUCCESS" ELSE "UNKNOWN",
   updates |-> 0, prev |-> 0, confirmed |-> <<>>,
   base |-> 0, strideI |-> 0, i |-> 0, ni |-> 0, strideJ |-> 0, j |-> 0]

Failed(f) == [f EXCEPT !.state = "FAILURE"]

(* computeLinearBaseStride: differences and division are unsigned. *)
ValDiff(r, s)    == (s[2] - r[2]) % M
IdxDiff(r, s)    == s[1] - r[1]
HasStride(r, s)  ==
  ValDiff(r, s) # 0 /\ IdxDiff(r, s) # 0 /\ ValDiff(r, s) % IdxDiff(r, s) = 0
StrideOf(r, s)   == ValDiff(r, s) \div IdxDiff(r, s)
BaseOf(r, s)     == (r[2] - r[1] * StrideOf(r, s)) % M

UpdateConst(f, x) ==
  [f EXCEPT !.updates = @ + 1,
            !.prev = IF f.state = "UNKNOWN" THEN x ELSE @,
            !.state = IF f.state = "SUCCESS" /\ f.prev # x THEN "FAILURE" ELSE "SUCCESS"]

NextLinear(f) == (f.base + f.strideI * (f.i + 1)) % M

(* Mutant: the induction variable starts one too low. *)
UpdateLinear_OffByOne(f, x) ==
  LET c == Append(f.confirmed, <<f.updates, x>>)
      g == [f EXCEPT !.prev = x, !.updates = @ + 1] IN
  CASE f.state = "SUCCESS" /\ x = NextLinear(f) -> [g EXCEPT !.i = @ + 1]
    [] f.state = "UNKNOWN" /\ Len(c) = 1 -> [g EXCEPT !.confirmed = c]
    [] f.state = "UNKNOWN" /\ Len(c) = 2 /\ HasStride(c[1], c[2]) ->
         [g EXCEPT !.state = "SUCCESS", !.confirmed = c, !.i = f.updates - 1,
                   !.base = BaseOf(c[1], c[2]), !.strideI = StrideOf(c[1], c[2])]
    [] OTHER -> Failed(g)

(* The index of a value is the number of updates before it. *)
UpdateLinear(f, x) ==
  LET c == Append(f.confirmed, <<f.updates, x>>)
      g == [f EXCEPT !.prev = x, !.updates = @ + 1] IN
  CASE f.state = "SUCCESS" /\ x = NextLinear(f) -> [g EXCEPT !.i = @ + 1]
    [] f.state = "UNKNOWN" /\ Len(c) = 1 -> [g EXCEPT !.confirmed = c]
    [] f.state = "UNKNOWN" /\ Len(c) = 2 /\ HasStride(c[1], c[2]) ->
         [g EXCEPT !.state = "SUCCESS", !.confirmed = c, !.i = f.updates,
                   !.base = BaseOf(c[1], c[2]), !.strideI = StrideOf(c[1], c[2])]
    [] OTHER -> Failed(g)

MissLinear(f) ==
  IF f.state = "SUCCESS"
  THEN [f EXCEPT !.updates = @ + 1, !.prev = NextLinear(f), !.i = @ + 1]
  ELSE [f EXCEPT !.updates = @ + 1]

IsAligned(c) ==
  (ValDiff(c[1], c[2]) * IdxDiff(c[1], c[3])) % M
    = (ValDiff(c[1], c[3]) * IdxDiff(c[1], c[2])) % M

EndsRow(f) == f.i + 1 = f.ni

NextQuardric(f) ==
  IF EndsRow(f) THEN (f.base + (f.j + 1) * f.strideJ) % M
  ELSE (f.base + f.j * f.strideJ + (f.i + 1) * f.strideI) % M

StepQuardric(f) ==
  IF EndsRow(f) THEN [f EXCEPT !.i = 0, !.j = @ + 1] ELSE [f EXCEPT !.i = @ + 1]

(* Mutants: the length of a row is one too many; a middle value that is     *)
(* aligned stays among the confirmed ones.                                  *)
StartRows_LongRow(g, c, x) ==
  [g EXCEPT !.state = "SUCCESS", !.confirmed = c, !.i = 0, !.j = 1, !.ni = g.updates,
            !.base = BaseOf(c[1], c[2]), !.strideI = StrideOf(c[1], c[2]),
            !.strideJ = (x - BaseOf(c[1], c[2])) % M]
DropMiddle_KeepsAll(c) == c

(* The value that is not aligned with the first two starts the second row.  *)
StartRows(g, c, x) ==
  [g EXCEPT !.state = "SUCCESS", !.confirmed = c, !.i = 0, !.j = 1, !.ni = g.updates - 1,
            !.base = BaseOf(c[1], c[2]), !.strideI = StrideOf(c[1], c[2]),
            !.strideJ = (x - BaseOf(c[1], c[2])) % M]

DropMiddle(c) == <<c[1], c[3]>>

UpdateQuardric(f, x) ==
  LET c == Append(f.confirmed, <<f.updates, x>>)
      g == [f EXCEPT !.prev = x, !.updates = @ + 1] IN
  CASE f.state = "SUCCESS" /\ x = NextQuardric(f) -> StepQuardric(g)
    [] f.state = "UNKNOWN" /\ Len(c) < 3 -> [g EXCEPT !.confirmed = c]
    [] f.state = "UNKNOWN" /\ Len(c) = 3 /\ IsAligned(c) ->
         [g EXCEPT !.confirmed = DropMiddle(c)]
    [] f.state = "UNKNOWN" /\ Len(c) = 3 /\ ~IsAligned(c) /\ HasStride(c[1], c[2]) ->
         StartRows(g, c, x)
    [] OTHER -> Failed(g)

MissQuardric(f) ==
  IF f.state = "SUCCESS"
  THEN StepQuardric([f EXCEPT !.updates = @ + 1, !.prev = NextQuardric(f)])
  ELSE [f EXCEPT !.updates = @ + 1]

Update(v, f, x) ==
  IF f.state = "FAILURE" THEN f
  ELSE CASE v = "UNKNOWN"  -> Failed([f EXCEPT !.updates = @ + 1, !.prev = x])
         [] v = "CONSTANT" -> UpdateConst(f, x)
         [] v = "LINEAR"   -> UpdateLinear(f, x)
         [] v = "QUARDRIC" -> UpdateQuardric(f, x)
         [] v = "RANDOM"   -> [f EXCEPT !.updates = @ + 1, !.prev = x]

UpdateMissing(v, f) ==
  IF f.state = "FAILURE" \/ v \in {"UNKNOWN", "CONSTANT"} THEN f
  ELSE CASE v = "LINEAR"   -> MissLinear(f)
         [] v = "QUARDRIC" -> MissQuardric(f)
         [] v = "RANDOM"   -> [f EXCEPT !.updates = @ + 1]

-----------------------------------------------------------------------------
(* Access patterns *)

FreshFSMs ==
  [a \in AccessPattern |->
     [state |-> "UNKNOWN", vals |-> [v \in ValuePattern |-> FreshValueFSM(v)]]]

(* The first pattern that has not failed: not to know yet is not to fail.   *)
ValueOf(fsm) ==
  ValueOrder[CHOOSE k \in 1 .. 5 :
    /\ fsm.vals[ValueOrder[k]].state # "FAILURE"
    /\ \A l \in 1 .. k - 1 : fsm.vals[ValueOrder[l]].state = "FAILURE"]

FeedMissing(a, fsm) ==
  IF fsm.state = "FAILURE" THEN fsm
  ELSE CASE a \in {"UNCOND", "COND_UPDATE"} -> [fsm EXCEPT !.state = "FAILURE"]
         [] a = "COND_ACCESS" ->
              [state |-> "SUCCESS",
               vals |-> [v \in ValuePattern |-> UpdateMissing(v, fsm.vals[v])]]
         [] a = "SAME_COND" -> [fsm EXCEPT !.state = "SUCCESS"]

(* COND_UPDATE: a value repeated is no update, unless it is the first.      *)
FeedAccess(a, fsm, x, first) ==
  IF fsm.state = "FAILURE" THEN fsm
  ELSE [state |-> "SUCCESS",
        vals |-> [v \in ValuePattern |->
          IF a = "COND_UPDATE" /\ ~first /\ x = fsm.vals[v].prev
          THEN fsm.vals[v] ELSE Update(v, fsm.vals[v], x)]]

IndexIn(order, x) == CHOOSE k \in DOMAIN order : order[k] = x

IsValuePatternRelaxed(A, B) == IndexIn(ValueOrder, A) <= IndexIn(ValueOrder, B)

IsAccessPatternRelaxed(A, B) ==
  \/ A = B \/ A = "UNCOND"
  \/ A \in {"COND_UPDATE", "COND_ACCESS"} /\ B = "SAME_COND"

(* Of the access patterns that have not failed the first of those with the  *)
(* most constrained values.                                                 *)
Chosen ==
  LET ok(k) == fsms[AccessOrder[k]].state = "SUCCESS"
      rank(k) == IndexIn(ValueOrder, ValueOf(fsms[AccessOrder[k]])) IN
  AccessOrder[CHOOSE k \in 1 .. 4 : ok(k) /\
    \A l \in 1 .. 4 : ok(l) => rank(k) < rank(l) \/ (rank(k) = rank(l) /\ k <= l)]

Computed ==
  LET v == ValueOf(fsms[Chosen])
      f == fsms[Chosen].vals[v] IN
  [acc |-> Chosen, val |-> v, history |-> history,
   base |-> CASE v = "CONSTANT" -> f.prev [] v \in {"LINEAR", "QUARDRIC"} -> f.base [] OTHER -> 0,
   strideI |-> f.strideI, ni |-> f.ni, strideJ |-> f.strideJ]

(* What an instance without entries leaves: its counts are uninitialized.   *)
NotComputed == [acc |-> "UNCOND", val |-> "UNKNOWN", history |-> <<>>,
                base |-> 0, strideI |-> 0, ni |-> 0, strideJ |-> 0]

(* Mutant: a pattern that is more constrained replaces the one before. *)
Merge_Swapped(old, new) ==
  [val |-> IF IsValuePatternRelaxed(new.val, old.val) THEN new.val ELSE old.val,
   acc |-> IF IsAccessPatternRelaxed(old.acc, new.acc) THEN new.acc ELSE old.acc]

Merge(old, new) ==
  [val |-> IF IsValuePatternRelaxed(old.val, new.val) THEN new.val ELSE old.val,
   acc |-> IF IsAccessPatternRelaxed(old.acc, new.acc) THEN new.acc ELSE old.acc]

-----------------------------------------------------------------------------
(* StreamPattern and DynStream *)

Entries == FoldSeq(LAMBDA p, n : n + Len(p.history), Len(history), patterns)

Init ==
  /\ type \in {"MEM", "IV"} /\ candidate \in BOOLEAN
  /\ iters = 1 /\ lastAccessIters = 0
  /\ history = <<>> /\ fsms = FreshFSMs
  /\ aggregated = None /\ patterns = <<>>
  /\ seen = <<>> /\ touched = FALSE /\ late = FALSE

AddPatternAccess(x) ==
  /\ Entries < MaxEntries
  /\ history' = Append(history, <<TRUE, x>>)
  /\ fsms' = [a \in AccessPattern |-> FeedAccess(a, fsms[a], x, history = <<>>)]

AddPatternMissing ==
  /\ Entries < MaxEntries
  /\ history' = Append(history, <<FALSE, 0>>)
  /\ fsms' = [a \in AccessPattern |-> FeedMissing(a, fsms[a])]

(* DynMemStream::addAccess takes every access, DynIndVarStream::addAccess   *)
(* the first use of the phi in an iteration.                                *)
AddAccess(x) ==
  IF type = "IV" /\ lastAccessIters = iters
  THEN UNCHANGED <<dyn, history, fsms>>
  ELSE AddPatternAccess(x) /\ lastAccessIters' = iters /\ UNCHANGED iters

(* The instruction executes in its loop.  In an iteration of a candidate    *)
(* loop it does so once; a phi keeps its value for all its uses.            *)
Execute(x) ==
  /\ candidate /\ touched => type = "IV" /\ (~late => x = Last(seen)[2])
  /\ seen' = IF candidate /\ ~touched /\ ~late THEN Append(seen, <<TRUE, x>>) ELSE seen
  /\ touched' = TRUE
  /\ AddAccess(x)
  /\ UNCHANGED <<type, candidate, aggregated, patterns, late>>

(* A phi is used once more after its loop was left (addIVAccess); once is    *)
(* enough here.                                                             *)
UseLate(x) ==
  /\ type = "IV" /\ candidate /\ ~touched /\ ~late /\ (iters > 1 \/ patterns # <<>>)
  /\ late' = TRUE /\ seen' = <<>>
  /\ AddAccess(x)
  /\ UNCHANGED <<type, candidate, aggregated, patterns, touched>>

(* The header is reached again, or the loop is left (popLoopStack). *)
EndIter ==
  /\ candidate
  /\ IF lastAccessIters # iters THEN AddPatternMissing ELSE UNCHANGED <<history, fsms>>
  /\ iters' = iters + 1
  /\ lastAccessIters' = iters
  /\ seen' = IF touched \/ late THEN seen ELSE Append(seen, <<FALSE, 0>>)
  /\ touched' = FALSE
  /\ UNCHANGED <<type, candidate, aggregated, patterns, late>>

(* Mutant: the last iteration accessed is not reset. *)
EndStream_KeepsLast ==
  /\ candidate => ~touched
  /\ Len(patterns) < MaxStreams
  /\ patterns' = Append(patterns, IF history = <<>> THEN NotComputed ELSE Computed)
  /\ aggregated' =
       LET new == [val |-> Computed.val, acc |-> Computed.acc] IN
       IF history = <<>> THEN aggregated
       ELSE IF aggregated = None THEN new ELSE Merge(aggregated, new)
  /\ history' = <<>> /\ fsms' = FreshFSMs
  /\ iters' = 1 /\ UNCHANGED lastAccessIters
  /\ seen' = <<>> /\ touched' = FALSE
  /\ UNCHANGED <<type, candidate, late>>

(* The configuration loop is left, after the last endIter of a candidate. *)
EndStream ==
  /\ candidate => ~touched
  /\ Len(patterns) < MaxStreams
  /\ patterns' = Append(patterns, IF history = <<>> THEN NotComputed ELSE Computed)
  /\ aggregated' =
       LET new == [val |-> Computed.val, acc |-> Computed.acc] IN
       IF history = <<>> THEN aggregated
       ELSE IF aggregated = None THEN new ELSE Merge(aggregated, new)
  /\ history' = <<>> /\ fsms' = FreshFSMs
  /\ iters' = 1 /\ lastAccessIters' = 0
  /\ seen' = <<>> /\ touched' = FALSE
  /\ UNCHANGED <<type, candidate, late>>

Next ==
  \/ \E x \in Vals : Execute(x) \/ UseLate(x)
  \/ EndIter \/ EndStream

Spec == Init /\ [][Next]_vars

-----------------------------------------------------------------------------
(* FunctionalStreamPattern *)

(* The indices after n calls of step(). *)
Indices(p, n) ==
  LET step(ij) ==
        IF p.val = "LINEAR" THEN <<ij[1] + 1, 0>>
        ELSE IF p.val # "QUARDRIC" THEN ij
        ELSE IF ij[1] + 1 = p.ni THEN <<0, ij[2] + 1>> ELSE <<ij[1] + 1, ij[2]>>
      at[k \in 0 .. n] == IF k = 0 THEN <<0, 0>> ELSE step(at[k - 1]) IN
  at[n]

(* What getValue() then returns, and whether it says the value is valid. *)
IsReplayable(p) == p.val \in {"CONSTANT", "LINEAR", "QUARDRIC"}
Replay(p, n) ==
  LET ij == Indices(p, n) IN (p.base + p.strideI * ij[1] + p.strideJ * ij[2]) % M

-----------------------------------------------------------------------------
TypeOK ==
  /\ type \in {"MEM", "IV"} /\ {candidate, touched, late} \subseteq BOOLEAN
  /\ iters \in Nat \ {0} /\ lastAccessIters \in 0 .. iters
  /\ {history, seen} \subseteq Seq(BOOLEAN \X (Vals \cup {0}))
  /\ \A a \in AccessPattern :
       /\ fsms[a].state \in {"UNKNOWN", "SUCCESS", "FAILURE"}
       /\ \A v \in ValuePattern : LET f == fsms[a].vals[v] IN
            /\ f.state \in {"UNKNOWN", "SUCCESS", "FAILURE"}
            /\ f.updates \in 0 .. Len(history)
            /\ {f.prev, f.base, f.strideI, f.strideJ} \subseteq 0 .. M - 1
            /\ {f.i, f.j, f.ni} \subseteq 0 .. Len(history)
            /\ f.state = "UNKNOWN" => Len(f.confirmed) <= 2
  /\ aggregated = None \/ aggregated \in [val : ValuePattern, acc : AccessPattern]
  /\ \A i \in DOMAIN patterns : patterns[i].val \in ValuePattern

(* The pattern of the instance so far, as the end of the loop would find it. *)
Patterns == {patterns[i] : i \in DOMAIN patterns}
              \cup {IF history = <<>> THEN NotComputed ELSE Computed}

(* Does an access pattern make a step at entry k of h: at every iteration,  *)
(* every change of the value, or every access (StreamPattern.h:30-42)?  And *)
(* the steps it makes before.                                               *)
Steps(h, a, k) ==
  CASE a = "SAME_COND" -> h[k][1]
    [] a = "COND_UPDATE" -> k = 1 \/ h[k][2] # h[k - 1][2]
    [] OTHER -> TRUE
StepsBefore(h, a, k) == Cardinality({j \in 1 .. k - 1 : Steps(h, a, j)})

(* The entries with a value. *)
Valued(h, a) == {k \in DOMAIN h : h[k][1] /\ Steps(h, a, k)}

ReplaysHistory(p) ==
  LET h == p.history IN
  \A k \in Valued(h, p.acc) : Replay(p, StepsBefore(h, p.acc, k)) = h[k][2]

(* Have the parameters been found, in a first row that does not fall, nor   *)
(* rise so far that its products wrap around?                               *)
RowsKnown(p) ==
  LET h == p.history
      row == {k \in Valued(h, p.acc) : StepsBefore(h, p.acc, k) < p.ni} IN
  /\ p.ni # 0
  /\ \A k, l \in row : k < l => h[k][2] <= h[l][2] /\ (h[l][2] - h[k][2]) * p.ni < M

(* What is computed replays every value of the instance it was computed     *)
(* from, in the wraparound arithmetic of the code; in the case of rows, if  *)
(* there are at least two and the first neither falls nor wraps around.     *)
ReplayExact ==
  \A p \in Patterns :
    IsReplayable(p) /\ (p.val = "QUARDRIC" => RowsKnown(p)) => ReplaysHistory(p)

(* A candidate loop gives one entry per iteration, its first value, unless  *)
(* a value has been used after the loop (DynStream.h:104-111, 248-260;      *)
(* DynIndVarStream.h:67-73).                                                *)
OncePerIteration == candidate /\ ~late => history = seen

(* Do the values of h lie on a line, perhaps wrapping around, or in rows of *)
(* ni values whose products do not?                                         *)
OnLine(h, stride) ==
  \A k, l \in DOMAIN h : h[k][1] /\ h[l][1] => h[l][2] - h[k][2] = stride * (l - k)
WrapsOnLine(h, stride) ==
  \A k, l \in DOMAIN h : h[k][1] /\ h[l][1] => (h[l][2] - h[k][2]) % M = (stride * (l - k)) % M
InRows(h, strideI, ni, strideJ) ==
  \A k \in DOMAIN h :
    /\ h[k][2] = h[1][2] + strideI * ((k - 1) % ni) + strideJ * ((k - 1) \div ni)
    /\ (h[k][2] - h[1][2]) * Len(h) < M

Gapless(h) == \A k \in DOMAIN h : h[k][1]

(* Nothing simpler is overlooked (StreamPattern.h:19-27): values that are    *)
(* all equal give CONSTANT; values on a line give at most LINEAR, if they   *)
(* do not wrap around or there is no gap; rows of a rising nest give at     *)
(* most QUARDRIC.                                                           *)
MostConstrained ==
  \A p \in Patterns : LET h == p.history IN
    /\ (\E k \in DOMAIN h : h[k][1]) /\ OnLine(h, 0) => p.val = "CONSTANT"
    /\ (\E stride \in 0 .. M - 1 : OnLine(h, stride) \/ (Gapless(h) /\ WrapsOnLine(h, stride)))
       => p.val \in {"UNKNOWN", "CONSTANT", "LINEAR"}
    /\ Gapless(h) /\ (\E strideI, strideJ \in Vals, ni \in 2 .. MaxEntries :
          InRows(h, strideI, ni, strideJ))
       => p.val # "RANDOM"

(* "It can only be further relaxed in the hierarchy" (StreamPattern.h:50):  *)
(* the aggregated value pattern is that of no instance made stricter.       *)
AggregateCovers ==
  \A i \in DOMAIN patterns : patterns[i].history # <<>> =>
    aggregated # None /\ IsValuePatternRelaxed(patterns[i].val, aggregated.val)

(* The pattern of an instance is the most constrained one of its values,    *)
(* and that of the stream covers the patterns of all its instances.         *)
PatternsTight == MostConstrained /\ AggregateCovers

=============================================================================
