--------------------------- MODULE StreamDataGraph ---------------------------
(***************************************************************************)
(* The slices of the program that are handed to the simulator as           *)
(* functions: how an address, a reduction, a stored value or a branch's    *)
(* condition is computed from the values that are its inputs.  A graph is  *)
(*   [inputs, calc, result, tail, fused]                                   *)
(* with the tail atomic instruction (0: none) and the operations fused     *)
(* with a load.                                                            *)
(***************************************************************************)
EXTENDS StaticStream

\* Breadth first from the result; the search ends at the values of inner in
\* the loop, and everything outside the loop and not constant is an input.
Slice(r, l, result, inner) ==
  LET ends(v) == ~InLoop(r, l, v) \/ v \in inner
      all == Closure({result}, LAMBDA v : IF ends(v) THEN {} ELSE Args(r, v), Len(r.inst))
  IN [NoGraph EXCEPT !.inputs = {v \in all : ends(v) /\ ~IsConst(v)},
                     !.calc = {v \in all : ~ends(v)}, !.result = result]

MemInputs(r) == {v \in DOMAIN r.inst : IsLoad(r, v) \/ IsAtomic(r, v)}
StreamGraph(r, l, result, inner) == Slice(r, l, result, inner \cup MemInputs(r))
HasPhi(r, g) == \E v \in g.calc : IsPhi(r, v)
HasCall(r, g) == \E v \in g.calc : Op(r, v) = "call"

\* detectCircle: an instruction that computes its own operand.
HasCircle(r, g) ==
  LET used(v) == Args(r, v) \cap g.calc
  IN \E v \in g.calc : v \in Closure(used(v), used, Cardinality(g.calc))

ExtendTail(g, i, fused) == [g EXCEPT !.tail = i, !.fused = fused]
\* extendTailAtomicInst asserts that the atomic instruction uses the result,
\* and that a compared value is a constant.
TailFits(r, g, i) ==
  IF Op(r, i) = "rmw" THEN r.inst[i].args[2] = g.result
  ELSE r.inst[i].args[3] = g.result /\ ~IsInst(r, r.inst[i].args[2])
ReturnSize(r, g, isLoad) ==
  IF isLoad /\ g.fused # <<>> THEN r.inst[Last(g.fused)].ty
  ELSE IF isLoad /\ g.tail # 0 THEN r.inst[g.tail].ty
  ELSE IF IsInst(r, g.result) THEN r.inst[g.result].ty ELSE 8

\* Mutant: an input that nothing computes with is dropped, the result too.
SliceWithFusedOp_Unused(A, g, streams) ==
  LET calc == g.calc \ UNION {Range(A.S[s].fused) : s \in streams}
  IN [g EXCEPT !.calc = calc, !.inputs = {v \in @ : \E c \in calc : v \in Args(A.r, c)}]
\* sliceWithFusedOp: what other streams compute with their load is taken out
\* and its last result becomes the input.
SliceWithFusedOp(A, g, streams) ==
  LET taken == UNION {Range(A.S[s].fused) : s \in streams}
      calc  == g.calc \ taken
      final(v) == LET of == {s \in streams : A.S[s].inst = v}
                  IN IF of = {} THEN v ELSE CoreInst(A.S[CHOOSE s \in of : TRUE])
      used(v) == v = g.result \/ \E c \in calc : v \in Args(A.r, c)
  IN [g EXCEPT !.calc = calc, !.inputs = {w \in {final(v) : v \in @} : used(w)}]

\* generateFunction and translate: the arguments and every instruction
\* already translated are in a map, and each operand must be found there.
GenerateFunction(r, g, isLoad) ==
  LET tail  == IF g.tail = 0 THEN {} ELSE {g.tail}
      known == g.inputs \cup g.calc
      has(v, set) == v \in set \/ IsConst(v)
      fusedKnown(k) == known \cup tail \cup {g.fused[j] : j \in 1 .. k - 1}
  IN /\ \A c \in g.calc : \A v \in Args(r, c) : has(v, known)
     /\ has(g.result, known)
     /\ isLoad => \A k \in DOMAIN g.fused :
                    \A v \in Args(r, g.fused[k]) : has(v, fusedKnown(k))

(***************************************************************************)
(* BBBranchDataGraph: the condition at the end of a block.                 *)
(***************************************************************************)
BranchOf(r, b) == {i \in DOMAIN r.inst : r.inst[i].bb = b /\ Op(r, i) = "br"}
Conditional(r, b) == Len(r.bb[b].succ) = 2
Condition(r, b) == r.inst[CHOOSE i \in BranchOf(r, b) : TRUE].args[1]
InLoopInputs(r, l, g) == {v \in g.inputs : InLoop(r, l, v)}
BranchGraph(r, l, b, inner) ==
  LET g == Slice(r, l, Condition(r, b), inner)
  IN [g |-> g, loop |-> l, bb |-> b, true |-> r.bb[b].succ[1], false |-> r.bb[b].succ[2],
      valid |-> \A v \in InLoopInputs(r, l, g) :
                  IsPhi(r, v) => r.inst[v].bb = r.header[l]]
BranchValid(r, l, b, inner) ==
  Conditional(r, b) /\ BranchGraph(r, l, b, inner).valid

IsPredicate(r, p, target) ==
  /\ target # p.bb
  /\ ~PostDominates(r, target, p.bb)
  /\ Pred(r, target) = {p.bb}
IsValidPredicate(r, p) ==
  /\ \A v \in InLoopInputs(r, p.loop, p.g) :
       r.inst[v].bb = p.bb \/ PostDominates(r, p.bb, r.inst[v].bb)
  /\ IsPredicate(r, p, p.true) \/ IsPredicate(r, p, p.false)
\* The header of a sub loop reached from the branch, possibly along blocks
\* with one way in and out; 0 when there is none or others lead to it.
RECURSIVE HeadReached(_, _, _, _)
HeadReached(r, p, from, b) ==
  LET heads == {l \in SubLoops(r, p.loop) : r.header[l] = b} IN
    IF heads # {}
    THEN IF \A c \in Pred(r, b) : c = from \/ LoopContains(r, CHOOSE l \in heads : TRUE, r.bb[c].loop)
         THEN b ELSE 0
    ELSE IF Len(r.bb[b].succ) = 1 /\ Pred(r, b) = {from}
    THEN HeadReached(r, p, b, r.bb[b].succ[1]) ELSE 0
LoopHeadPredicate(r, p, target) ==
  IF target = p.bb THEN 0 ELSE HeadReached(r, p, p.bb, target)
IsValidLoopBoundPredicate(r, p) ==
  LET inside == {b \in DOMAIN r.bb : LoopContains(r, p.loop, r.bb[b].loop)} IN
    /\ {b \in inside : Succ(r, b) \ inside # {}} = {p.bb}
    /\ {b \in inside : r.header[p.loop] \in Succ(r, b)} = {p.bb}
===============================================================================
