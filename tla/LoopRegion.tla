------------------------------ MODULE LoopRegion ------------------------------
(***************************************************************************)
(* The nest of loops that the stream passes analyze, as data: its loops,   *)
(* basic blocks and instructions, and what LLVM's analyses (loop info,     *)
(* post dominators, scalar evolution) say of them.                         *)
(*                                                                         *)
(* A region r is a record                                                  *)
(*   parent[l]  the loop around loop l, 0 for none; loop 1 is TopLoop      *)
(*   header[l]  its header block                                           *)
(*   trip[l]    the loops in which the trip count of l is invariant, {}    *)
(*              when it cannot be computed                                 *)
(*   bb[b]      [loop, succ]: innermost loop (0: none), successors in      *)
(*              order (the one for true first)                             *)
(*   inst[i]    [op, bb, args, from, ty, user]: opcode, block, operands,   *)
(*              incoming blocks of a phi, size of the type in bytes and    *)
(*              the user's parameters on the stream                        *)
(*   epilogue   the loops that are a remainder or epilogue of another      *)
(*   opt        the options of the pass that are on                        *)
(* A value is an instruction (a positive number in DOMAIN inst), an        *)
(* argument (a negative number) or a constant (1000 + c).                  *)
(***************************************************************************)
EXTENDS Integers, SequencesExt, TLC

IsConst(v) == v >= 1000
ConstOf(v) == v - 1000
IsInst(r, v) == v \in DOMAIN r.inst
Op(r, i) == r.inst[i].op
Args(r, i) == Range(r.inst[i].args)
Users(r, v) == {i \in DOMAIN r.inst : v \in Args(r, i)}

Loops(r) == DOMAIN r.parent
Enclosing(r) ==
  LET out[l \in {0} \cup Loops(r)] == IF l = 0 THEN {} ELSE {l} \cup out[r.parent[l]]
  IN out
\* Loop a contains loop b.
LoopContains(r, a, b) == a \in Enclosing(r)[b]
LoopOf(r, i) == r.bb[r.inst[i].bb].loop
InLoop(r, l, v) == IsInst(r, v) /\ LoopContains(r, l, LoopOf(r, v))
Depth(r, l) == Cardinality(Enclosing(r)[l])
SubLoops(r, l) == {k \in Loops(r) : r.parent[k] = l}
\* The loops from l outwards up to and including top.
LoopsUpTo(r, l, top) == {k \in Enclosing(r)[l] : LoopContains(r, top, k)}

Succ(r, b) == Range(r.bb[b].succ)
Pred(r, b) == {c \in DOMAIN r.bb : b \in Succ(r, c)}
\* The function f as a table: TLC computes every value once.
Table(f) == f @@ <<>>
\* The set in a strict order: the k-th element has k - 1 before it.
SortedBy(set, Less(_, _)) ==
  [k \in 1 .. Cardinality(set) |->
     CHOOSE x \in set : Cardinality({y \in set : Less(y, x)}) = k - 1]
Ascending(set) == SortedBy(set, LAMBDA a, b : a < b)
\* What Next reaches in at most n steps.
Closure(from, Next(_), n) ==
  LET reach[k \in 0 .. n] ==
        IF k = 0 THEN from
        ELSE LET before == reach[k - 1] IN before \cup UNION {Next(v) : v \in before}
  IN reach[n]
\* LLVM's post dominators: without block a no path from b leaves the region.
Escapes(r, a, b) ==
  \E c \in Closure({b} \ {a}, LAMBDA x : Succ(r, x) \ {a}, Len(r.bb)) : r.bb[c].succ = <<>>
PostDominates(r, a, b) == ~Escapes(r, a, b)

IsLoad(r, i) == Op(r, i) = "load"
IsStore(r, i) == Op(r, i) = "store"
IsAtomic(r, i) == Op(r, i) \in {"rmw", "cmpxchg"}
IsMem(r, i) == IsLoad(r, i) \/ IsStore(r, i) \/ IsAtomic(r, i)
IsPhi(r, i) == Op(r, i) = "phi"
Enabled(r, option) == option \in r.opt
\* getMemAddrValue: a store has its address second.
AddrOf(r, i) == r.inst[i].args[IF IsStore(r, i) THEN 2 ELSE 1]
StoredValue(r, i) ==
  r.inst[i].args[CASE IsStore(r, i) -> 1 [] Op(r, i) = "rmw" -> 2 [] Op(r, i) = "cmpxchg" -> 3]
Incoming(r, p) == {<<r.inst[p].from[k], r.inst[p].args[k]>> : k \in DOMAIN r.inst[p].args}

(***************************************************************************)
(* LLVM's scalar evolution as far as the passes look at it: a value as a   *)
(* sum of affine induction variables, invariants and unknown values, with  *)
(* a constant offset.                                                      *)
(***************************************************************************)
IsAffinePhi(r, p) ==
  /\ IsPhi(r, p)
  /\ r.inst[p].bb \in Range(r.header)
  /\ \A in \in Incoming(r, p) :
       InLoop(r, LoopOf(r, p), in[2]) =>
         /\ Op(r, in[2]) = "add"
         /\ r.inst[in[2]].args[1] = p
         /\ ~IsInst(r, r.inst[in[2]].args[2])
SumOf(a, b) == [iv |-> a.iv \cup b.iv, inv |-> a.inv \cup b.inv,
                unk |-> a.unk \cup b.unk, off |-> a.off + b.off]
Scev(r) ==
  LET sum[v \in Int] ==
        IF IsConst(v) THEN [iv |-> {}, inv |-> {}, unk |-> {}, off |-> ConstOf(v)]
        ELSE IF ~IsInst(r, v) THEN [iv |-> {}, inv |-> {v}, unk |-> {}, off |-> 0]
        ELSE IF Op(r, v) = "add" THEN SumOf(sum[r.inst[v].args[1]], sum[r.inst[v].args[2]])
        ELSE IF IsAffinePhi(r, v) THEN [iv |-> {v}, inv |-> {}, unk |-> {}, off |-> 0]
        ELSE [iv |-> {}, inv |-> {}, unk |-> {v}, off |-> 0]
  IN sum
IsAddRec(r, v) == LET s == Scev(r)[v] IN s.iv # {} /\ s.unk = {}
IsAddExpr(r, v) ==
  LET s == Scev(r)[v] IN
    /\ s.unk # {}
    /\ Cardinality(s.iv) + Cardinality(s.inv) + Cardinality(s.unk)
         + (IF s.off = 0 THEN 0 ELSE 1) > 1

(***************************************************************************)
(* LoopUtils.                                                              *)
(***************************************************************************)
TripCountInvariant(r, l, at) == at \in r.trip[l]
\* The trip counts of the loops from inner up to, not including, outer are
\* computable and invariant where the stream is configured.
HasInvariantTripCountBetween(r, config, inner, outer) ==
  \A l \in LoopsUpTo(r, inner, outer) \ {outer} : TripCountInvariant(r, l, config)

\* The number of paths through a loop that meet no block twice.
RECURSIVE PathsFrom(_, _, _, _)
PathsFrom(r, l, onPath, b) ==
  IF ~LoopContains(r, l, r.bb[b].loop) THEN 1
  ELSE MapThenSumSet(LAMBDA c : PathsFrom(r, l, onPath \cup {b}, c),
                     Succ(r, b) \ (onPath \cup {b}))
CountPossiblePath(r, l) == PathsFrom(r, l, {}, r.header[l])
===============================================================================
