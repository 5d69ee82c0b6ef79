-------------------------- MODULE StaticIndVarStream --------------------------
(***************************************************************************)
(* Induction variable streams: which recurrences a header phi computes     *)
(* (linear, conditionally stepped, reduction, pointer chase), and what     *)
(* makes such a stream a candidate and qualified.                          *)
(***************************************************************************)
EXTENDS StreamDataGraph

LoadInputs(s) == Inputs(s.meta, "load")
IVInputs(s) == Inputs(s.meta, "iv")

(***************************************************************************)
(* Compute paths: the ways from the phi back to a value that depends on no *)
(* other phi.                                                              *)
(***************************************************************************)
MultiplePhis(s) == \E v \in DOMAIN s.meta.node : Cardinality(s.meta.node[v].phi) > 1
RECURSIVE PathsThrough(_, _)
PathsThrough(m, path) ==
  LET last == Last(path)
      next == UNION {m.phi[p] : p \in m.node[last].phi} \ Range(path)
  IN IF m.node[last].phi = {} THEN {path}
     ELSE UNION {PathsThrough(m, Append(path, v)) : v \in next}
ComputePaths(A, s) ==
  UNION {PathsThrough(s.meta, <<v>>) : v \in {w \in s.meta.phi[s.inst] : InLoop(A.r, s.inner, w)}}
PathIsEmpty(A, s, path) == \A v \in Range(path) : NodeIsEmpty(A, s.meta, v)
PathsIdentical(A, s, p, q) ==
  /\ Len(p) = Len(q)
  /\ \A k \in DOMAIN p : NodesIdentical(A, s.meta, p[k], q[k])

\* Every path that computes something computes the same; a path that does
\* not makes the step conditional.
AnalyzePaths(A, s) ==
  LET paths == ComputePaths(A, s)
      full  == {p \in paths : ~PathIsEmpty(A, s, p)}
      same  == \A p, q \in full : PathsIdentical(A, s, p, q)
  IN IF ~s.isIV \/ MultiplePhis(s) THEN s
     ELSE [s EXCEPT !.paths = paths,
                    !.path = IF full = {} \/ ~same THEN <<>> ELSE CHOOSE p \in full : TRUE,
                    !.stp = IF full = paths THEN "UNCONDITIONAL" ELSE "CONDITIONAL"]

FirstNonEmpty(A, s) ==
  s.path[CHOOSE k \in DOMAIN s.path :
           /\ ~NodeIsEmpty(A, s.meta, s.path[k])
           /\ \A j \in 1 .. k - 1 : NodeIsEmpty(A, s.meta, s.path[j])]

(***************************************************************************)
(* Value patterns.                                                         *)
(***************************************************************************)
\* phi + zext(condition): a step of one when the condition holds.
TernCheck(r, s, v) ==
  /\ Op(r, v) = "add"
  /\ r.inst[v].args[2] = s.inst
  /\ IsInst(r, r.inst[v].args[1]) /\ Op(r, r.inst[v].args[1]) = "zext"
\* The phi plus values that do not change in its loop.
AddsInvariant(r, s, v) ==
  LET sum == Scev(r)[v] IN
    {x \in sum.iv \cup sum.unk : InLoop(r, s.inner, x)} = {s.inst}

IsReduction(A, id, v) ==
  LET s     == A.S[id]
      loads == LoadInputs(s)
      ivs   == IVInputs(s) \ {id}
  IN /\ Enabled(A.r, "reduce")
     /\ Cardinality(s.paths) = 1
     /\ id \in IVInputs(s)
     /\ Cardinality(ivs) + (IF loads = {} THEN 0 ELSE 1) <= 1
     /\ IsInst(A.r, v)
     /\ \A a, b \in loads : A.S[a].root = A.S[b].root
     /\ \A a \in loads : A.r.inst[A.S[a].inst].bb = A.r.inst[v].bb

IsPointerChase(A, id, v) ==
  LET s     == A.S[id]
      loads == LoadInputs(s)
  IN /\ Cardinality(s.paths) = 1
     /\ loads # {}
     /\ \A a, b \in loads : A.S[a].aliasBase = A.S[b].aliasBase
     /\ \A a \in loads : A.S[a].aliasOff <= 64 /\ A.S[a].root = {id}
     /\ IVInputs(s) = {}
     /\ s.cfg = s.inner
     /\ IsInst(A.r, v)

StreamInsts(A) == MemInputs(A.r) \cup {v \in DOMAIN A.r.inst : IsPhi(A.r, v)} \cup DOMAIN A.F
BuildReduceGraph(A, s, v) == StreamGraph(A.r, s.cfg, v, StreamInsts(A))
\* Nobody else in the loop uses what the reduction computes on the way.
ReduceGraphComplete(r, s, g) ==
  LET own == {s.inst} \cup g.calc IN
    \/ Enabled(r, "incomplete-reduction")
    \/ \A v \in own : \A u \in Users(r, v) \ own : ~InLoop(r, s.inner, u)

AnalyzeValuePattern(A, id) ==
  LET s == A.S[id]
      r == A.r
      v == FirstNonEmpty(A, s)
      g == BuildReduceGraph(A, s, v)
      tripsInvariant == \A l \in LoopsUpTo(r, s.inner, s.cfg) \ {s.cfg} :
                          TripCountInvariant(r, l, s.cfg)
      reduces == [s EXCEPT !.reduce = v, !.reduceDG = g]
  IN CASE ~s.isIV \/ s.path = <<>> -> s
       [] s.isIV /\ s.path # <<>> /\ IsAddRec(r, v) ->
            [s EXCEPT !.val = IF tripsInvariant THEN "LINEAR" ELSE "RANDOM"]
       [] OTHER ->
            CASE IsAddExpr(r, v) /\ TernCheck(r, s, v) ->
                   [s EXCEPT !.val = "LINEAR", !.stp = "CONDITIONAL",
                             !.ternary = TRUE, !.back = {}]
              [] IsAddExpr(r, v) /\ ~TernCheck(r, s, v) /\ AddsInvariant(r, s, v) ->
                   [s EXCEPT !.val = "LINEAR"]
              [] OTHER ->
                   IF IsReduction(A, id, v)
                   THEN [reduces EXCEPT !.val =
                           IF ReduceGraphComplete(r, s, g) THEN "REDUCTION" ELSE "RANDOM"]
                   ELSE IF IsPointerChase(A, id, v)
                   THEN [reduces EXCEPT !.val = "POINTER_CHASE"]
                   ELSE s

(***************************************************************************)
(* Candidates and qualification.                                           *)
(***************************************************************************)
\* The user may ask for the loop level or rule the stream out.
UserAllows(A, s) ==
  LET level == Depth(A.r, s.inner) - Depth(A.r, s.cfg) + 1
      nest  == {k \in 1 .. 3 : UserParam(A.r, s.inst, "nest=" \o ToString(k))}
  IN nest \subseteq {level} /\ ~UserParam(A.r, s.inst, "no-stream")

IVIsCandidate(A, id) ==
  LET s == A.S[id] IN
    /\ UserAllows(A, s)
    /\ AtMostOneInnerBase(A, s)
    /\ Inputs(s.meta, "call") = {}
    /\ s.val # "RANDOM"
    /\ s.stp = "CONDITIONAL" => Enabled(A.r, "cond-step")
    /\ s.inner \in A.r.epilogue => Enabled(A.r, "epilogue")
    /\ Dependents(A, id) # {} \/ s.val = "REDUCTION"

IVQualifiedWithoutBackEdge(A, id) ==
  LET s == A.S[id] IN
    /\ s.candidate
    /\ \A b \in s.base : A.S[b].qualified
    /\ StaticMapToParents(A, s, s.stp)
    /\ s.val = "REDUCTION" => HasInvariantTripCountBetween(A.r, s.cfg, s.inner, s.cfg)
IVQualifiedWithBackEdge(A, id) ==
  (\A b \in A.S[id].back : A.S[b].qualified) /\ IVQualifiedWithoutBackEdge(A, id)

\* The instructions that a stepped stream makes superfluous.
SearchStepInsts(A, s) ==
  LET r == A.r
      from == {in[2] : in \in {k \in Incoming(r, s.inst) : LoopContains(r, s.cfg, r.bb[k[1]].loop)}}
      ends(v) == \/ ~InLoop(r, s.cfg, v)
                 \/ Op(r, v) \in {"call", "load", "add", "gep", "select"}
      reach == Closure(from, LAMBDA v : IF ends(v) THEN {} ELSE Args(r, v), Len(r.inst))
  IN IF s.val = "REDUCTION" THEN {Head(s.path)}
     ELSE {v \in reach : InLoop(r, s.cfg, v) /\ ends(v) /\ Op(r, v) # "call"}

IVFinalizePattern(A, id) ==
  LET s == A.S[id]
      b == CHOOSE x \in s.back : TRUE
      t == [s EXCEPT !.val = IF s.back = {} THEN @
                             ELSE IF id \in A.S[b].root THEN "POINTER_CHASE"
                             ELSE IF @ \in {"REDUCTION", "LINEAR"} THEN @ ELSE "PREV_LOAD"]
  IN [t EXCEPT !.steps = SearchStepInsts(A, t)]

\* getSingleInitValue: one value comes from outside the inner-most loop, and
\* it is not computed in the configured one.
InitValues(A, s) ==
  {in[2] : in \in {k \in Incoming(A.r, s.inst) : ~LoopContains(A.r, s.inner, A.r.bb[k[1]].loop)}}
SingleInitValue(A, s) ==
  Cardinality(InitValues(A, s)) = 1 /\ \A v \in InitValues(A, s) : ~InLoop(A.r, s.cfg, v)
===============================================================================
