--------------------------- MODULE StaticMemStream ---------------------------
(***************************************************************************)
(* Memory streams: loads, stores and atomics whose address one stream      *)
(* steps, directly by an affine or conditionally stepped address or        *)
(* through the value of another load.                                      *)
(***************************************************************************)
EXTENDS StaticIndVarStream

AddrGraph(A, s) ==
  StreamGraph(A.r, s.cfg, AddrOf(A.r, s.inst),
              {v \in DOMAIN A.r.inst : IsPhi(A.r, v) /\ \E l \in Loops(A.r) :
                 LoopContains(A.r, s.cfg, l) /\ A.r.header[l] = A.r.inst[v].bb})

\* base + element size * phi, the phi being the step root's.
ValidateAddScev(A, s) ==
  LET sum == Scev(A.r)[AddrOf(A.r, s.inst)] IN
    /\ Cardinality(s.root) = 1
    /\ sum.iv = {}
    /\ \E b \in s.root : sum.unk = {A.S[b].inst}
    /\ Cardinality(sum.inv) + (IF sum.off = 0 THEN 0 ELSE 1) = 1

\* One recurrence per loop is peeled; all the loops but the outermost have a
\* trip count known at configuration, and the start that is left is invariant
\* in the configured loop.
ValidateAddRecScev(A, s) ==
  LET sum   == Scev(A.r)[AddrOf(A.r, s.inst)]
      loops == LoopsUpTo(A.r, s.inner, s.cfg)
      start == {p \in sum.iv : LoopOf(A.r, p) \notin loops} \cup sum.unk
  IN /\ \A l \in loops \ {s.cfg} : TripCountInvariant(A.r, l, s.cfg)
     /\ \A v \in start : ~InLoop(A.r, s.cfg, v)

IsDirect(A, s) ==
  /\ LoadInputs(s) = {}
  /\ Cardinality(IVInputs(s)) = 1 => \A b \in IVInputs(s) : A.S[b].back = {}

IsUpdateStore(A, s) ==
  s.update # NoStream /\ (~s.hasValue \/ Enabled(A.r, "upgrade"))

MemIsCandidate(A, id) ==
  LET s == A.S[id]
      v == AddrOf(A.r, s.inst)
  IN /\ UserAllows(A, s)
     /\ s.inner \in A.r.epilogue => Enabled(A.r, "epilogue")
     /\ AtMostOneInnerBase(A, s)
     /\ s.meta.phi = <<>>
     /\ Cardinality(s.root) = 1
     /\ IsStore(A.r, s.inst) => Enabled(A.r, "store") /\ ~IsUpdateStore(A, s)
     /\ IsDirect(A, s) => \/ IsAddRec(A.r, v) /\ ValidateAddRecScev(A, s)
                          \/ IsAddExpr(A.r, v) /\ ValidateAddScev(A, s)
\* An atomic stream without a function for its value has no use in the core.
MemNoCoreUser(A, s) == s.noCoreUser \/ (IsAtomic(A.r, s.inst) /\ ~s.hasValue /\ UserAllows(A, s))

MemStepPattern(A, s) ==
  IF s.root = {} THEN "NEVER" ELSE A.S[CHOOSE b \in s.root : TRUE].stp
MemQualifiedWithoutBackEdge(A, id) ==
  LET s == A.S[id] IN
    /\ s.candidate
    /\ \A b \in s.base : A.S[b].qualified
    /\ StaticMapToParents(A, s, MemStepPattern(A, s))

\* A load among the base streams makes the pattern indirect.
MemFinalizePattern(A, id) ==
  LET s == A.S[id] IN
    [s EXCEPT !.stp = MemStepPattern(A, s),
              !.val = IF s.base = {} THEN "CONSTANT"
                      ELSE IF \E b \in s.base : ~A.S[b].isIV THEN "INDIRECT"
                      ELSE A.S[CHOOSE b \in s.base : TRUE].val]

\* constructChosenGraph asserts one step root, configured at the same loop.
MemChosenGraphComplete(A, s) ==
  /\ ChosenGraphComplete(A, s)
  /\ Cardinality(s.root) = 1
  /\ \A b \in s.root : A.S[b].cfg = s.cfg

\* The two kinds of streams.
IsCandidate(A, id) == IF A.S[id].isIV THEN IVIsCandidate(A, id) ELSE MemIsCandidate(A, id)
QualifiedWithoutBackEdge(A, id) ==
  IF A.S[id].isIV THEN IVQualifiedWithoutBackEdge(A, id) ELSE MemQualifiedWithoutBackEdge(A, id)
QualifiedWithBackEdge(A, id) ==
  IF A.S[id].isIV THEN IVQualifiedWithBackEdge(A, id) ELSE MemQualifiedWithoutBackEdge(A, id)
FinalizePattern(A, id) ==
  IF A.S[id].isIV THEN IVFinalizePattern(A, id) ELSE MemFinalizePattern(A, id)
===============================================================================
