----------------------------- MODULE StaticStream -----------------------------
(***************************************************************************)
(* A stream of the static analysis: an instruction of the region seen from *)
(* one of the loops around it (ConfigureLoop).  An analysis A is a record  *)
(*   r  the region                                                         *)
(*   S  the streams, a sequence indexed by StreamId                        *)
(*   F  FinalInstStaticStreamMap: the streams whose final value an         *)
(*      instruction computes                                               *)
(*   C  InstChosenStreamMap: the stream chosen for an instruction          *)
(* The sets of dependent streams are the inverses of the sets of base      *)
(* streams and are not stored.                                             *)
(***************************************************************************)
EXTENDS LoopRegion

NoStream == 0
NoGraph == [inputs |-> {}, calc |-> {}, result |-> 0, tail |-> 0, fused |-> <<>>]

MetaNode == [calc |-> <<>>, load |-> {}, iv |-> {}, call |-> {}, inv |-> {}, phi |-> {}]
EmptyMeta == [phi |-> <<>>, node |-> <<>>]

\* What generateStreamNameFromMetaInfo reads from the user's parameters.
UserParam(r, i, p) == p \in r.inst[i].user
NewStream(r, i, cfg) ==
  [inst |-> i, cfg |-> cfg, inner |-> LoopOf(r, i), isIV |-> IsPhi(r, i),
   meta |-> EmptyMeta, base |-> {}, back |-> {}, root |-> {},
   cond |-> FALSE, tripFixed |-> FALSE,
   paths |-> {}, path |-> <<>>, val |-> "RANDOM", stp |-> "UNCONDITIONAL",
   reduce |-> 0, reduceDG |-> NoGraph, ternary |-> FALSE, steps |-> {},
   aliasBase |-> NoStream, aliasOff |-> 0, aliased |-> <<>>,
   fused |-> <<>>, predTrue |-> {}, predFalse |-> {}, bbPreds |-> <<>>,
   lsBase |-> {}, value |-> NoGraph, hasValue |-> FALSE,
   update |-> NoStream, noCoreUser |-> IsStore(r, i),
   candidate |-> FALSE, qualified |-> FALSE, chosen |-> FALSE,
   regionId |-> 0, group |-> 0, groupOff |-> 0]

Streams(A) == DOMAIN A.S
StreamsOf(A, i) == {s \in Streams(A) : A.S[s].inst = i}
StreamByInst(A, i, cfg) ==
  LET found == {s \in StreamsOf(A, i) : A.S[s].cfg = cfg}
  IN IF found = {} THEN NoStream ELSE CHOOSE s \in found : TRUE
FinalStreams(A, i) == IF i \in DOMAIN A.F THEN A.F[i] ELSE <<>>
StreamWithPlaceholder(A, i, cfg) ==
  LET own   == StreamByInst(A, i, cfg)
      final == SelectSeq(FinalStreams(A, i), LAMBDA s : A.S[s].cfg = cfg)
  IN IF own # NoStream THEN own
     ELSE IF final = <<>> THEN NoStream ELSE Head(final)
ChosenByInst(A, i) == IF i \in DOMAIN A.C THEN A.C[i] ELSE NoStream
ChosenWithPlaceholder(A, i) ==
  IF ChosenByInst(A, i) # NoStream THEN ChosenByInst(A, i)
  ELSE IF FinalStreams(A, i) = <<>> THEN NoStream
  ELSE ChosenByInst(A, A.S[Head(FinalStreams(A, i))].inst)

Dependents(A, s) == {d \in Streams(A) : s \in A.S[d].base}
BackDependents(A, s) == {d \in Streams(A) : s \in A.S[d].back}
BaseStep(A, s) == {b \in A.S[s].base : A.S[b].inner = A.S[s].inner}

(***************************************************************************)
(* The meta graph: phis and the values computed between them, down to      *)
(* streams, calls and values that do not change in the configured loop.    *)
(***************************************************************************)
\* The stream that value v stands for when stream s depends on it: the one
\* configured at the same loop, or an inner loop's own stream.
BaseStreamOf(A, s, v) ==
  LET same  == StreamWithPlaceholder(A, v, s.cfg)
      inner == A.S[same].inner
      home  == LoopOf(A.r, v)
  IN IF same # NoStream
     THEN IF /\ inner # s.inner /\ LoopContains(A.r, s.inner, inner)
             /\ (UserParam(A.r, s.inst, "inner-dep") \/ s.isIV)
          THEN StreamWithPlaceholder(A, v, inner)
          ELSE same
     ELSE IF home # s.inner /\ LoopContains(A.r, s.inner, home)
          THEN StreamWithPlaceholder(A, v, home)
          ELSE NoStream

RECURSIVE Visit(_, _, _, _, _, _)
\* An edge from a compute node to a phi is added only when that phi is met
\* for the first time.
VisitPhi(A, s, m, p) ==
  LET args == A.r.inst[p].args
      new  == SelectSeq(args, LAMBDA v : v \notin DOMAIN m.node)
      add  == [phi |-> m.phi @@ (p :> Range(args)),
               node |-> m.node @@ [v \in Range(new) |-> MetaNode]]
  IN FoldRight(LAMBDA v, g : Visit(A, s, g, v, v, BaseStreamOf(A, s, v)), new, add)
Collect(m, n, kind, x) == [m EXCEPT !.node[n][kind] = @ \cup {x}]
\* The stream b of value v ends the search, if there is one.
Visit(A, s, m, n, v, b) ==
  CASE ~InLoop(A.r, s.cfg, v) -> Collect(m, n, "inv", v)
    [] InLoop(A.r, s.cfg, v) /\ b # NoStream ->
         Collect(m, n, IF A.S[b].isIV THEN "iv" ELSE "load", b)
    [] InLoop(A.r, s.cfg, v) /\ b = NoStream /\ IsPhi(A.r, v) ->
         IF v \in DOMAIN m.phi THEN m ELSE VisitPhi(A, s, Collect(m, n, "phi", v), v)
    [] InLoop(A.r, s.cfg, v) /\ b = NoStream /\ Op(A.r, v) = "call" -> Collect(m, n, "call", v)
    [] OTHER ->
         IF v \in Range(m.node[n].calc) THEN m
         ELSE LET g == FoldRight(LAMBDA o, h : Visit(A, s, h, n, o, BaseStreamOf(A, s, o)),
                                 A.r.inst[v].args, m)
              IN [g EXCEPT !.node[n].calc = IF v \in Range(@) THEN @ ELSE Append(@, v)]

ConstructMetaGraph(A, s) ==
  IF s.isIV THEN VisitPhi(A, s, EmptyMeta, s.inst)
  ELSE LET v == AddrOf(A.r, s.inst)
       IN Visit(A, s, [EmptyMeta EXCEPT !.node = v :> MetaNode], v, v, BaseStreamOf(A, s, v))

Inputs(m, kind) == UNION {m.node[v][kind] : v \in DOMAIN m.node}

\* A node that computes nothing, is no constant and no load.
NodeIsEmpty(A, m, v) == m.node[v].calc = <<>> /\ ~IsConst(v) /\ ~(IsInst(A.r, v) /\ IsLoad(A.r, v))
NodesIdentical(A, m, v, w) ==
  LET ops(x) == [k \in DOMAIN m.node[x].calc |-> Op(A.r, m.node[x].calc[k])] IN
    \/ v = w
    \/ /\ ops(v) = ops(w)
       /\ \A kind \in {"load", "call", "inv", "iv"} : m.node[v][kind] = m.node[w][kind]

(***************************************************************************)
(* The stream graph.                                                       *)
(***************************************************************************)
ConstructStreamGraph(A, id, m) ==
  LET s     == A.S[id]
      loads == Inputs(m, "load") \ {id}
      ivs   == Inputs(m, "iv") \ {id}
      back  == IF ~s.isIV THEN {}
               ELSE {b \in loads : A.S[b].inner = s.inner}
                      \cup {b \in ivs : LoopContains(A.r, s.inner, A.S[b].inner)}
  IN [s EXCEPT !.meta = m, !.base = (loads \cup ivs) \ back, !.back = back]

\* Some block on the way is not on every path through its loop.
IsConditionalAccess(A, s) ==
  \E l \in LoopsUpTo(A.r, s.inner, s.cfg) :
    ~PostDominates(A.r, A.r.inst[s.inst].bb, A.r.header[l])
IsTripCountFixed(A, s) ==
  \A l \in LoopsUpTo(A.r, s.inner, s.cfg) : TripCountInvariant(A.r, l, s.cfg)

AnalyzeControl(A, s) ==
  [s EXCEPT !.cond = IsConditionalAccess(A, s), !.tripFixed = IsTripCountFixed(A, s)]
ConstructGraph(A, id) ==
  AnalyzeControl(A, ConstructStreamGraph(A, id, ConstructMetaGraph(A, A.S[id])))

StepRoots(A) ==
  LET root[s \in Streams(A)] ==
        UNION {IF A.S[b].isIV THEN {b} ELSE root[b] : b \in BaseStep(A, s)}
  IN root

\* At most one stream that this one depends on belongs to an inner loop.
AtMostOneInnerBase(A, s) ==
  Cardinality({b \in s.base \cup s.back : ~LoopContains(A.r, A.S[b].inner, s.inner)}) <= 1

MayMapStatically(p) == p \in {"UNCONDITIONAL", "NEVER"}
\* One element of a stream of a parent loop serves a fixed number of ours.
StaticMapTo(A, s, step, b) ==
  /\ MayMapStatically(A.S[b].stp)
  /\ MayMapStatically(step)
  /\ HasInvariantTripCountBetween(A.r, s.cfg, s.inner, A.S[b].inner)
StaticMapToParents(A, s, step) ==
  \A b \in s.base :
    (LoopContains(A.r, A.S[b].inner, s.inner) /\ A.S[b].inner # s.inner)
      => StaticMapTo(A, s, step, b)

\* constructChosenGraph asserts that these are chosen.
ChosenGraphComplete(A, s) ==
  \A b \in s.base \cup s.back \cup s.root : A.S[b].chosen

(***************************************************************************)
(* The arguments of the functions handed to the simulator.  A stream named *)
(* here is read at run time, any other input is sent at configuration.     *)
(***************************************************************************)
CoreInst(s) == IF s.fused = <<>> THEN s.inst ELSE Last(s.fused)
\* Mutant: a reduction's inputs are looked for among its base streams only.
ExecFuncInputStream_Base(A, id, v) ==
  LET base == {b \in A.S[id].base : A.S[b].inst = v}
  IN IF v \in {A.S[id].inst, CoreInst(A.S[id])} THEN id
     ELSE IF base # {} THEN CHOOSE b \in base : TRUE ELSE NoStream
ExecFuncInputStream(A, id, v) ==
  LET s     == A.S[id]
      base  == {b \in s.base : A.S[b].inst = v}
      back  == {b \in s.back : A.S[b].inst = v}
      roots == {q \in UNION {A.S[b].root : b \in s.back} : A.S[q].inst = v}
      other == ChosenWithPlaceholder(A, v)
  IN CASE v \in {s.inst, CoreInst(s)} -> id
       [] v \notin {s.inst, CoreInst(s)} /\ base # {} -> CHOOSE b \in base : TRUE
       [] OTHER ->
            IF s.reduce # 0 /\ back \cup roots # {}
            THEN CHOOSE b \in (IF back # {} THEN back ELSE roots) : TRUE
            ELSE IF other # NoStream /\ LoopContains(A.r, s.inner, A.S[other].inner)
            THEN other ELSE NoStream
ValueInputStream(A, id, v) ==
  LET s     == A.S[id]
      found == {b \in s.lsBase : v \in {CoreInst(A.S[b]), A.S[b].reduce}}
  IN IF v = s.inst THEN id
     ELSE IF found # {} THEN CHOOSE b \in found : TRUE ELSE NoStream
===============================================================================
