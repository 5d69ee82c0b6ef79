-------------------------- MODULE StaticStreamRegion --------------------------
(***************************************************************************)
(* StaticStreamRegionAnalyzer: one region goes through the analysis of its *)
(* constructor, phase by phase, and then through the plan: the streams     *)
(* that are qualified and chosen, what becomes of every instruction, and   *)
(* what each loop configures.                                              *)
(*                                                                         *)
(* Unordered maps are walked in a fixed order where the order does not     *)
(* show, and in every order in MarkUpdateRelationship, where the first     *)
(* load takes the store, and in the work lists of qualification.           *)
(* Instructions are numbered as in the code.                               *)
(***************************************************************************)
EXTENDS StaticMemStream

CONSTANTS Regions             \* the regions to analyze
TopLoop == 1
NumReservedStreamRegionId == 3

VARIABLES region, phase,
          S,       \* the streams, by StreamId
          F, C,    \* FinalInstStaticStreamMap and InstChosenStreamMap
          todo,    \* the loops or loads the phase has still to visit
          queue,   \* what is on the work list of qualification
          plan,    \* InstPlanMap: [kind, used, step]
          deleted, \* DeletedUses: [inst, arg]
          info     \* ConfigureLoopInfoMap
vars == <<region, phase, S, F, C, todo, queue, plan, deleted, info>>

Analysis == [r |-> region, S |-> S, F |-> F, C |-> C]
Enter(p) == phase' = p
At(p) == phase = p

(***************************************************************************)
(* The streams: one for every loop around a header phi or memory access.   *)
(***************************************************************************)
LoopsOutwards(r, l) ==
  SortedBy(LoopsUpTo(r, l, TopLoop), LAMBDA a, b : Depth(r, a) > Depth(r, b))
InitializeStreamForAllLoops(r, i) ==
  LET loops == LoopsOutwards(r, LoopOf(r, i))
  IN [k \in DOMAIN loops |-> NewStream(r, i, loops[k])]
HeaderPhis(r) == {i \in DOMAIN r.inst : IsPhi(r, i) /\ r.inst[i].bb \in Range(r.header)}
InsideTop(r) == {i \in DOMAIN r.inst : InLoop(r, TopLoop, i)}
InitializeStreams ==
  LET r == region
      level(i) == Depth(r, LoopOf(r, i))
      ivs  == SortedBy(HeaderPhis(r), LAMBDA a, b :
                level(a) < level(b) \/ (level(a) = level(b) /\ a < b))
      mems == Ascending({i \in InsideTop(r) : IsMem(r, i)})
      all  == ivs \o mems
  IN /\ At("init") /\ Enter("addr")
     /\ S' = FlattenSeq([k \in DOMAIN all |-> InitializeStreamForAllLoops(r, all[k])])
     /\ todo' = Loops(r)
     /\ UNCHANGED <<region, F, C, queue, plan, deleted, info>>

(***************************************************************************)
(* Address dependences, from the inner loops outwards, so that the final   *)
(* value of an inner reduction stands for its stream.                      *)
(***************************************************************************)
PushFinal(f, v, s) ==
  IF v \in DOMAIN f THEN [f EXCEPT ![v] = Append(@, s)] ELSE f @@ (v :> <<s>>)
CollectFinals(A, here) ==
  FoldLeft(LAMBDA f, s : IF s \in here /\ A.S[s].reduce # 0 THEN PushFinal(f, A.S[s].reduce, s) ELSE f,
           A.F, [s \in DOMAIN A.S |-> s])
WithGraphs(A, here) ==
  [A EXCEPT !.S = Table([s \in DOMAIN @ |->
     IF s \in here THEN AnalyzePaths(A, ConstructGraph(A, s)) ELSE @[s]])]
WithStepRoots(A, here) ==
  LET roots == Table(StepRoots(A)) IN
  [A EXCEPT !.S = [s \in DOMAIN @ |-> IF s \in here THEN [@[s] EXCEPT !.root = roots[s]] ELSE @[s]]]
WithPatterns(A, here) ==
  [A EXCEPT !.S = Table([s \in DOMAIN @ |-> IF s \in here THEN AnalyzeValuePattern(A, s) ELSE @[s]])]
WithFinals(A, here) == [A EXCEPT !.F = CollectFinals(A, here)]
AddrDepGraph(A, l) ==
  LET here == {s \in Streams(A) : A.S[s].inner = l}
  IN WithFinals(WithPatterns(WithStepRoots(WithGraphs(A, here), here), here), here)
BuildAddrDepGraph(l) ==
  /\ At("addr") /\ l \in todo /\ SubLoops(region, l) \cap todo = {}
  /\ \E built \in {AddrDepGraph(Analysis, l)} : S' = built.S /\ F' = built.F
  /\ todo' = todo \ {l}
  /\ IF todo' = {} THEN Enter("alias") ELSE UNCHANGED phase
  /\ UNCHANGED <<region, C, queue, plan, deleted, info>>

(***************************************************************************)
(* Aliases: the streams of a loop whose addresses differ by a constant.    *)
(***************************************************************************)
\* What two addresses agree on when their difference is a constant.
AddressKey(A, s) ==
  LET sum == Scev(A.r)[AddrOf(A.r, A.S[s].inst)]
  IN [root |-> A.S[s].root, iv |-> sum.iv, inv |-> sum.inv, unk |-> sum.unk]
AddressOffset(A, s) == Scev(A.r)[AddrOf(A.r, A.S[s].inst)].off
SingleRoot(A, s) == ~A.S[s].isIV /\ Cardinality(A.S[s].root) = 1
\* A group by increasing offset (std::sort leaves short equal runs alone).
ByOffset(A, group) ==
  SortedBy(group, LAMBDA a, b :
    \/ AddressOffset(A, a) < AddressOffset(A, b)
    \/ (AddressOffset(A, a) = AddressOffset(A, b) /\ A.S[a].inst < A.S[b].inst))
AliasRelationship(A) ==
  LET like(s) == {t \in Streams(A) : /\ A.S[t].cfg = A.S[s].cfg /\ SingleRoot(A, t)
                                     /\ AddressKey(A, t) = AddressKey(A, s)}
      mark(s) == LET group == ByOffset(A, like(s)) IN
                   [A.S[s] EXCEPT !.aliasBase = Head(group),
                                !.aliasOff = AddressOffset(A, s) - AddressOffset(A, Head(group)),
                                !.aliased = IF s = Head(group) THEN group ELSE <<>>]
  IN [s \in Streams(A) |-> IF SingleRoot(A, s) THEN mark(s) ELSE A.S[s]]
MarkAliasRelationship ==
  /\ At("alias") /\ Enter("fuse")
  /\ S' = AliasRelationship(Analysis)
  /\ UNCHANGED <<region, F, C, todo, queue, plan, deleted, info>>

(***************************************************************************)
(* Operations fused with a load: the computation around its aliases that   *)
(* ends in one smaller value nobody else can tell apart.                   *)
(***************************************************************************)
MaxAliasOffset == 16
AbsOf(n) == IF n < 0 THEN -n ELSE n
UsersInBlockOf(A, s, v) ==
  \A u \in Users(A.r, v) : A.r.inst[u].bb = A.r.inst[A.S[s].inst].bb
CanInstTypeBeFused(r, i) ==
  ~IsMem(r, i) /\ ~IsPhi(r, i) /\ Op(r, i) \notin {"br", "invoke", "call"}
NearbyStreams(A, s) ==
  SelectSeq(A.S[A.S[s].aliasBase].aliased, LAMBDA t :
    /\ AbsOf(A.S[t].aliasOff - A.S[s].aliasOff) <= MaxAliasOffset
    /\ Op(A.r, A.S[t].inst) = Op(A.r, A.S[s].inst))
NearbyMemSize(A, near) ==
  Max({A.r.inst[A.S[near[k]].inst].ty + A.S[near[k]].aliasOff - A.S[near[1]].aliasOff : k \in DOMAIN near})
MayFuse(A, s) ==
  LET near == NearbyStreams(A, s) IN
    /\ BackDependents(A, s) = {}
    /\ UsersInBlockOf(A, s, A.S[s].inst)
    /\ A.S[s].aliasBase # NoStream
    /\ \A t \in Range(A.S[A.S[s].aliasBase].aliased) : ~IsStore(A.r, A.S[t].inst)
    /\ near[((Len(near) - 1) \div 2) + 1] = s
    /\ IsLoad(A.r, A.S[s].inst) => NearbyMemSize(A, near) > 2
LoadComputeInputs(A, s) ==
  LET near  == NearbyStreams(A, s)
      group == IF ~UserParam(A.r, A.S[s].inst, "ld-cmp") THEN {}
               ELSE {t \in Streams(A) : A.S[t].cfg = A.S[s].cfg /\ UserParam(A.r, A.S[t].inst, "ld-cmp")}
  IN near \o Ascending(group \ Range(near))
\* The operations, level by level from the loads; final is the last closure.
FusedLoadOps(A, s) ==
  LET r     == A.r
      loads == [k \in DOMAIN LoadComputeInputs(A, s) |-> A.S[LoadComputeInputs(A, s)[k]].inst]
      size  == NearbyMemSize(A, NearbyStreams(A, s))
      next(g) == {u \in UNION {Users(r, v) : v \in g.front} :
                    /\ UsersInBlockOf(A, s, u)
                    /\ \A v \in Args(r, u) : InLoop(r, A.S[s].cfg, v) => v \in Range(g.ops)
                    /\ CanInstTypeBeFused(r, u)
                    /\ r.inst[u].ty <= r.inst[A.S[s].inst].ty}
      closed(g, u) == \A v \in Range(g.ops) : Users(r, v) \subseteq Range(g.ops) \cup {u}
      grow[n \in 0 .. Cardinality(DOMAIN r.inst)] ==
        IF n = 0 THEN [ops |-> loads, front |-> Range(loads), final |-> <<>>]
        ELSE LET g == grow[n - 1]
                 f == next(g)
             IN [ops |-> g.ops \o Ascending(f), front |-> f,
                 final |-> IF \E u \in f : f = {u} /\ closed(g, u) /\ r.inst[u].ty < size
                           THEN Tail(g.ops) \o Ascending(f) ELSE g.final]
  IN grow[Cardinality(DOMAIN r.inst)].final
Fusible(A, s) ==
  /\ Enabled(A.r, "fuse")
  /\ Op(A.r, A.S[s].inst) \in {"load", "cmpxchg"}
WithFusedOps(A) ==
  LET ops == Table([s \in Streams(A) |->
               IF Fusible(A, s) /\ MayFuse(A, s) THEN FusedLoadOps(A, s) ELSE <<>>])
      load(s) == IsLoad(A.r, A.S[s].inst)
      graph(s) == StreamGraph(A.r, A.S[s].cfg, Last(ops[s]), {})
      fuse(s) == [A.S[s] EXCEPT !.fused = ops[s],
                                !.lsBase = Range(LoadComputeInputs(A, s)) \ {s},
                                !.hasValue = load(s),
                                !.value = IF load(s) THEN graph(s) ELSE @]
  IN [S |-> [s \in Streams(A) |-> IF ops[s] = <<>> THEN A.S[s] ELSE fuse(s)],
      F |-> FoldLeft(LAMBDA f, s : IF ops[s] = <<>> THEN f ELSE PushFinal(f, Last(ops[s]), s),
                     A.F, [s \in Streams(A) |-> s])]
FuseLoadOps ==
  /\ At("fuse") /\ Enter("predicate")
  /\ \E with \in {WithFusedOps(Analysis)} : S' = with.S /\ F' = with.F
  /\ UNCHANGED <<region, C, todo, queue, plan, deleted, info>>

(***************************************************************************)
(* Predication: a branch on streams' values tells whether the streams of   *)
(* the block it leads to have an element in an iteration.                  *)
(***************************************************************************)
PredicateGraphs(A) ==
  LET at(l, b) == BranchGraph(A.r, l, b, StreamInsts(A))
      usable(l, b) == /\ BranchValid(A.r, l, b, StreamInsts(A))
                      /\ IsValidPredicate(A.r, at(l, b))
                      /\ InLoopInputs(A.r, l, at(l, b).g) # {}
  IN {at(x[2], x[1]) : x \in {y \in (DOMAIN A.r.bb) \X Loops(A.r) :
        LoopContains(A.r, y[2], A.r.bb[y[1]].loop) /\ usable(y[2], y[1])}}
PredicateStreams(A, p) ==
  {StreamWithPlaceholder(A, v, p.loop) : v \in InLoopInputs(A.r, p.loop, p.g)}
StreamsInBlock(A, l, b) == {s \in Streams(A) : A.S[s].cfg = l /\ A.r.inst[A.S[s].inst].bb = b}
\* The streams of the two target blocks, marked with the number the graph
\* gets among those of the predicating stream.
MarkPredicate(A, p) ==
  LET target(b) == IF IsPredicate(A.r, p, b) THEN StreamsInBlock(A, p.loop, b) ELSE {}
      found == target(p.true) \cup target(p.false) # {}
      mark(s) == LET n == Len(s.bbPreds) IN
        [s EXCEPT !.predTrue = @ \cup (target(p.true) \X {n}),
                  !.predFalse = @ \cup (target(p.false) \X {n}),
                  !.bbPreds = Append(@, p)]
  IN [A EXCEPT !.S = Table([s \in DOMAIN @ |->
        IF found /\ s \in PredicateStreams(A, p) THEN mark(@[s]) ELSE @[s]])]
PredicateRelationship(A) ==
  LET graphs == SortedBy(PredicateGraphs(A), LAMBDA p, q :
                  p.bb < q.bb \/ (p.bb = q.bb /\ Depth(A.r, p.loop) > Depth(A.r, q.loop)))
  IN FoldLeft(MarkPredicate, A, graphs).S
MarkPredicateRelationship ==
  /\ At("predicate") /\ Enter("value")
  /\ S' = IF Enabled(region, "value") THEN PredicateRelationship(Analysis) ELSE S
  /\ UNCHANGED <<region, F, C, todo, queue, plan, deleted, info>>
PredicatedBy(A, s) ==
  {t \in Streams(A) : \E x \in A.S[t].predTrue \cup A.S[t].predFalse : x[1] = s}

(***************************************************************************)
(* The value of a store or atomic, as a function of other streams.         *)
(***************************************************************************)
ValueStream(A, s, v) ==
  LET same == StreamWithPlaceholder(A, v, A.S[s].cfg)
  IN IF same # NoStream THEN same ELSE StreamWithPlaceholder(A, v, LoopOf(A.r, v))
\* An element of the outer stream serves a known number of the inner one's.
ValueMapsStatically(A, s, t) ==
  LET final == LoopContains(A.r, A.S[s].inner, A.S[t].inner)
      inner == A.S[IF final THEN t ELSE s]
      outer == A.S[IF final THEN s ELSE t]
  IN /\ final /\ inner.inner # outer.inner => Enabled(A.r, "value-inner")
     /\ \/ inner.cfg = inner.inner /\ A.r.parent[inner.cfg] = outer.inner
        \/ HasInvariantTripCountBetween(A.r, A.S[s].cfg, inner.inner, outer.inner)
ValueGraph(A, s) ==
  StreamGraph(A.r, A.S[s].cfg, StoredValue(A.r, A.S[s].inst), StreamInsts(A))
ValueInputs(A, s, g) == {ValueStream(A, s, v) : v \in InLoopInputs(A.r, A.S[s].cfg, g)}
HasValueGraph(A, s) ==
  LET r == A.r
      g == ValueGraph(A, s)
  IN /\ Cardinality(A.S[s].root) = 1
     /\ \/ PostDominates(r, r.inst[A.S[s].inst].bb, r.header[A.S[s].inner])
        \/ PredicatedBy(A, s) # {}
     /\ ~HasCircle(r, g) /\ ~HasPhi(r, g) /\ ~HasCall(r, g)
     /\ Cardinality(g.inputs) <= 8
     /\ \A t \in ValueInputs(A, s, g) : t # NoStream /\ ValueMapsStatically(A, s, t)
WithValueGraph(A, s) ==
  LET g == ValueGraph(A, s)
      i == A.S[s].inst
  IN [A.S[s] EXCEPT !.lsBase = @ \cup ValueInputs(A, s, g), !.hasValue = TRUE,
                    !.value = IF IsAtomic(A.r, i) THEN ExtendTail(g, i, A.S[s].fused) ELSE g]
ValueDepGraph(A) ==
  [s \in Streams(A) |->
     IF ~A.S[s].isIV /\ ~IsLoad(A.r, A.S[s].inst) /\ HasValueGraph(A, s)
     THEN WithValueGraph(A, s) ELSE A.S[s]]
BuildValueDepGraph ==
  /\ At("value") /\ Enter("update")
  /\ S' = IF Enabled(region, "value") THEN ValueDepGraph(Analysis) ELSE S
  /\ todo' = IF Enabled(region, "upgrade") THEN {i \in InsideTop(region) : IsLoad(region, i)} ELSE {}
  /\ UNCHANGED <<region, F, C, queue, plan, deleted, info>>

(***************************************************************************)
(* A load and the one store to its address become an update stream.        *)
(***************************************************************************)
UpdateStores(A, s) ==
  {t \in Range(A.S[A.S[s].aliasBase].aliased) :
     /\ A.S[t].aliasOff = A.S[s].aliasOff
     /\ IsStore(A.r, A.S[t].inst)
     /\ A.r.inst[A.S[t].inst].ty = A.r.inst[A.S[s].inst].ty}
\* Mutant: a store can be claimed twice.
MayUpdate_Taken(A, s, t) ==
  /\ A.S[s].tripFixed
  /\ A.S[s].aliasBase # NoStream
  /\ UpdateStores(A, s) = {t}
  /\ A.r.inst[A.S[t].inst].bb = A.r.inst[A.S[s].inst].bb
MayUpdate(A, s, t) ==
  /\ A.S[s].tripFixed
  /\ A.S[s].aliasBase # NoStream
  /\ UpdateStores(A, s) = {t}
  /\ A.r.inst[A.S[t].inst].bb = A.r.inst[A.S[s].inst].bb
  /\ ~UserParam(A.r, A.S[t].inst, "no-ld-st-merge")
  /\ A.S[t].update = NoStream
MarkUpdateForLoad(A, s) ==
  LET pair == {t \in Streams(A) : MayUpdate(A, s, t)} IN
    [A EXCEPT !.S = [t \in DOMAIN @ |->
       IF t = s /\ pair # {} THEN [@[t] EXCEPT !.update = CHOOSE x \in pair : TRUE]
       ELSE IF t \in pair THEN [@[t] EXCEPT !.update = s] ELSE @[t]]]
MarkUpdateRelationship(i) ==
  /\ At("update") /\ i \in todo
  /\ S' = FoldLeft(MarkUpdateForLoad, Analysis, Ascending(StreamsOf(Analysis, i))).S
  /\ todo' = todo \ {i}
  /\ UNCHANGED <<region, phase, F, C, queue, plan, deleted, info>>

(***************************************************************************)
(* Candidates, and the qualified ones among them: a work list spreads      *)
(* qualification to dependent streams, leaving back edges aside, and a     *)
(* second one takes it back where a back edge's stream is not qualified.   *)
(* The lists are filled from unordered maps and sets: any of the streams   *)
(* that wait may be next.                                                  *)
(***************************************************************************)
Candidates(A) ==
  [s \in Streams(A) |->
     [A.S[s] EXCEPT !.candidate = IsCandidate(A, s),
                    !.noCoreUser = IF A.S[s].isIV THEN @ ELSE MemNoCoreUser(A, A.S[s])]]
AnalyzeIsCandidate ==
  /\ At("update") /\ todo = {} /\ Enter("qualify")
  /\ \E T \in {Candidates(Analysis)} :
       /\ S' = T
       /\ queue' = {s \in DOMAIN T : QualifiedWithoutBackEdge([Analysis EXCEPT !.S = T], s)}
  /\ UNCHANGED <<region, F, C, todo, plan, deleted, info>>

\* The streams after one more is, or is no longer, qualified, and those
\* that depend on it and have to be looked at for that.
Qualify(A, s) == [A EXCEPT !.S[s] = [FinalizePattern(A, s) EXCEPT !.qualified = TRUE]]
Disqualify(A, s) == [A EXCEPT !.S[s].qualified = FALSE]
NowQualified(A, s) == {d \in Dependents(A, s) : QualifiedWithoutBackEdge(A, d)}
\* Mutant: only back edges are followed.
NowDisqualified_BackOnly(A, s) ==
  {d \in BackDependents(A, s) : A.S[d].qualified /\ ~QualifiedWithBackEdge(A, d)}
NowDisqualified(A, s) ==
  {d \in Dependents(A, s) \cup BackDependents(A, s) : A.S[d].qualified /\ ~QualifiedWithBackEdge(A, d)}
MarkQualified ==
  /\ At("qualify") /\ queue # {}
  /\ \E s \in queue :
       IF S[s].qualified THEN queue' = queue \ {s} /\ UNCHANGED S
       ELSE \E A \in {Qualify(Analysis, s)} :
              queue' = (queue \ {s}) \cup NowQualified(A, s) /\ S' = A.S
  /\ UNCHANGED <<region, phase, F, C, todo, plan, deleted, info>>
BeginEnforce ==
  /\ At("qualify") /\ queue = {} /\ Enter("enforce")
  /\ queue' = {s \in DOMAIN S : S[s].qualified /\ ~QualifiedWithBackEdge(Analysis, s)}
  /\ UNCHANGED <<region, S, F, C, todo, plan, deleted, info>>
EnforceBackEdge ==
  /\ At("enforce") /\ queue # {}
  /\ \E s \in queue :
       IF ~S[s].qualified THEN queue' = queue \ {s} /\ UNCHANGED S
       ELSE \E A \in {Disqualify(Analysis, s)} :
              queue' = (queue \ {s}) \cup NowDisqualified(A, s) /\ S' = A.S
  /\ UNCHANGED <<region, phase, F, C, todo, plan, deleted, info>>

(***************************************************************************)
(* The choice of one stream for an instruction.                            *)
(***************************************************************************)
InsertChosen(c, i, s) == IF i \in DOMAIN c THEN c ELSE c @@ (i :> s)
Qualified(A) == {s \in Streams(A) : A.S[s].qualified}
\* Of the streams of an instruction the innermost that is qualified.
InnerMostStreams(A) ==
  {s \in Qualified(A) : \A t \in Qualified(A) : A.S[t].inst = A.S[s].inst => s <= t}
QualifiedDependents(A, s) ==
  LET of(t) == (Dependents(A, t) \cup BackDependents(A, t)) \cap Qualified(A)
  IN Closure(of(s), of, Len(A.S))
\* For an induction variable the level that most streams depend on, the
\* outer one of equals; any other stream goes where its step roots are.
\* Mutant: a memory stream goes where it has the most dependents, too.
StaticOuterMostStreams_Own(A) ==
  LET count == Table([s \in Qualified(A) |-> Cardinality(QualifiedDependents(A, s))])
  IN {s \in Qualified(A) : \A t \in Qualified(A) : A.S[t].inst = A.S[s].inst =>
        count[t] < count[s] \/ (count[t] = count[s] /\ t <= s)}
StaticOuterMostStreams(A) ==
  LET count == Table([s \in Qualified(A) |-> Cardinality(QualifiedDependents(A, s))])
      most(s) == \A t \in Qualified(A) : A.S[t].inst = A.S[s].inst =>
                   count[t] < count[s] \/ (count[t] = count[s] /\ t <= s)
      ivs == {s \in Qualified(A) : A.S[s].isIV /\ most(s)}
  IN ivs \cup {s \in Qualified(A) : ~A.S[s].isIV /\ A.S[s].root \subseteq ivs}
ChooseStreams ==
  /\ At("enforce") /\ queue = {} /\ Enter("plan")
  /\ \E chosen \in {IF Enabled(region, "outer") THEN StaticOuterMostStreams(Analysis)
                     ELSE InnerMostStreams(Analysis)} :
       /\ S' = [s \in DOMAIN S |-> [S[s] EXCEPT !.chosen = s \in chosen]]
       /\ C' = FoldLeft(LAMBDA c, s : IF s \in chosen THEN InsertChosen(c, S[s].inst, s) ELSE c,
                       <<>>, [s \in DOMAIN S |-> s])
  /\ UNCHANGED <<region, F, todo, queue, plan, deleted, info>>

(***************************************************************************)
(* The plan: what becomes of every instruction.                            *)
(***************************************************************************)
Operands(r, i) == {i} \X DOMAIN r.inst[i].args
ComputeInsts(A, s) == IF A.S[s].isIV THEN {} ELSE AddrGraph(A, A.S[s]).calc
\* The uses that go: of a store its address, of any other stream all; then
\* those of the instructions that nobody else uses.
\* Mutant: what an address is computed from goes with the address.
DeletedUses_Early(A) ==
  LET gone == UNION {ComputeInsts(A, s) : s \in Range(A.C)}
  IN [uses |-> UNION {Operands(A.r, i) : i \in DOMAIN A.C}, insts |-> gone]
DeletedUses(A) ==
  LET r == A.r
      seed == UNION {IF IsStore(r, i) THEN {<<i, 2>>} ELSE Operands(r, i) : i \in DOMAIN A.C}
      candidates == UNION {ComputeInsts(A, s) : s \in Range(A.C)}
      uses(v) == {x \in UNION {Operands(r, u) : u \in Users(r, v)} : r.inst[x[1]].args[x[2]] = v}
      gone(D) == {v \in candidates : uses(v) # {} /\ uses(v) \subseteq D}
      grow[n \in 0 .. Cardinality(candidates)] ==
        IF n = 0 THEN seed
        ELSE LET before == grow[n - 1]
             IN before \cup UNION {Operands(r, v) : v \in gone(before)}
      all == grow[Cardinality(candidates)]
  IN [uses |-> all, insts |-> gone(all)]
PlanOf(A, D, i) ==
  LET r == A.r
      stepped == {s \in Range(A.C) : i \in A.S[s].steps}
      feeds(s) == {A.S[s].inst} \cup A.S[s].steps
  IN [kind |-> IF IsStore(r, i) /\ i \in DOMAIN A.C THEN "STORE"
               ELSE IF stepped # {} THEN "STEP"
               ELSE IF i \in DOMAIN A.C \cup D.insts THEN "DELETE" ELSE "NOTHING",
      used |-> {s \in Range(A.C) : feeds(s) \cap Args(r, i) # {}}
                 \cup {s \in Range(A.C) : IsStore(r, i) /\ A.S[s].inst = i},
      step |-> stepped]
BuildTransformPlan ==
  /\ At("plan") /\ Enter("configure")
  /\ \E D \in {DeletedUses(Analysis)} :
       /\ plan' = [i \in InsideTop(region) |-> PlanOf(Analysis, D, i)]
       /\ deleted' = D.uses
  /\ UNCHANGED <<region, S, F, C, todo, queue, info>>

(***************************************************************************)
(* What each loop configures: its chosen streams by dependence depth, with *)
(* ids that count through the region.                                      *)
(***************************************************************************)
ChosenAt(A, l) == {s \in Range(A.C) : A.S[s].cfg = l}
DependenceDepth(A, l) ==
  LET here == ChosenAt(A, l)
      depth[s \in here] ==
        Max({0} \cup {depth[b] + 1 : b \in (A.S[s].base \cap here)})
  IN depth
SortedStreams(A, l) ==
  LET depth == DependenceDepth(A, l)
  IN SortedBy(ChosenAt(A, l), LAMBDA a, b :
       depth[a] < depth[b] \/ (depth[a] = depth[b] /\ a < b))
RECURSIVE LoopsInwards(_, _)
LoopsInwards(r, l) ==
  <<l>> \o FlattenSeq([k \in DOMAIN Ascending(SubLoops(r, l)) |-> LoopsInwards(r, Ascending(SubLoops(r, l))[k])])
WithRegionIds(A) ==
  LET loops == LoopsInwards(A.r, TopLoop)
      order == FlattenSeq([k \in DOMAIN loops |-> SortedStreams(A, loops[k])])
      id(s) == NumReservedStreamRegionId - 1 + (CHOOSE k \in DOMAIN order : order[k] = s)
  IN [s \in Streams(A) |-> IF s \in Range(order) THEN [A.S[s] EXCEPT !.regionId = id(s)] ELSE A.S[s]]
BuildStreamConfigureLoopInfoMap ==
  /\ At("configure") /\ Enter("coalesce")
  /\ info' = [l \in Loops(region) |-> [sorted |-> SortedStreams(Analysis, l)]]
  /\ S' = WithRegionIds(Analysis)
  /\ todo' = Loops(region)
  /\ UNCHANGED <<region, F, C, queue, plan, deleted>>

\* The group has the id of its stream with the lowest address.
Coalesced(A, here) ==
  LET like(s) == {t \in here : /\ SingleRoot(A, t)
                               /\ Op(A.r, A.S[t].inst) = Op(A.r, A.S[s].inst)
                               /\ AddressKey(A, t) = AddressKey(A, s)}
      first(s) == Head(ByOffset(A, like(s)))
  IN [s \in Streams(A) |->
        IF s \notin here THEN A.S[s]
        ELSE IF ~SingleRoot(A, s) THEN [A.S[s] EXCEPT !.group = s, !.groupOff = 0]
        ELSE [A.S[s] EXCEPT !.group = first(s),
                            !.groupOff = AddressOffset(A, s) - AddressOffset(A, first(s))]]
CoalesceStreamsAtLoop(l) ==
  /\ At("coalesce") /\ l \in todo
  /\ S' = Coalesced(Analysis, Range(info[l].sorted))
  /\ todo' = todo \ {l}
  /\ UNCHANGED <<region, phase, F, C, queue, plan, deleted, info>>

\* Counts down from the top and up from the inner loops.
FirstOfGroups(T, sorted) ==
  SelectSeq(sorted, LAMBDA s : \A k \in DOMAIN sorted :
    T[sorted[k]].group = T[s].group => \E j \in 1 .. k : sorted[j] = s)
\* Mutant: the loop's own streams are counted twice.
Counts_Own(r, own) ==
  LET down[l \in {0} \cup Loops(r)] == IF l = 0 THEN 0 ELSE own[l] + down[r.parent[l]]
      up[l \in Loops(r)] == own[l] + Max({0} \cup {up[k] : k \in SubLoops(r, l)})
  IN [l \in Loops(r) |-> [configured |-> down[l], sub |-> up[l], alive |-> down[l] + up[l]]]
Counts(r, own) ==
  LET down[l \in {0} \cup Loops(r)] == IF l = 0 THEN 0 ELSE own[l] + down[r.parent[l]]
      up[l \in Loops(r)] == own[l] + Max({0} \cup {up[k] : k \in SubLoops(r, l)})
  IN [l \in Loops(r) |-> [configured |-> down[l], sub |-> up[l], alive |-> down[l] + up[l] - own[l]]]
EndTransform ==
  LET coalesced == [l \in Loops(region) |-> FirstOfGroups(S, info[l].sorted)]
      n == Counts(region, [l \in Loops(region) |-> Len(info[l].sorted)])
      m == Counts(region, [l \in Loops(region) |-> Len(coalesced[l])])
  IN /\ At("coalesce") /\ todo = {} /\ Enter("done")
     /\ info' = [l \in Loops(region) |->
          [sorted |-> info[l].sorted, coalesced |-> coalesced[l], total |-> n[l], groups |-> m[l]]]
     /\ UNCHANGED <<region, S, F, C, todo, queue, plan, deleted>>

Init ==
  /\ region \in Regions
  /\ phase = "init"
  /\ S = <<>> /\ F = <<>> /\ C = <<>>
  /\ todo = {} /\ queue = {}
  /\ plan = <<>> /\ deleted = {} /\ info = <<>>
AnalyzeRegion ==
  \/ InitializeStreams
  \/ \E l \in Loops(region) : BuildAddrDepGraph(l)
  \/ MarkAliasRelationship \/ FuseLoadOps \/ MarkPredicateRelationship \/ BuildValueDepGraph
  \/ \E i \in DOMAIN region.inst : MarkUpdateRelationship(i)
  \/ AnalyzeIsCandidate \/ MarkQualified \/ BeginEnforce \/ EnforceBackEdge
  \/ ChooseStreams
  \/ BuildTransformPlan \/ BuildStreamConfigureLoopInfoMap

(***************************************************************************)
(* Properties.                                                             *)
(***************************************************************************)
Past(p) == phase \in p
Planned == Past({"configure", "coalesce", "done"})

\* What the code asserts of its own result holds: the streams a chosen
\* stream depends on are chosen, a memory stream's step root at the same
\* loop (constructChosenGraph); a qualified reduction steps every time
\* (searchStepInsts); every stream on the first work list is still fit to be
\* qualified (markQualifiedStreams); and every input of a predicate has a
\* stream, which markPredicateRelationshipForLoopBB dereferences untested.
ReductionsStep ==
  \A s \in DOMAIN S : S[s].qualified /\ S[s].val = "REDUCTION" => S[s].stp = "UNCONDITIONAL"
PredicateStreamsExist ==
  At("value") => \A p \in PredicateGraphs(Analysis) : NoStream \notin PredicateStreams(Analysis, p)
ChosenClosed ==
  Past({"plan", "configure", "coalesce", "done"}) =>
    LET A == Analysis IN
    \A s \in Range(C) :
      IF S[s].isIV THEN ChosenGraphComplete(A, S[s]) ELSE MemChosenGraphComplete(A, S[s])
WaitingQualify == At("qualify") => \A s \in queue : QualifiedWithoutBackEdge(Analysis, s)
AssertionsHold == ChosenClosed /\ ReductionsStep /\ WaitingQualify /\ PredicateStreamsExist

\* Both work lists reach their fixed point: markQualifiedStreams ends with
\* exactly the streams that qualify when back edges are left aside, however
\* the streams were met, and enforceBackEdgeDependence leaves no stream
\* qualified that depends on one that is not, through back edges included.
QualifiedExact ==
  LET A == Analysis IN
  /\ (At("qualify") /\ queue = {}) =>
       \A s \in DOMAIN S : S[s].qualified <=> QualifiedWithoutBackEdge(A, s)
  /\ (At("enforce") /\ queue = {}) =>
       \A s \in DOMAIN S : S[s].qualified => QualifiedWithBackEdge(A, s)

\* No value gets lost: an instruction that stays in the program has each of
\* its operands computed by one that stays too, or served by the stream that
\* buildTransformPlan names for it.
PlanSound ==
  Planned =>
    \A u \in DOMAIN plan : plan[u].kind # "DELETE" =>
      \A k \in DOMAIN region.inst[u].args :
        LET v == region.inst[u].args[k] IN
          (v \in DOMAIN plan /\ plan[v].kind = "DELETE" /\ <<u, k>> \notin deleted)
             => ChosenByInst(Analysis, v) # NoStream /\ ChosenByInst(Analysis, v) \in plan[u].used

\* Every function generated for a chosen stream (address, reduction, load and
\* store value, predicate) finds each operand among its arguments or the
\* instructions already translated, as translate asserts, also when other
\* streams' fused operations have been sliced out of it.
Functions(A, s) ==
  LET t == A.S[s] IN
    (IF t.reduce # 0 THEN {<<t.reduceDG, FALSE>>} ELSE {})
      \cup (IF t.isIV THEN {} ELSE {<<AddrGraph(A, t), FALSE>>})
      \cup (IF ~t.hasValue THEN {}
             ELSE IF IsLoad(A.r, t.inst) THEN {<<t.value, FALSE>>}
             ELSE {<<SliceWithFusedOp(A, t.value, t.lsBase), k>> : k \in {FALSE, t.value.tail # 0}})
      \cup {<<t.bbPreds[k].g, FALSE>> : k \in DOMAIN t.bbPreds}
FunctionsClosed ==
  Planned => \A s \in Range(C) : \A f \in Functions(Analysis, s) : GenerateFunction(region, f[1], f[2])

\* An input that changes in the configured loop is never sent once at
\* configuration: for each argument of an address, reduction, predicate or
\* value function that is computed in the loop there is a stream to read
\* (getExecFuncInputStream, fillProtobufValueDGFuncInfoImpl).
InputsServed ==
  Planned =>
    LET A == Analysis
        served(s, g) == \A v \in InLoopInputs(region, S[s].cfg, g) : ExecFuncInputStream(A, s, v) # NoStream
        valueOf(s) == SliceWithFusedOp(A, S[s].value, S[s].lsBase)
    IN \A s \in Range(C) :
         /\ S[s].isIV \/ served(s, AddrGraph(A, S[s]))
         /\ S[s].reduce = 0 \/ served(s, S[s].reduceDG)
         /\ \A k \in DOMAIN S[s].bbPreds : served(s, S[s].bbPreds[k].g)
         /\ S[s].hasValue => \A v \in InLoopInputs(region, S[s].cfg, valueOf(s)) :
                              ValueInputStream(A, s, v) # NoStream

\* The counts handed to the simulator bound what it has to hold: with the
\* streams of a loop configured, at most "alive" streams are live at once on
\* any way from the top loop down through it (finalizeStreamConfigureLoopInfo),
\* and some way reaches that many.
AliveExact ==
  At("done") => \A l \in Loops(region) :
    info[l].total.alive = Max({Cardinality({s \in Range(C) : S[s].cfg \in Enclosing(region)[k]}) :
                               k \in {m \in Loops(region) : LoopContains(region, l, m)}})

\* A load and a store merged into an update stream belong to each other and
\* to nobody else, in whatever order the loads are looked at.
UpdatesPaired ==
  \A s \in DOMAIN S : S[s].update # NoStream => S[S[s].update].update = s

\* What the plan takes out of the core, the streams do: every value that is
\* still used is served, and each store merged with a load is that load's.
PlanComplete == PlanSound /\ UpdatesPaired

\* Whatever is computed for a stream, at each configuration or for each of
\* its elements, is given all it reads.
FunctionsServed == FunctionsClosed /\ InputsServed
===============================================================================
