--------------------------- MODULE StreamExecution ---------------------------
(***************************************************************************)
(* What StreamExecutionTransformer does to the clone for one instruction   *)
(* and for one loop.  The components of a clone x that are its own:        *)
(*   load    StreamToStreamLoadInstMap (0: the StreamLoad is removed)      *)
(*   func    <<stream, "load" or "store">>: the functions that are enabled *)
(*   deps    <<base, dependent>>: value dependences sent to the simulator  *)
(*   merged  [store, load, true]: the predicated stores that are merged    *)
(*   noCore  the streams marked no_core_user                               *)
(*   exit    [s, inst, bb, last]: the exit values the core reads           *)
(*   config, ends   the block a loop is configured in, its StreamEnds      *)
(*   bound   [loop, ret]: the loops whose bound is sent as a function      *)
(*   bad     the assertions that failed                                    *)
(***************************************************************************)
EXTENDS ClonedProgram, StreamDataGraph

MaxStreamIdForLoad == 128
MaxStreamIdForStep == 64
MaxConfiguredLoops == 4096

ChosenDependents(A, s) == {d \in Dependents(A, s) : A.S[d].chosen}
ChosenBackDependents(A, s) == {d \in BackDependents(A, s) : A.S[d].chosen}
IsChosenOf(A, s) == ChosenByInst(A, A.S[s].inst) = s

(***************************************************************************)
(* Stream instructions.                                                    *)
(***************************************************************************)
\* Integers smaller than the register are truncated from what is loaded.
NeedTruncate(x, i) == x.inst[i].ty < 8
AddStreamLoadOrAtomic(x, A, s, typed, b, k, isAtomic) ==
  LET x1 == Checked(x, A.S[s].regionId < MaxStreamIdForLoad, "Illegal RegionStreamId for StreamLoad")
      x2 == Insert(x1, b, k, IF isAtomic THEN "ssp.atomic" ELSE "ssp.load", <<>>, s)
      x3 == IF isAtomic \/ s \in DOMAIN x.load THEN x2 ELSE [x2 EXCEPT !.load = @ @@ (s :> LastInst(x2))]
  IN IF NeedTruncate(x, typed) THEN Insert(x3, b, k + 1, "trunc", <<LastInst(x3)>>, 0) ELSE x3
AddStreamStore(x, A, s, i) ==
  InsertBefore(Checked(x, A.S[s].chosen, "Try to add StreamStore for unchosen stream"), i, "ssp.store", <<>>, s)

\* The instruction and what is fused with it are to go, the last of them
\* tells where its stream is read and which uses are replaced.
\* Mutant: what is fused with the load is forgotten.
FinalInst_Load(A, s) == A.S[s].inst
FinalInst(A, s) == CoreInst(A.S[s])
PendingWithFused(x, A, s) ==
  Pending(x, {Cloned(x, i) : i \in {A.S[s].inst} \cup Range(A.S[s].fused)})
ReplaceByStream(x, A, s, isAtomic) ==
  LET i == Cloned(x, FinalInst(A, s))
      b == x.inst[i].bb
      y == AddStreamLoadOrAtomic(PendingWithFused(x, A, s), A, s, i, b, IndexOf(x.code[b], i), isAtomic)
  IN ReplaceAllUses(y, i, LastInst(y))

(***************************************************************************)
(* Functions of values: enabled only when each stream they read is the     *)
(* chosen one of its instruction.                                          *)
(***************************************************************************)
ValueReady(A, s) == A.S[s].hasValue /\ \A b \in A.S[s].lsBase : IsChosenOf(A, b)
\* Of an update pair the load keeps the store's function.
\* Mutant: a store is removed although its function cannot be enabled.
HandleValueDG_Unready(x, A, s) ==
  LET i == Cloned(x, A.S[s].inst)
  IN IF ~A.S[s].hasValue \/ ~IsStore(A.r, A.S[s].inst) THEN x
     ELSE Pending([x EXCEPT !.func = @ \cup {<<s, "store">>}], {i})
HandleValueDG(x, A, s) ==
  LET owner == IF A.S[s].update = NoStream THEN s ELSE A.S[s].update
      i     == Cloned(x, A.S[s].inst)
      y     == [x EXCEPT !.func = @ \cup {<<owner, "store">>},
                         !.deps = @ \cup {<<b, owner>> : b \in (A.S[s].lsBase \ (IF owner = s THEN {} ELSE {owner}))}]
      unused == UsersOf(x, Cloned(x, FinalInst(A, s))) = {}
  IN IF ~ValueReady(A, s) THEN x
     ELSE IF IsStore(A.r, A.S[s].inst) THEN AddStreamStore(PendingWithFused(y, A, s), A, owner, i)
     ELSE ReplaceByStream([y EXCEPT !.noCore = @ \cup (IF unused THEN {s} ELSE {})], A, s, TRUE)

HandleFusedLoadOps(x, A, s) ==
  IF ~A.S[s].hasValue THEN x
  ELSE [Checked(x, ChosenDependents(A, s) = {}, "FusedLoadOps with other dependence") EXCEPT
          !.func = @ \cup {<<s, "load">>},
          !.deps = @ \cup {<<b, s>> : b \in A.S[s].lsBase}]
UpgradeLoadToUpdateStream(x, A, s) ==
  IF A.S[s].update = NoStream THEN x ELSE HandleValueDG(x, A, A.S[s].update)

\* load, insertelement into lane 0, shufflevector of lane 0: the load
\* broadcasts.
TheUser(x, i) == CHOOSE u \in UsersOf(x, i) : UsersOf(x, i) = {u}
SingleUser(x, i, op) ==
  /\ Cardinality(UsersOf(x, i)) = 1
  /\ x.inst[TheUser(x, i)].op = op
FuseLoadBroadcast(x, A, s) ==
  LET i == x.load[s]
      e == TheUser(x, i)
      v == TheUser(x, e)
      y == InsertBefore([x EXCEPT !.load = [@ EXCEPT ![s] = LastInst(x) + 1]], i, "ssp.load", <<>>, s)
  IN IF SingleUser(x, i, "insertelement") /\ SingleUser(x, e, "shufflevector")
     THEN Pending(ReplaceAllUses(y, v, LastInst(y)), {i, e, v}) ELSE x

(***************************************************************************)
(* Predicated stores of a value that does not change are merged into the   *)
(* load whose value decides.                                               *)
(***************************************************************************)
MayMergeStore(A, s, t) ==
  LET base(n) == A.S[n].base
      root(n) == A.S[n].root
  IN /\ Enabled(A.r, "merge")
     /\ IsChosenOf(A, t) /\ IsStore(A.r, A.S[t].inst)
     /\ root(s) # base(s) => Enabled(A.r, "merge-ind") /\ base(s) = base(t)
     /\ root(s) = root(t) /\ Cardinality(root(s)) = 1
     /\ ~InLoop(A.r, A.S[s].cfg, StoredValue(A.r, A.S[t].inst))
MergePredicatedStore(x, A, s, t, true) ==
  IF ~MayMergeStore(A, s, t) THEN x
  ELSE Pending([Checked(x, A.S[s].cfg = A.S[t].cfg, "Predicated streams should have same configure loop")
                  EXCEPT !.merged = @ \cup {[store |-> t, load |-> s, true |-> true]}],
               {Cloned(x, A.S[t].inst)})
MergePredicatedStreams(x, A, s) ==
  LET on(set) == Ascending({p[1] : p \in set})
      yes == FoldLeft(LAMBDA y, t : MergePredicatedStore(y, A, s, t, TRUE), x, on(A.S[s].predTrue))
  IN FoldLeft(LAMBDA y, t : MergePredicatedStore(y, A, s, t, FALSE), yes, on(A.S[s].predFalse))

TransformLoadInst(x, A, s) ==
  LET x1 == ReplaceByStream(x, A, s, FALSE)
      x2 == FuseLoadBroadcast(x1, A, s)
      x3 == HandleFusedLoadOps(x2, A, s)
      x4 == UpgradeLoadToUpdateStream(x3, A, s)
  IN MergePredicatedStreams(x4, A, s)
TransformMem(x, A, i) ==
  LET s == ChosenByInst(A, i) IN
    CASE s = NoStream -> x
      [] s # NoStream /\ IsLoad(A.r, i) -> TransformLoadInst(x, A, s)
      [] OTHER -> HandleValueDG(x, A, s)

(***************************************************************************)
(* Steps.                                                                  *)
(***************************************************************************)
Latches(r, l) == {b \in DOMAIN r.bb : LoopContains(r, l, r.bb[b].loop) /\ r.header[l] \in Succ(r, b)}
OrigDominates(r, a, b) ==
  b \notin Closure({Entry} \ {a}, LAMBDA c : Succ(r, c) \ {a}, Len(r.bb))
\* The blocks of the streams that depend on q; one in the step's own block
\* ends the search.
DependentBBs(A, q, stepBB) ==
  LET bbOf(s) == A.r.inst[A.S[s].inst].bb
      away(set) == {s \in set : bbOf(s) # stepBB}
      found == Closure(away(ChosenDependents(A, q)), LAMBDA s : away(ChosenDependents(A, s)), Len(A.S))
  IN {bbOf(s) : s \in found}
ReachesBefore(r, from, to, latch) ==
  to \in Closure({from}, LAMBDA c : IF c = latch THEN {} ELSE Succ(r, c), Len(r.bb))
FindStepPosition(A, q, stepBB) ==
  LET latches == Latches(A.r, A.S[q].inner)
      latch == CHOOSE b \in latches : TRUE
  IN IF Cardinality(latches) # 1 THEN [bb |-> stepBB, ok |-> FALSE]
     ELSE IF OrigDominates(A.r, stepBB, latch) THEN [bb |-> latch, ok |-> TRUE]
     ELSE [bb |-> stepBB,
           ok |-> \A b \in DependentBBs(A, q, stepBB) : ~ReachesBefore(A.r, stepBB, b, latch)]
\* The amount of a ternary step is the condition that the zext extends.
StepAmount(A, q) ==
  LET v == CHOOSE u \in A.S[q].steps \cup Range(A.S[q].path) : IsInst(A.r, u) /\ TernCheck(A.r, A.S[q], u)
  IN A.r.inst[A.r.inst[v].args[1]].args[1]
AddStreamStep(x, A, q, i) ==
  LET pos == FindStepPosition(A, q, A.r.inst[i].bb)
      y == Checked(Checked(x, pos.ok, "MemStream after Step"),
                   A.S[q].regionId < MaxStreamIdForStep, "Illegal RegionStreamId for StreamStep")
  IN IF A.S[q].ternary
     THEN InsertAtEnd(y, pos.bb, "ssp.step_amnt", <<Cloned(x, StepAmount(A, q))>>, q)
     ELSE InsertAtEnd(y, pos.bb, "ssp.step", <<>>, q)
TransformStepInst(x, A, i, streams) ==
  FoldLeft(LAMBDA y, q : AddStreamStep(y, A, q, i), x, Ascending(streams))

(***************************************************************************)
(* Inputs: what the simulator gets when a loop is configured.  An input is *)
(* a value, or a sum that has to be computed in the preheader.             *)
(***************************************************************************)
ValueInput(v) == [iv |-> {}, inv |-> {}, unk |-> {v}, off |-> 0]
Terms(e) == e.iv \cup e.inv \cup e.unk
\* A constant is part of the configuration.
IsStatic(e) == \A v \in Terms(e) : IsConst(v)
NonStreamInputs(A, s, g) == Ascending({v \in g.inputs : ExecFuncInputStream(A, s, v) = NoStream})
ValueFuncInputs(A, s, g) == Ascending({v \in g.inputs : ValueInputStream(A, s, v) = NoStream})
AsInputs(values) == [k \in DOMAIN values |-> ValueInput(values[k])]
\* Peeling the recurrences leaves what does not change in the loop.
AddRecStart(A, s, v) ==
  LET sum == Scev(A.r)[v]
      outside(p) == ~LoopContains(A.r, A.S[s].cfg, LoopOf(A.r, p))
  IN [sum EXCEPT !.iv = {p \in @ : outside(p)}, !.off = IF sum.iv = {} THEN @ ELSE 0]
AddRecOk(A, s, v) ==
  \A l \in LoopsUpTo(A.r, A.S[s].inner, A.S[s].cfg) \ {A.S[s].cfg} : TripCountInvariant(A.r, l, A.S[s].cfg)
InitValue(A, s) == CHOOSE v \in InitValues(A, A.S[s]) : TRUE

IVConfiguration(A, s) ==
  LET t == A.S[s]
      from == InitValue(A, s)
      reduce == t.val \in {"REDUCTION", "POINTER_CHASE"}
      linear == t.val = "LINEAR" /\ t.stp = "CONDITIONAL"
  IN IF IsAffinePhi(A.r, t.inst)
     THEN [ok |-> AddRecOk(A, s, t.inst), in |-> <<ValueInput(from)>>]
     ELSE IF reduce
     THEN [ok |-> TRUE, in |-> AsInputs((IF from = 1000 THEN <<>> ELSE <<from>>) \o NonStreamInputs(A, s, t.reduceDG))]
     ELSE [ok |-> linear, in |-> <<ValueInput(from)>>]

ExtraInputs(x, A, s) ==
  LET t == A.S[s]
      predicates == t.predTrue \cup t.predFalse # {}
      preds == FlattenSeq([k \in DOMAIN t.bbPreds |-> NonStreamInputs(A, s, t.bbPreds[k].g)])
      stored == \E m \in x.merged : m.store = s
      owner == IF IsLoad(A.r, t.inst) THEN t.update ELSE s
  IN AsInputs(IF predicates THEN preds ELSE <<>>)
       \o (IF stored THEN <<ValueInput(StoredValue(A.r, t.inst))>> ELSE <<>>)
       \o AsInputs(IF <<s, "store">> \in x.func
                   THEN ValueFuncInputs(A, owner, SliceWithFusedOp(A, A.S[owner].value, A.S[owner].lsBase)) ELSE <<>>)
       \o AsInputs(IF <<s, "load">> \in x.func /\ IsLoad(A.r, t.inst) THEN ValueFuncInputs(A, s, t.value) ELSE <<>>)
\* Streams of other loops serve an indirect one only when both step always.
SameLoops(A, s, b) == A.S[b].cfg = A.S[s].cfg /\ A.S[b].inner = A.S[s].inner
MemConfiguration(x, A, s) ==
  LET t == A.S[s]
      v == AddrOf(A.r, t.inst)
      uncond(n) == A.S[n].stp = "UNCONDITIONAL"
      more(c) == [c EXCEPT !.in = ExtraInputs(x, A, s) \o @]
  IN more(CASE t.val \in {"INDIRECT", "POINTER_CHASE"} ->
                 [ok |-> \A b \in t.base : SameLoops(A, s, b) \/ (uncond(s) /\ uncond(b)),
                  in |-> AsInputs(NonStreamInputs(A, s, AddrGraph(A, t)))]
            [] t.val = "LINEAR" /\ uncond(s) ->
                 [ok |-> IsAddRec(A.r, v) /\ AddRecOk(A, s, v), in |-> <<AddRecStart(A, s, v)>>]
            [] t.val = "LINEAR" /\ t.stp = "CONDITIONAL" ->
                 [ok |-> TRUE, in |-> AsInputs(Ascending(Scev(A.r)[v].inv))]
            [] OTHER -> [ok |-> FALSE, in |-> <<>>])

\* The sum is computed unless it is a value already.
AddInput(x, b, s, e) ==
  LET terms == Ascending({Cloned(x, v) : v \in Terms(e)})
      value == Len(terms) = 1 /\ e.off = 0
      y == IF value THEN x ELSE InsertAtEnd(x, b, "expand", terms, 0)
  IN IF IsStatic(e) THEN x
     ELSE InsertAtEnd(y, b, "ssp.input", <<IF value THEN terms[1] ELSE LastInst(y)>>, s)
AddInputs(x, b, s, in) == FoldLeft(LAMBDA y, e : AddInput(y, b, s, e), x, in)

ConfigureStream(x, A, b, s) ==
  LET c == IF A.S[s].isIV THEN IVConfiguration(A, s) ELSE MemConfiguration(x, A, s)
  IN AddInputs(Checked(x, c.ok, "Can't handle this Stream"), b, s, c.in)

(***************************************************************************)
(* StaticStreamLoopBoundBuilder: the condition of the single latch as a    *)
(* function that tells the simulator when the loop ends.                   *)
(***************************************************************************)
LatchGraph(A, l) ==
  BranchGraph(A.r, l, CHOOSE b \in Latches(A.r, l) : TRUE, StreamInsts(A))
IsStreamLoopBound(A, l) ==
  LET p == LatchGraph(A, l) IN
    /\ Conditional(A.r, p.bb) /\ p.valid /\ IsValidLoopBoundPredicate(A.r, p)
    /\ \A v \in InLoopInputs(A.r, l, p.g) :
         LET s == ChosenWithPlaceholder(A, v) IN s # NoStream /\ LoopContains(A.r, l, A.S[s].cfg)
BuildStreamLoopBound(x, A, b, l) ==
  LET p == LatchGraph(A, l) IN
    IF \/ ~Enabled(A.r, "loop-bound") \/ TripCountInvariant(A.r, l, l)
       \/ Cardinality(Latches(A.r, l)) # 1 \/ Len(A.r.bb[p.bb].succ) # 2
    THEN x
    ELSE IF ~IsStreamLoopBound(A, l) THEN x
    ELSE AddInputs([x EXCEPT !.bound = @ \cup {[loop |-> l, ret |-> p.true # A.r.header[l]]}],
                   b, 0, AsInputs(Ascending(p.g.inputs \ InLoopInputs(A.r, l, p.g))))

(***************************************************************************)
(* Configuration in the preheader, StreamEnd on every way out.             *)
(***************************************************************************)
InsertStreamConfigAtLoop(x, A, l, sorted) ==
  LET b  == Preheader(A.r, x, l)
      x1 == InsertAtEnd([x EXCEPT !.config = @ @@ (l :> b)], b, "ssp.config", <<>>, l)
      x2 == FoldLeft(LAMBDA y, s : ConfigureStream(y, A, b, s), x1, sorted)
      x3 == BuildStreamLoopBound(x2, A, b, l)
  IN InsertAtEnd(x3, b, "ssp.ready", <<>>, l)

\* The value of an induction variable after the loop: the one of the last
\* iteration if the program uses it, else the one before.
LastValues(A, s) ==
  LET in == {v \in Range(A.r.inst[A.S[s].inst].args) : InLoop(A.r, A.S[s].inner, v)}
  IN {v \in in : \E k \in DOMAIN A.r.inst[A.S[s].inst].args :
        A.r.inst[A.S[s].inst].args[k] = v /\ A.r.inst[A.S[s].inst].from[k] = A.r.inst[v].bb}
OutsideUsers(A, x, l, v) == {u \in UsersOf(x, Cloned(x, v)) : x.inst[u].bb \notin LoopBlocks(A.r, x, l)}
ExitInst(A, x, s) ==
  LET used == {v \in LastValues(A, s) : OutsideUsers(A, x, A.S[s].inner, v) # {}}
  IN IF A.S[s].val = "REDUCTION" THEN A.S[s].reduce
     ELSE IF used # {} THEN CHOOSE v \in used : TRUE ELSE A.S[s].inst
\* A reduction that nothing else uses is left to the simulator.
ReductionInsts(A, x, s) == {Cloned(x, v) : v \in {A.S[s].inst} \cup A.S[s].reduceDG.calc}
DropReduction(x, A, s) ==
  LET insts == ReductionInsts(A, x, s)
      complete == \A i \in insts : UsersOf(x, i) \subseteq insts \cup x.removed
      undef == FoldLeft(LAMBDA y, i : ReplaceAllUses(y, i, Undef), x, Ascending(insts))
  IN IF A.S[s].val = "REDUCTION" /\ complete
     THEN [Pending(undef, insts) EXCEPT !.noCore = @ \cup {s}] ELSE x
\* Mutant: the users that are about to be removed keep the value alive.
ExitUsers_Pending(A, x, s, v) == OutsideUsers(A, x, A.S[s].inner, v)
ExitUsers(A, x, s, v) ==
  LET all == OutsideUsers(A, x, A.S[s].inner, v) IN IF all \subseteq x.removed THEN {} ELSE all
InsertStreamExitValueUser(x, A, s) ==
  LET v     == ExitInst(A, x, s)
      i     == Cloned(x, v)
      users == ExitUsers(A, x, s, v)
      y     == FormDedicatedExitBlocks(A.r, x, A.S[s].inner)
      exits == ExitBlocks(A.r, y, A.S[s].inner)
      b     == CHOOSE e \in exits : TRUE
      z     == AddStreamLoadOrAtomic(y, A, s, i, b, FirstNonPHI(y, b), FALSE)
      used  == [z EXCEPT !.exit = @ \cup {[s |-> s, inst |-> LastInst(y) + 1, bb |-> b,
                                           last |-> v # A.S[s].inst]}]
  IN IF ~A.S[s].isIV \/ users = {} THEN x
     ELSE IF Cardinality(exits) # 1 THEN Checked(y, FALSE, "Failed to GetExitBB")
     ELSE DropReduction(ReplaceUsesIn(used, users, i, LastInst(z)), A, s)
InsertStreamEndAtLoop(x, A, l, sorted) ==
  LET y == FormDedicatedExitBlocks(A.r, x, l)
      end(z, b) == InsertFirst([z EXCEPT !.ends[l] = @ \cup {LastInst(z) + 1}], b, "ssp.end", <<>>, l)
      z == FoldLeft(end, [y EXCEPT !.ends = @ @@ (l :> {})], Ascending(ExitBlocks(A.r, y, l)))
  IN FoldLeft(LAMBDA w, s : InsertStreamExitValueUser(w, A, s), z, sorted)
ConfigureStreamsAtLoop(x, A, l, sorted) ==
  LET y == GetOrCreatePreheader(A.r, x, l)
      z == Checked(y, Cardinality(DOMAIN x.config) < MaxConfiguredLoops, "Too many configured streams")
  IN IF sorted = <<>> THEN y
     ELSE InsertStreamEndAtLoop(InsertStreamConfigAtLoop(z, A, l, sorted), A, l, sorted)
===============================================================================
