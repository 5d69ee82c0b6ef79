---------------------- MODULE StreamExecutionTransformer ----------------------
(***************************************************************************)
(* StreamExecutionTransformer: after the analysis of a region the clone of *)
(* the program is rewritten instruction by instruction, then loop by loop, *)
(* and at last cleaned, so that the streams the analysis chose do what the *)
(* instructions did.                                                       *)
(***************************************************************************)
EXTENDS StaticStreamRegion, StreamLoops

VARIABLES x,       \* the clone and what the transformer knows of it
          stage,   \* the part of transformStreamRegion that is under way
          left     \* the instructions, loops or streams it has still to visit
transformerVars == <<x, stage, left>>
allVars == <<vars, transformerVars>>

Sorted == [l \in Loops(region) |-> info[l].sorted]
\* Loops from the inside out; the stack of the configuration visits the
\* last sub loop first.
ConfigureOrder(r) == Reverse(LoopsInwards(r, TopLoop))
RECURSIVE InnerFirst(_, _)
InnerFirst(r, l) ==
  LET subs == Ascending(SubLoops(r, l))
  IN FlattenSeq([k \in DOMAIN subs |-> InnerFirst(r, subs[k])]) \o <<l>>
NextStage(s, work) == stage' = s /\ left' = work
Proceed(s, work) ==
  IF Len(left) = 1 THEN NextStage(s, work) ELSE NextStage(stage, Tail(left))

StartTransform ==
  /\ stage = "analyze" /\ At("coalesce")
  /\ x' = [CloneModule(region) EXCEPT !.noCore = {s \in DOMAIN S : S[s].noCoreUser}]
  /\ NextStage("inst", Ascending(InsideTop(region)))
  /\ UNCHANGED vars
TransformInst(y, A, i) ==
  LET z == TransformMem(y, A, i)
  IN IF plan[i].kind = "STEP" THEN TransformStepInst(z, A, i, plan[i].step) ELSE z
TransformNextInst ==
  /\ stage = "inst"
  /\ x' = TransformInst(x, Analysis, Head(left))
  /\ Proceed("configure", ConfigureOrder(region))
  /\ UNCHANGED vars
ConfigureNextLoop ==
  /\ stage = "configure"
  /\ x' = ConfigureStreamsAtLoop(x, Analysis, Head(left), info[Head(left)].sorted)
  /\ CoalesceStreamsAtLoop(Head(left))
  /\ Proceed("nest", InnerFirst(region, TopLoop))
NestNextLoop ==
  /\ stage = "nest"
  /\ x' = IF Enabled(region, "nest") THEN BuildNestStreamsForLoop(Analysis, x, Head(left), Sorted) ELSE x
  /\ Proceed("eliminate", InnerFirst(region, TopLoop))
  /\ UNCHANGED vars
EliminateNextLoop ==
  /\ stage = "eliminate"
  /\ x' = IF Enabled(region, "eliminate") THEN TryEliminateLoop(Analysis, x, Head(left)) ELSE x
  /\ Proceed("clean", <<>>)
  /\ UNCHANGED vars
CleanClonedModule ==
  /\ stage = "clean"
  /\ \E y \in {ClearStreamLoads(IF x.removed = {} THEN x ELSE EliminateDeadCode(RemovePendingInsts(x)))} :
       /\ x' = y
       /\ NextStage("propagate", Ascending(NoCoreUserSeeds(Analysis, y)))
  /\ UNCHANGED vars
\* The queue is filled from an unordered map and unordered sets, so that any
\* stream on it may be next; one that is left out may be queued again.
PropagateNoCoreUser ==
  /\ stage = "propagate"
  /\ \E k \in DOMAIN left :
       LET s == left[k] IN
         IF ~BackDependentsAllow(Analysis, x, s) THEN left' = RemoveAt(left, k) /\ UNCHANGED x
         ELSE /\ x' = [x EXCEPT !.noCore = @ \cup {s}]
              /\ left' = RemoveAt(left, k) \o Ascending(NoCoreUserBases(Analysis, x, s))
  /\ UNCHANGED <<vars, stage>>
FinishTransform ==
  /\ stage = "propagate" /\ left = <<>>
  /\ EndTransform
  /\ NextStage("done", <<>>) /\ UNCHANGED x

TransformerInit == Init /\ x = <<>> /\ stage = "analyze" /\ left = <<>>
TransformerNext ==
  \/ stage = "analyze" /\ AnalyzeRegion /\ UNCHANGED transformerVars
  \/ StartTransform \/ TransformNextInst \/ ConfigureNextLoop
  \/ NestNextLoop \/ EliminateNextLoop
  \/ CleanClonedModule \/ PropagateNoCoreUser \/ FinishTransform
TransformerSpec == TransformerInit /\ [][TransformerNext]_allVars

(***************************************************************************)
(* Properties of the program that is written.                              *)
(***************************************************************************)
Written == stage = "done"
Kept == LET live == LiveBlocks(x)
        IN {i \in DOMAIN x.inst \ x.gone : x.inst[i].bb \in live}
IsOriginal(v) == v \in DOMAIN region.inst

\* No assertion of the transformer fails: every stream that is configured
\* has a pattern that can be expressed, no step comes before a stream that
\* depends on it, every loop whose last value is read has a single exit,
\* and all instructions that are to be removed lose their last use.
TransformAsserts == Written => x.bad = {}

\* What an inserted instruction stands for: the last of the values a load
\* is fused with, the broadcast of a load, or an exit value.
BroadcastOf(i) ==
  {v \in DOMAIN region.inst :
     /\ Op(region, v) = "shufflevector"
     /\ \E e \in Args(region, v) : IsInst(region, e) /\ Op(region, e) = "insertelement" /\ i \in Args(region, e)}
Stands(v) ==
  LET s == x.inst[v].s
      of == {e \in x.exit : e.inst = v}
      core == CoreInst(S[s])
  IN IF of # {} THEN IF \A e \in of : ~e.last THEN {S[s].inst}
                     ELSE IF S[s].val = "REDUCTION" THEN {S[s].reduce} ELSE LastValues(Analysis, s)
     ELSE IF x.inst[v].op = "ssp.load" /\ x.load[s] = v /\ BroadcastOf(core) \cap x.removed # {} THEN BroadcastOf(core) ELSE {core}
Means(v) ==
  IF v \notin DOMAIN x.inst \/ IsOriginal(v) THEN {v}
  ELSE LET u == IF x.inst[v].op = "trunc" THEN x.inst[v].args[1] ELSE v
       IN IF x.inst[u].op \in {"ssp.load", "ssp.atomic"} THEN Stands(u) ELSE {}
\* No value is mixed up or lost: whatever an instruction of the program
\* that stays uses, is what it used before, read from the stream of the
\* instruction that computed it or from the exit value of its stream.
ValuesPreserved ==
  Written => \A i \in {j \in Kept : IsOriginal(j)} :
    (x.inst[i].op = "phi" => Len(x.inst[i].args) = Len(region.inst[i].args))
      => \A k \in DOMAIN x.inst[i].args : region.inst[i].args[k] \in Means(x.inst[i].args[k])

\* The program stays well formed: each operand is computed on every way to
\* its use, before it, by an instruction that is still there.
Dominated ==
  Written =>
    LET kept == Kept
        at(i) == IndexOf(x.code[x.inst[i].bb], i)
        dom == Table([b \in DOMAIN x.bb |-> {c \in LiveBlocks(x) : Dominates(x, b, c)}])
        before(v, i) == IF x.inst[v].bb = x.inst[i].bb THEN at(v) < at(i)
                        ELSE x.inst[i].bb \in dom[x.inst[v].bb]
        fine(v, i, k) == IF x.inst[i].op = "phi" THEN x.inst[i].from[k] \in dom[x.inst[v].bb]
                         ELSE before(v, i)
    IN \A i \in kept : \A k \in DOMAIN x.inst[i].args :
         LET v == x.inst[i].args[k] IN
           v \in DOMAIN x.inst => v \in kept /\ fine(v, i, k)

\* No effect is lost: a store, an atomic or a call stays, or gives way to a
\* chosen stream, its own or that of the load it is paired with.  Excepted
\* are atomics left in an eliminated loop: canLoopBeEliminated() asks for
\* calls and stores only (StreamLoopEliminator.cpp:183-210), and they go.
EffectsPreserved ==
  Written => \A i \in InsideTop(region) :
    (Op(region, i) = "call" \/ IsStore(region, i) \/ IsAtomic(region, i))
      => \/ i \in Kept
         \/ /\ i \in x.removed
            /\ \E s \in StreamsOf(Analysis, i) : \E t \in {s, S[s].update} \ {NoStream} : S[t].chosen
         \/ IsAtomic(region, i) /\ i \notin x.removed /\ region.inst[i].bb \in x.elimBB

\* What is left of the program, with the streams it is given, does what the
\* program did.
ProgramPreserved == ValuesPreserved /\ Dominated /\ EffectsPreserved

(***************************************************************************)
(* The life of the configured streams along the ways through the program.  *)
(* A nested loop is configured whenever its outer loop starts an iteration.*)
(***************************************************************************)
NestedIn(l) == {n \in x.nest : n.outer = l}
\* It is due until the way comes to its preheader.
OpenAt(st, b) ==
  LET in == UNION {NestedIn(l) : l \in {k \in st.on : region.header[k] = b}}
      stale(n) == n.pred = 0 /\ (n.inner \in st.due \/ (n.inner \in st.on /\ n.inner \notin x.elim))
      loops == {n.inner : n \in in}
  IN [st EXCEPT !.on = @ \cup loops, !.due = (@ \cup loops) \ {n.inner : n \in {m \in x.nest : x.config[m.inner] = b}},
                !.ok = @ /\ ~\E n \in in : stale(n)]
RECURSIVE Inside(_)
Inside(l) == {l} \cup UNION {Inside(n.inner) : n \in NestedIn(l)}
RunInst(st, i) ==
  LET op == x.inst[i].op
      s == x.inst[i].s
      missed == \E n \in x.nest : n.pred = 0 /\ n.inner \in st.due \cap Inside(s)
  IN CASE op = "ssp.config" -> [st EXCEPT !.on = @ \cup {s}, !.ok = @ /\ s \notin st.on]
       [] op = "ssp.end" -> [on |-> st.on \ Inside(s), due |-> st.due \ Inside(s),
                             ok |-> st.ok /\ s \in st.on /\ ~missed]
       [] op \in {"ssp.load", "ssp.step", "ssp.step_amnt", "ssp.store", "ssp.atomic"} ->
            [st EXCEPT !.ok = @ /\ S[s].cfg \in st.on]
       [] op = "ret" -> [st EXCEPT !.ok = @ /\ st.on = {}]
       [] OTHER -> st
RunBlock(on, due, b, kept) ==
  FoldLeft(LAMBDA st, i : IF i \in kept THEN RunInst(st, i) ELSE st,
           OpenAt([on |-> on, due |-> due, ok |-> TRUE], b), x.code[b])
\* On every way through the program a loop's streams are read, stepped and
\* stored to only between the configuration of the loop and its StreamEnd,
\* no loop is configured twice without an end in between, and none is left
\* configured at the return; a loop whose configuration has moved into an
\* outer one is entered just once for each of its configurations.
ConfiguredWhileUsed ==
  Written =>
    LET kept == Kept
        run(p) == RunBlock(p[1], p[2], p[3], kept)
        all == Closure({<<{}, {}, Entry>>}, LAMBDA p : LET st == run(p) IN
                         IF st.ok THEN {<<st.on, st.due, c>> : c \in SuccOf(x, p[3])} ELSE {},
                       4 * Len(x.bb))
    IN \A p \in all : run(p).ok

\* No store is lost, and none is left to both the core and a stream: one that
\* stays has no StreamStore, and one that is removed has exactly one, on its
\* own stream or that of the load it is paired with, with the function that
\* computes its value.  A store merged into the load that predicates it
\* (1352-1364) keeps the StreamStore handleValueDG() inserts for its value
\* (1439-1456): it is named to the load once at most, and not instead.
StoresDone ==
  Written => \A i \in {j \in InsideTop(region) : IsStore(region, j) /\ region.inst[j].bb \notin x.elimBB} :
    LET s == ChosenByInst(Analysis, i)
        own == IF s = NoStream THEN StreamsOf(Analysis, i) ELSE {s}
        owners == own \cup {S[t].update : t \in own}
        placed == {k \in Kept : x.inst[k].op = "ssp.store" /\ x.inst[k].s \in owners}
        merged == {m \in x.merged : m.store \in own}
    IN IF i \in Kept THEN placed = {} /\ merged = {}
       ELSE /\ Cardinality(placed) = 1 /\ Cardinality(merged) <= 1
            /\ \A k \in placed : <<x.inst[k].s, "store">> \in x.func

\* A memory stream is told to have no core user only if the program that is
\* written does not read it any more.
NoCoreUserSound ==
  Written =>
    LET kept == Kept IN
    \A i \in kept : (x.inst[i].op \in {"ssp.load", "ssp.atomic"} /\ UsersOf(x, i) \cap kept # {})
                       => x.inst[i].s \notin {s \in x.noCore : ~S[s].isIV}

\* "All InnerStreams and OuterStreams have known trip count"
\* (StaticNestStreamBuilder.cpp:62): a loop is nested into another only if
\* it is known at the configuration how often both run.
NestTripCountsKnown ==
  Written => \A n \in x.nest : \A s \in Range(Sorted[n.inner]) \cup Range(Sorted[n.outer]) :
               IsTripCountFixed(Analysis, S[s])
===============================================================================
