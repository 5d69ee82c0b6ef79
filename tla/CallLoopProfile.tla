-------------------------- MODULE CallLoopProfile --------------------------
(***************************************************************************)
(* From an execution to simulation intervals.  The tracer records the      *)
(* instructions a thread executes (BasicBlockTracer) and their block       *)
(* counts (FixedSizeIntervalProfileLogger).  Later the simpoint pass reads *)
(* the recording back, builds the call-loop profile of the program         *)
(* (CallLoopProfileTree), selects edges of it as phase marks, cuts the     *)
(* recording into intervals at the marks and inserts the marks into the    *)
(* program (SimpointIntervalSelectPass).                                   *)
(***************************************************************************)
EXTENDS ProfileLogger, Integers, FiniteSets, FiniteSetsExt, SequencesExt

CONSTANTS
  Inst,                  \* instructions of the program
  Null,                  \* no instruction; as a region, the root
  Kind,                  \* "op", "br", "switch", "call", "icall" or "ret"
  Succ,                  \* successors in the same function
  Callee,                \* first instructions of the functions a call may enter
  RegionInst,            \* first instruction of the innermost loop or function
  BlockOf,               \* first instruction of the basic block
  Starts,                \* where a thread may be when recording starts
  CandidateMinInst, IntervalMinInst,    \* options of CallLoopProfileTree
  BufferLimit,           \* of BasicBlockTracer
  MaxInst, MaxDepth      \* bounds: executed instructions, pending calls

ASSUME ProgramAssumption ==
  /\ Null \notin Inst /\ Starts \subseteq Inst
  /\ Kind \in [Inst -> {"op", "br", "switch", "call", "icall", "ret"}]
  /\ Succ \in [Inst -> SUBSET Inst] /\ Callee \in [Inst -> SUBSET Inst]
  /\ RegionInst \in [Inst -> Inst] /\ BlockOf \in [Inst -> Blocks]
  /\ {CandidateMinInst, IntervalMinInst} \subseteq Nat \ {0}
  /\ {BufferLimit, MaxInst, MaxDepth} \subseteq Nat

VARIABLES
  phase,               \* "record", "build", "cut", "done"
  at, pending,         \* the program: next instruction, return addresses
  executed,            \* and what it has executed
  bufferedBB, file,    \* BasicBlockTracer
  profile,             \* FixedSizeIntervalProfileLogger
  pos,                 \* instructions read back (GlobalInstCount)
  regionStack, prevInst,
  edges,               \* edge -> when it was traversed, <<first, last>>
  edgeTimeline,
  selectedEdges,
  cuts,                           \* points of the timeline cut at
  lhs, rhs, rhsMark, nextPoint,   \* locals of generateProfileInterval
  logger                          \* and its ProfileLogger

program  == <<at, pending, executed>>
recorder == <<bufferedBB, file, profile>>
tree     == <<regionStack, prevInst, edges, edgeTimeline>>
selected == <<selectedEdges, cuts>>
cutter   == <<lhs, rhs, rhsMark, nextPoint, logger>>
vars == <<phase, program, recorder, pos, tree, selected, cutter>>

Frame(n, count, bridge) == [node |-> n, first |-> count, recur |-> count, bridge |-> bridge]
Edge(from, bridge, to)  == [from |-> from, bridge |-> bridge, to |-> to]

Init ==
  /\ phase = "record"
  /\ at \in Starts /\ pending = <<>> /\ executed = <<>>
  /\ bufferedBB = <<>> /\ file = <<>> /\ profile = NewLogger
  /\ pos = 0
  /\ regionStack = <<Frame(Null, 0, Null)>> /\ prevInst = Null
  /\ edges = [e \in {} |-> {}] /\ edgeTimeline = <<>>
  /\ selectedEdges = {} /\ cuts = {}
  /\ lhs = 0 /\ rhs = 0 /\ rhsMark = 0 /\ nextPoint = 0 /\ logger = NewLogger

-----------------------------------------------------------------------------
(* The program runs and printInst records it *)

(* Where control may be after instruction i, with the calls then pending.   *)
After(i) ==
  IF Kind[i] \in {"call", "icall"}
  THEN IF Len(pending) = MaxDepth THEN {}
       ELSE Callee[i] \X {Append(pending, ret) : ret \in Succ[i]}
  ELSE IF Kind[i] = "ret"
  THEN {IF pending = <<>> THEN <<Null, pending>> ELSE <<Last(pending), Front(pending)>>}
  ELSE Succ[i] \X {pending}

(* Mutant: the buffer written is not cleared. *)
AddInst_KeepsBuffer(i) ==
  /\ bufferedBB' = Append(bufferedBB, i)
  /\ file' = IF Len(bufferedBB') > BufferLimit THEN file \o bufferedBB' ELSE file

(* BasicBlockTracer::addInst: a full buffer is written. *)
AddInst(i) ==
  LET b == Append(bufferedBB, i) IN
  IF Len(b) > BufferLimit
  THEN file' = file \o b /\ bufferedBB' = <<>>
  ELSE bufferedBB' = b /\ UNCHANGED file

PrintInst ==
  /\ phase = "record" /\ at # Null /\ Len(executed) < MaxInst
  /\ \E next \in After(at) : at' = next[1] /\ pending' = next[2]
  /\ executed' = Append(executed, at)
  /\ profile' = LogInstFixed(profile, BlockOf[at])
  /\ AddInst(at)
  /\ UNCHANGED <<phase, pos, tree, selected, cutter>>

(* The process may exit at any time; cleanup writes what is buffered. *)
Exit ==
  /\ phase = "record"
  /\ phase' = "build"
  /\ file' = file \o bufferedBB
  /\ bufferedBB' = <<>>
  /\ UNCHANGED <<program, profile, pos, tree, selected, cutter>>

-----------------------------------------------------------------------------
(* CallLoopProfileTree::addInstruction *)

Top == Last(regionStack)

AddEdge(es, e) == [x \in DOMAIN es \cup {e} |-> IF x \in DOMAIN es THEN es[x] ELSE {}]

(* The recursive edge of a node is counted like the others. *)
AddCount(es, e, first) == [AddEdge(es, e) EXCEPT ![e] = @ \cup {<<first, pos>>}]

(* The edge through which the k-th frame of the stack was entered. *)
EdgeInto(k) ==
  Edge(regionStack[k - 1].node, regionStack[k].bridge, regionStack[k].node)

(* Mutant: the frame always gets the last instruction as its bridge. *)
Push_BridgeOfFrame(k, es, r, bridge) ==
  LET e == Edge(regionStack[k].node, bridge, r) IN
  /\ regionStack' = Append(SubSeq(regionStack, 1, k), Frame(r, pos, prevInst))
  /\ edges' = AddEdge(es, e)
  /\ edgeTimeline' = Append(edgeTimeline, [edge |-> e, inst |-> pos])

(* Enter a region on top of the first k frames. *)
Push(k, es, r, bridge) ==
  LET e == Edge(regionStack[k].node, bridge, r) IN
  /\ regionStack' = Append(SubSeq(regionStack, 1, k), Frame(r, pos, bridge))
  /\ edges' = AddEdge(es, e)
  /\ edgeTimeline' = Append(edgeTimeline, [edge |-> e, inst |-> pos])

(* Mutant: a frame popped is counted from its last iteration. *)
Pop_CountsLastIteration(k) ==
  [e \in DOMAIN edges |-> edges[e] \cup
     {<<regionStack[j].recur, pos>> :
        j \in {j \in k + 1 .. Len(regionStack) : EdgeInto(j) = e}}]

(* The edges once every frame above the k-th has been popped.  An InstCount *)
(* is kept as the instructions it is the distance of.                       *)
Pop(k) ==
  [e \in DOMAIN edges |-> edges[e] \cup
     {<<regionStack[j].first, pos>> :
        j \in {j \in k + 1 .. Len(regionStack) : EdgeInto(j) = e}}]

SameRegion(i) ==
  /\ RegionInst[i] = Top.node
  /\ IF i = RegionInst[i]
     THEN /\ edges' = AddCount(edges, Edge(i, i, i), Top.recur)
          /\ regionStack' = [regionStack EXCEPT ![Len(regionStack)].recur = pos]
     ELSE UNCHANGED <<edges, regionStack>>
  /\ UNCHANGED edgeTimeline

NewRegion(i) ==
  /\ RegionInst[i] # Top.node /\ i = RegionInst[i]
  /\ Push(Len(regionStack), edges, i, prevInst)

(* The innermost frame of region r above the root. *)
FrameOf(r) ==
  {k \in 2 .. Len(regionStack) :
     /\ regionStack[k].node = r
     /\ \A j \in k + 1 .. Len(regionStack) : regionStack[j].node # r}

(* Back in a region entered before, or, if none is left, in one below root. *)
OldRegion(i) ==
  /\ RegionInst[i] # Top.node /\ i # RegionInst[i]
  /\ IF FrameOf(RegionInst[i]) = {}
     THEN Push(1, Pop(1), RegionInst[i], Null)
     ELSE \E k \in FrameOf(RegionInst[i]) :
            /\ regionStack' = SubSeq(regionStack, 1, k)
            /\ edges' = Pop(k)
            /\ UNCHANGED edgeTimeline

AddInstruction ==
  /\ phase = "build" /\ pos < Len(file)
  /\ LET i == file[pos + 1] IN
     /\ SameRegion(i) \/ NewRegion(i) \/ OldRegion(i)
     /\ prevInst' = i
  /\ pos' = pos + 1
  /\ UNCHANGED <<phase, program, recorder, selected, cutter>>

-----------------------------------------------------------------------------
(* CallLoopProfileTree::selectEdges *)

InEdges(n)  == {e \in DOMAIN edges : e.to = n /\ e.from # n}
OutEdges(n) == {e \in DOMAIN edges : e.from = n /\ e.to # n}

(* The statistics of the root's edges are never aggregated: they stay 0. *)
InstCount(t) == t[2] - t[1]
AvgInstCount(e) ==
  IF e.from = Null \/ edges[e] = {} THEN 0
  ELSE MapThenSumSet(InstCount, edges[e]) \div Cardinality(edges[e])

CandidateEdges ==
  {e \in UNION {InEdges(n) : n \in Inst} : AvgInstCount(e) >= CandidateMinInst}

(* The coefficient of variation is not computed: any candidates whose       *)
(* counts vary may be the ones above the threshold.                         *)
Varying(e) == \E t, u \in edges[e] : InstCount(t) # InstCount(u)

IsIndirect(i) == Kind[i] = "icall"

Callees(e) == {x \in OutEdges(e.from) : x.bridge = e.bridge}

Markable(e) ==
  /\ e.bridge # Null /\ e.from # Null
  /\ ~ /\ IsIndirect(e.bridge)
       /\ Cardinality(Callees(e)) > 1 /\ Cardinality(InEdges(e.to)) > 1

(* The points of the timeline where a mark is executed, and the number of   *)
(* the mark at each (TraverseMarkCount).                                    *)
PointsOf(sel) == {k \in DOMAIN edgeTimeline : edgeTimeline[k].edge \in sel}
Points == PointsOf(selectedEdges)
MarkCount(k) == Cardinality({j \in Points : j < k})

(* Mutant: an interval may be one instruction short. *)
CutsOf_Short(ps) ==
  {c \in SUBSET ps : \A k \in ps :
     k \in c <=> \A j \in c : j < k =>
       edgeTimeline[k].inst - edgeTimeline[j].inst >= IntervalMinInst - 1}

(* Where to cut, of the points ps: at every point that is far enough from   *)
(* all earlier cuts, and so at the first.                                   *)
CutsOf(ps) ==
  {c \in SUBSET ps : \A k \in ps :
     k \in c <=> \A j \in c : j < k =>
       edgeTimeline[k].inst - edgeTimeline[j].inst >= IntervalMinInst}

(* Mutant: any later cut is taken for the next. *)
NextCut_Any(cs, k) == {c \in cs : c > k}

(* The first of the given cuts after the k-th point, if there is one. *)
NextCut(cs, k) == {c \in cs : c > k /\ \A j \in cs : j > k => c <= j}

SelectEdges ==
  /\ phase = "build" /\ pos = Len(file)
  /\ \E dropped \in SUBSET {e \in CandidateEdges : Varying(e)} :
       selectedEdges' = {e \in CandidateEdges \ dropped : Markable(e)}
  /\ cuts' \in CutsOf(PointsOf(selectedEdges'))
  /\ IF NextCut(cuts', 0) = {}
     THEN UNCHANGED <<lhs, rhs, nextPoint>>
     ELSE \E k \in NextCut(cuts', 0) :
            lhs' = edgeTimeline[k].inst /\ rhs' = lhs' /\ nextPoint' = k
  /\ phase' = "cut"
  /\ UNCHANGED <<program, recorder, pos, tree, rhsMark, logger>>

-----------------------------------------------------------------------------
(* SimpointIntervalSelectPass::generateProfileInterval *)

Due == logger.count >= rhs

(* Mutant: what comes before the first mark is not discarded. *)
Restart_KeepsStart ==
  IF ~Due \/ rhs = lhs THEN logger ELSE SaveAndRestartInterval(logger, rhsMark)

Restart ==
  IF ~Due THEN logger
  ELSE IF rhs > lhs THEN SaveAndRestartInterval(logger, rhsMark)
  ELSE DiscardAndRestartInterval(logger, rhsMark)

CutInterval ==
  /\ phase = "cut" /\ logger.count < Len(file)
  /\ logger' = LogInst(Restart, BlockOf[file[logger.count + 1]])
  /\ lhs' = IF Due THEN rhs ELSE lhs
  /\ IF Due /\ NextCut(cuts, nextPoint) # {}
     THEN \E k \in NextCut(cuts, nextPoint) :
            rhs' = edgeTimeline[k].inst /\ rhsMark' = MarkCount(k) /\ nextPoint' = k
     ELSE UNCHANGED <<rhs, rhsMark, nextPoint>>
  /\ UNCHANGED <<phase, program, recorder, pos, tree, selected>>

Finish ==
  /\ phase = "cut" /\ logger.count = Len(file)
  /\ phase' = "done"
  /\ UNCHANGED <<program, recorder, pos, tree, selected, cutter>>

Next == PrintInst \/ Exit \/ AddInstruction \/ SelectEdges \/ CutInterval \/ Finish

Spec == Init /\ [][Next]_vars

-----------------------------------------------------------------------------
(* SimpointIntervalSelectPass::insertEdgeMark *)

(* Mutant: a conditional branch is marked like an unconditional one. *)
MarkPlace_Conditional(e) ==
  CASE Kind[e.bridge] \in {"call", "br"} -> "bridge"
    [] Kind[e.bridge] = "icall" ->
         IF Cardinality(Callees(e)) = 1 THEN "bridge"
         ELSE IF Cardinality(InEdges(e.to)) = 1 THEN "block"
         ELSE "none"
    [] OTHER -> "none"

(* Where the mark of a selected edge goes: before its bridge, at the start  *)
(* of the bridge's block, or between bridge and destination (in a block of  *)
(* its own, or in a destination with no other predecessor).                 *)
MarkPlace(e) ==
  CASE Kind[e.bridge] = "call" -> "bridge"
    [] Kind[e.bridge] = "icall" ->
         IF Cardinality(Callees(e)) = 1 THEN "bridge"
         ELSE IF Cardinality(InEdges(e.to)) = 1 THEN "block"
         ELSE "none"
    [] Kind[e.bridge] = "br" ->
         IF Cardinality(Succ[e.bridge]) = 1 THEN "bridge" ELSE "between"
    [] OTHER -> "none"

(* Does the mark of e execute right before or after the p-th instruction?   *)
MarkFires(e, p) ==
  CASE MarkPlace(e) = "bridge"  -> file[p] = e.bridge
    [] MarkPlace(e) = "block"   -> file[p] = BlockOf[e.bridge]
    [] MarkPlace(e) = "between" -> file[p] = e.bridge /\ p < Len(file) /\ file[p + 1] = e.to
    [] OTHER -> FALSE

(* Marks the program executes together with its first n instructions. *)
MarksFired(n) == Cardinality({x \in selectedEdges \X (1 .. n) : MarkFires(x[1], x[2])})

-----------------------------------------------------------------------------
Edges  == [from : Inst \cup {Null}, bridge : Inst \cup {Null}, to : Inst]
Frames == [node : Inst \cup {Null}, first : Nat, recur : Nat, bridge : Inst \cup {Null}]

TypeOK ==
  /\ phase \in {"record", "build", "cut", "done"}
  /\ at \in Inst \cup {Null} /\ pending \in Seq(Inst)
  /\ executed \in Seq(Inst) /\ bufferedBB \in Seq(Inst) /\ file \in Seq(Inst)
  /\ profile \in Loggers /\ logger \in Loggers
  /\ pos \in 0 .. Len(file)
  /\ regionStack \in Seq(Frames) /\ prevInst \in Inst \cup {Null}
  /\ DOMAIN edges \subseteq Edges
  /\ edges \in [DOMAIN edges -> SUBSET (Nat \X Nat)]
  /\ edgeTimeline \in Seq([edge : DOMAIN edges, inst : Nat])
  /\ selectedEdges \subseteq DOMAIN edges
  /\ cuts \subseteq Points /\ nextPoint \in cuts \cup {0}
  /\ lhs \in Nat /\ rhs \in Nat /\ rhsMark \in Nat

CountBlocks(s, l, r) ==
  [b \in Blocks |-> Cardinality({p \in l + 1 .. r : BlockOf[s[p]] = b})]

(* The trace file holds what the thread executed, in order, although it is  *)
(* written in pieces (BasicBlockTracer.cpp:9-29).                           *)
RecordedInOrder ==
  /\ file \o bufferedBB = executed
  /\ phase # "record" => file = executed

(* The profile cuts the execution into intervals of INTERVAL_SIZE           *)
(* instructions; only those of the last, unfinished one are in no interval  *)
(* (ProfileLogger.cpp:114-125).                                             *)
FixedIntervals ==
  /\ Len(profile.saved) = Len(executed) \div IntervalSize
  /\ \A k \in DOMAIN profile.saved :
       profile.saved[k].lhs = (k - 1) * IntervalSize /\ profile.saved[k].rhs = k * IntervalSize

(* The tracer's profile and every interval saved, by it or by the pass, have *)
(* the block counts of exactly their instructions (ProfileLogger.cpp:8-42). *)
CountsExact ==
  /\ profile.total = CountBlocks(executed, 0, Len(executed))
  /\ \A k \in DOMAIN profile.saved :
       LET v == profile.saved[k] IN v.counts = CountBlocks(executed, v.lhs, v.rhs)
  /\ \A k \in DOMAIN logger.saved :
       LET v == logger.saved[k] IN v.counts = CountBlocks(file, v.lhs, v.rhs)

(* The intervals of the profile have their bounds and their counts.         *)
ProfileExact == FixedIntervals /\ CountsExact

(* "Failed to find Edge." (CallLoopProfileTree.cpp:286): the edge a frame   *)
(* was entered through is known when it is popped.  The region on top of    *)
(* the stack is that of the instruction added last, so that new edges start *)
(* where control came from; and below it are the regions entered earlier.   *)
StackSound ==
  /\ regionStack # <<>> /\ regionStack[1] = Frame(Null, 0, Null)
  /\ \A k \in 2 .. Len(regionStack) :
       /\ regionStack[k].node # Null /\ EdgeInto(k) \in DOMAIN edges
       /\ regionStack[k].first <= regionStack[k].recur /\ regionStack[k].recur < pos
       /\ \A j \in 2 .. k - 1 : regionStack[j].recur < regionStack[k].first
  /\ Top.node = (IF prevInst = Null THEN Null ELSE RegionInst[prevInst])

(* The times an edge was taken, those still open and those counted. *)
Taken(e)  == {edgeTimeline[p].inst : p \in {p \in DOMAIN edgeTimeline : edgeTimeline[p].edge = e}}
Open(e)   == {regionStack[k].first : k \in {k \in 2 .. Len(regionStack) : EdgeInto(k) = e}}
Closed(e) == {t[1] : t \in edges[e]}

(* Each time an edge is taken is counted once, from the first instruction   *)
(* of the region it enters to where control is back in a region below, or   *)
(* is still open.                                                           *)
EdgeCountsExact ==
  \A e \in {x \in DOMAIN edges : x.from # x.to} :
    /\ Taken(e) = Open(e) \cup Closed(e) /\ Open(e) \cap Closed(e) = {}
    /\ \A t, u \in edges[e] : t[1] = u[1] => t = u
    /\ \A t \in edges[e] :
         /\ t[1] < t[2] /\ t[2] < pos
         /\ RegionInst[file[t[1] + 1]] = e.to
         /\ RegionInst[file[t[2]]] # RegionInst[file[t[2] + 1]]

(* The k-th cut, in a set of its own. *)
Kth(k) == {c \in cuts : Cardinality({d \in cuts : d < c}) = k - 1}

(* The intervals are those between consecutive cuts, with the numbers of    *)
(* the marks at both ends, and none is missing when the whole recording has *)
(* been read (SimpointIntervalSelectPass.cpp:84-108).                       *)
IntervalsAtCuts ==
  /\ \A k \in DOMAIN logger.saved : \E c \in Kth(k), d \in Kth(k + 1) :
       LET v == logger.saved[k] IN
       <<v.lhs, v.rhs, v.lhsMark, v.rhsMark>> =
         <<edgeTimeline[c].inst, edgeTimeline[d].inst, MarkCount(c), MarkCount(d)>>
  /\ phase = "done" => Len(logger.saved) = Max({0, Cardinality(cuts) - 1})

(* assert(Logger.getCurrentIntervalLHS() == IntervalLHSInstCount)           *)
(* (SimpointIntervalSelectPass.cpp:89): whenever an interval is saved, the  *)
(* logger has counted from where the pass says it starts, up to exactly     *)
(* where it ends; and intervals follow each other without a gap.            *)
IntervalsContiguous ==
  /\ phase = "cut" /\ Due /\ rhs > lhs => logger.lhs = lhs /\ logger.count = rhs
  /\ \A k \in 1 .. Len(logger.saved) - 1 : logger.saved[k].rhs = logger.saved[k + 1].lhs

(* "Merge intervals that are too small": every interval has at least the    *)
(* requested number of instructions (CallLoopProfileTree.cpp:477-493).      *)
IntervalsLargeEnough ==
  \A k \in DOMAIN logger.saved :
    logger.saved[k].rhs - logger.saved[k].lhs >= IntervalMinInst

(* The marks inserted into the program are executed as the timeline numbers *)
(* them: when control reaches the m-th point, m marks have been executed.   *)
MarksMatch ==
  phase \in {"cut", "done"} =>
    \A k \in Points : MarksFired(edgeTimeline[k].inst) = MarkCount(k) + 1

(* What the proof of MarksMatch asks of the program (each excludes a call or *)
(* a branch for which the code does not place marks right): an indirect     *)
(* call has one target, a switch does not enter a region, and the header of *)
(* a region starts a block that no call returns to.                         *)
MarksPlaceable ==
  \A i \in Inst :
    /\ Kind[i] \in {"call", "icall"} => \A c, d \in Callee[i] : c = d
    /\ Kind[i] = "switch" => \A s \in Succ[i] : RegionInst[s] = s => s = RegionInst[i]
    /\ Kind[i] \in {"op", "call", "icall"} => \A s \in Succ[i] : RegionInst[s] # s
    /\ Kind[i] = "br" => IsFiniteSet(Succ[i])

(* The simulator, which counts the marks it executes, finds every interval  *)
(* again: it lies between two cuts, with the numbers of the marks there.    *)
IntervalsFound == IntervalsAtCuts /\ MarksMatch

=============================================================================
