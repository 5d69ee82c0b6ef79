----------------------- MODULE CallLoopProfileProofs -----------------------
(***************************************************************************)
(* Proofs about CallLoopProfile, for every program and every option.       *)
(***************************************************************************)
EXTENDS CallLoopProfile, SequenceTheorems, FiniteSetTheorems, TLAPS

(* What each phase leaves to the next. *)
PhaseInv ==
  /\ phase = "record" => pos = 0 /\ edges = [e \in {} |-> {}]
  /\ phase # "record" => bufferedBB = <<>>
  /\ phase \in {"record", "build"} =>
       /\ selectedEdges = {} /\ cuts = {} /\ nextPoint = 0
       /\ lhs = 0 /\ rhs = 0 /\ rhsMark = 0 /\ logger = NewLogger
  /\ phase \in {"cut", "done"} => pos = Len(file)

(* The recording up to pos is where the stack comes from. *)
ReadInv ==
  /\ prevInst = IF pos = 0 THEN Null ELSE file[pos]
  /\ \A k \in 2 .. Len(regionStack) :
       RegionInst[file[regionStack[k].first + 1]] = regionStack[k].node

(* At most one edge is taken before an instruction. *)
TimelineInv ==
  /\ \A p \in DOMAIN edgeTimeline : edgeTimeline[p].inst < pos
  /\ \A p, q \in DOMAIN edgeTimeline : p < q => edgeTimeline[p].inst < edgeTimeline[q].inst

At(k) == edgeTimeline[k].inst

(* Cuts are far apart; the pass stands between the cut it last passed, lhs, *)
(* and the next one, rhs, unless it is before the first or past the last.   *)
CutInv ==
  /\ \A j, k \in cuts : j < k => At(k) - At(j) >= IntervalMinInst
  /\ nextPoint = 0 => NextCut(cuts, nextPoint) = {} /\ lhs = 0 /\ rhs = 0
  /\ nextPoint # 0 => rhs = At(nextPoint)
  /\ lhs # rhs => /\ logger.lhs = lhs /\ logger.count <= rhs
                  /\ rhs - lhs >= IntervalMinInst
                  /\ \A n \in DOMAIN logger.saved :
                       n = Len(logger.saved) => logger.saved[n].rhs = lhs
  /\ lhs = rhs => \/ NextCut(cuts, nextPoint) = {}
                  \/ logger.count <= rhs /\ logger.saved = <<>>

IInv ==
  /\ TypeOK /\ PhaseInv /\ RecordedInOrder
  /\ StackSound /\ ReadInv /\ EdgeCountsExact
  /\ TimelineInv /\ CutInv /\ IntervalsContiguous /\ IntervalsLargeEnough

-----------------------------------------------------------------------------
(* What a logger does. *)

LEMMA NewLoggerType == NewLogger \in Loggers
  BY DEF NewLogger, NoCounts, Loggers, Counts

LEMMA LogInstType ==
  ASSUME NEW l \in Loggers, NEW b \in Blocks
  PROVE  /\ LogInst(l, b) \in Loggers
         /\ LogInst(l, b).count = l.count + 1
         /\ LogInst(l, b).lhs = l.lhs
         /\ LogInst(l, b).saved = l.saved
<1> DEFINE total == Increment(l.total, b)
           interval == Increment(l.interval, b)
           count == l.count + 1
<1>1. total \in Counts /\ interval \in Counts
  BY DEF Loggers, Counts, Increment
<1>2. count \in Nat /\ count = l.count + 1
  BY DEF Loggers
<1>3. LogInst(l, b) = [l EXCEPT !.total = total, !.interval = interval, !.count = count]
  BY DEF LogInst
<1> HIDE DEF total, interval, count
<1>4. QED
  BY <1>1, <1>2, <1>3 DEF Loggers

LEMMA DiscardType ==
  ASSUME NEW l \in Loggers, NEW mark \in Nat
  PROVE  /\ DiscardAndRestartInterval(l, mark) \in Loggers
         /\ DiscardAndRestartInterval(l, mark).count = l.count
         /\ DiscardAndRestartInterval(l, mark).lhs = l.count
         /\ DiscardAndRestartInterval(l, mark).saved = l.saved
<1>1. NoCounts \in Counts
  BY DEF NoCounts, Counts
<1>2. QED
  BY <1>1 DEF DiscardAndRestartInterval, Loggers

LEMMA SaveType ==
  ASSUME NEW l \in Loggers, NEW mark \in Nat
  PROVE  /\ SaveAndRestartInterval(l, mark) \in Loggers
         /\ SaveAndRestartInterval(l, mark).count = l.count
         /\ SaveAndRestartInterval(l, mark).lhs = l.count
         /\ \E v \in Intervals :
              /\ v.lhs = l.lhs /\ v.rhs = l.count
              /\ SaveAndRestartInterval(l, mark).saved = Append(l.saved, v)
<1> DEFINE v == [lhs |-> l.lhs, rhs |-> l.count, lhsMark |-> l.lhsMark,
                 rhsMark |-> mark, counts |-> l.interval]
<1>1. v \in Intervals /\ v.lhs = l.lhs /\ v.rhs = l.count
  BY DEF Loggers, Intervals
<1>2. l.saved \in Seq(Intervals)
  BY DEF Loggers
<1>3. Append(l.saved, v) \in Seq(Intervals)
  BY <1>1, <1>2
<1> DEFINE d == DiscardAndRestartInterval(l, mark)
<1>4. d \in Loggers /\ d.saved = l.saved /\ d.count = l.count /\ d.lhs = l.count
  BY DiscardType
<1>5. SaveAndRestartInterval(l, mark) = [d EXCEPT !.saved = Append(l.saved, v)]
  BY <1>4 DEF SaveAndRestartInterval, Loggers
<1> HIDE DEF v, d
<1>6. QED
  BY <1>1, <1>3, <1>4, <1>5 DEF Loggers

LEMMA LogInstFixedType ==
  ASSUME NEW l \in Loggers, NEW b \in Blocks
  PROVE  LogInstFixed(l, b) \in Loggers
  BY LogInstType, SaveType DEF LogInstFixed

-----------------------------------------------------------------------------
(* What AddEdge and Pop do to the edges. *)

EdgeMap(es) == DOMAIN es \subseteq Edges /\ es \in [DOMAIN es -> SUBSET (Nat \X Nat)]

LEMMA AddEdgeType ==
  ASSUME NEW es, EdgeMap(es), NEW e \in Edges
  PROVE  /\ EdgeMap(AddEdge(es, e))
         /\ DOMAIN AddEdge(es, e) = DOMAIN es \cup {e}
         /\ \A x \in DOMAIN es : AddEdge(es, e)[x] = es[x]
         /\ e \notin DOMAIN es => AddEdge(es, e)[e] = {}
<1>1. DOMAIN AddEdge(es, e) = DOMAIN es \cup {e}
  BY DEF AddEdge
<1>2. \A x \in DOMAIN es \cup {e} :
        AddEdge(es, e)[x] = IF x \in DOMAIN es THEN es[x] ELSE {}
  BY DEF AddEdge
<1>3. \A x \in DOMAIN es \cup {e} : AddEdge(es, e)[x] \in SUBSET (Nat \X Nat)
  BY <1>2 DEF EdgeMap
<1>4. AddEdge(es, e) \in [DOMAIN es \cup {e} -> SUBSET (Nat \X Nat)]
  BY <1>1, <1>3 DEF AddEdge
<1>5. QED
  BY <1>1, <1>2, <1>4 DEF EdgeMap

LEMMA AddCountType ==
  ASSUME NEW es, EdgeMap(es), NEW e \in Edges, NEW first \in Nat, pos \in Nat
  PROVE  /\ EdgeMap(AddCount(es, e, first))
         /\ DOMAIN AddCount(es, e, first) = DOMAIN es \cup {e}
         /\ \A x \in DOMAIN es : x # e => AddCount(es, e, first)[x] = es[x]
<1> DEFINE a == AddEdge(es, e)
<1>1. EdgeMap(a) /\ DOMAIN a = DOMAIN es \cup {e} /\ \A x \in DOMAIN es : a[x] = es[x]
  BY AddEdgeType
<1>2. AddCount(es, e, first) = [a EXCEPT ![e] = a[e] \cup {<<first, pos>>}]
  BY DEF AddCount
<1>3. a[e] \cup {<<first, pos>>} \in SUBSET (Nat \X Nat)
  BY <1>1 DEF EdgeMap
<1> HIDE DEF a
<1>4. QED
  BY <1>1, <1>2, <1>3 DEF EdgeMap

LEMMA StackType ==
  ASSUME TypeOK
  PROVE  /\ regionStack \in Seq(Frames) /\ Len(regionStack) \in Nat
         /\ \A k \in 1 .. Len(regionStack) :
              /\ regionStack[k] \in Frames
              /\ regionStack[k].first \in Nat /\ regionStack[k].recur \in Nat
              /\ regionStack[k].node \in Inst \cup {Null}
              /\ regionStack[k].bridge \in Inst \cup {Null}
<1>1. regionStack \in Seq(Frames) /\ Len(regionStack) \in Nat
  BY DEF TypeOK
<1>2. \A k \in 1 .. Len(regionStack) : regionStack[k] \in Frames
  BY <1>1
<1>3. QED
  BY <1>1, <1>2 DEF Frames

LEMMA PopType ==
  ASSUME TypeOK, NEW k \in 1 .. Len(regionStack)
  PROVE  EdgeMap(Pop(k)) /\ DOMAIN Pop(k) = DOMAIN edges
<1>1. pos \in Nat /\ EdgeMap(edges)
  BY DEF TypeOK, EdgeMap
<1>2. \A j \in 1 .. Len(regionStack) : regionStack[j].first \in Nat
  BY StackType
<1>3. DOMAIN Pop(k) = DOMAIN edges
  BY DEF Pop
<1>4. ASSUME NEW e \in DOMAIN edges
      PROVE  Pop(k)[e] \in SUBSET (Nat \X Nat)
  BY <1>1, <1>2 DEF Pop, EdgeMap
<1>5. Pop(k) \in [DOMAIN edges -> SUBSET (Nat \X Nat)]
  BY <1>3, <1>4 DEF Pop
<1>6. QED
  BY <1>1, <1>3, <1>5 DEF EdgeMap

-----------------------------------------------------------------------------
(* Recording *)

LEMMA InitInv == Init => IInv
<1> SUFFICES ASSUME Init PROVE IInv
  OBVIOUS
<1>0. Frame(Null, 0, Null) \in Frames
  BY DEF Frame, Frames
<1>1. TypeOK
  <2>1. /\ at \in Inst \cup {Null} /\ profile \in Loggers /\ logger \in Loggers
        /\ regionStack \in Seq(Frames) /\ edgeTimeline = <<>>
    BY <1>0, ProgramAssumption, NewLoggerType DEF Init, ProgramAssumption
  <2>2. DOMAIN edges = {} /\ edges \in [DOMAIN edges -> SUBSET (Nat \X Nat)]
    BY DEF Init
  <2>3. QED
    BY <2>1, <2>2 DEF Init, TypeOK
<1>2. PhaseInv /\ RecordedInOrder
  BY DEF Init, PhaseInv, RecordedInOrder
<1>3. StackSound /\ ReadInv
  BY <1>0 DEF Init, StackSound, ReadInv, Top, Last, Frame
<1>4. EdgeCountsExact /\ TimelineInv
  BY DEF Init, EdgeCountsExact, TimelineInv
<1>5. CutInv /\ IntervalsContiguous /\ IntervalsLargeEnough
  BY DEF Init, CutInv, NextCut, IntervalsContiguous, IntervalsLargeEnough, NewLogger
<1>6. QED
  BY <1>1, <1>2, <1>3, <1>4, <1>5 DEF IInv

(* While the program is recorded, everything else stands still. *)
LEMMA RecordUnchanged ==
  ASSUME IInv, phase = "record", UNCHANGED <<pos, tree, selected, cutter>>
  PROVE  /\ StackSound' /\ ReadInv' /\ EdgeCountsExact' /\ TimelineInv'
         /\ CutInv' /\ IntervalsLargeEnough'
         /\ phase' \in {"record", "build"} => IntervalsContiguous'
<1> USE DEF IInv, tree, selected, cutter
<1>1. pos = 0 /\ DOMAIN edges = {}
  BY DEF PhaseInv
<1>2. Len(regionStack) = 1
  <2> DEFINE n == Len(regionStack)
  <2>1. n \in Nat /\ n # 0
    BY StackType, EmptySeq DEF StackSound
  <2>2. ~ (n >= 2)
    <3> SUFFICES ASSUME n >= 2 PROVE FALSE
      OBVIOUS
    <3>0. 2 \in 2 .. Len(regionStack) /\ 2 \in 1 .. Len(regionStack)
      BY <2>1
    <3>1. regionStack[2].recur < 0
      BY <1>1, <3>0 DEF StackSound
    <3>2. regionStack[2].recur \in Nat
      BY <3>0, StackType
    <3>3. QED
      BY <3>1, <3>2
  <2> HIDE DEF n
  <2>3. n = 1
    BY <2>1, <2>2
  <2>4. QED
    BY <2>3 DEF n
<1>3. StackSound'
  BY DEF StackSound, EdgeInto, Top, Last
<1>4. ReadInv'
  BY <1>1, <1>2 DEF ReadInv
<1>5. EdgeCountsExact'
  BY <1>1 DEF EdgeCountsExact
<1>6. TimelineInv' /\ CutInv' /\ IntervalsLargeEnough'
  BY DEF TimelineInv, CutInv, At, NextCut, IntervalsLargeEnough
<1>7. phase' \in {"record", "build"} => IntervalsContiguous'
  BY DEF IntervalsContiguous
<1>8. QED
  BY <1>3, <1>4, <1>5, <1>6, <1>7

LEMMA AfterType ==
  ASSUME TypeOK, at \in Inst, NEW next \in After(at)
  PROVE  next[1] \in Inst \cup {Null} /\ next[2] \in Seq(Inst)
<1> USE ProgramAssumption DEF ProgramAssumption
<1>1. pending \in Seq(Inst)
  BY DEF TypeOK
<1>2. CASE Kind[at] \in {"call", "icall"}
  <2>1. \A ret \in Succ[at] : Append(pending, ret) \in Seq(Inst)
    BY <1>1
  <2>2. next \in Callee[at] \X {Append(pending, ret) : ret \in Succ[at]}
    BY <1>2 DEF After
  <2>3. /\ next[1] \in Callee[at]
        /\ \E ret \in Succ[at] : next[2] = Append(pending, ret)
    BY <2>2
  <2>4. Callee[at] \subseteq Inst
    OBVIOUS
  <2>5. QED
    BY <2>1, <2>3, <2>4
<1>3. CASE Kind[at] = "ret" /\ pending = <<>>
  <2>1. next = <<Null, pending>>
    BY <1>3 DEF After
  <2>2. QED
    BY <1>1, <2>1
<1>4. CASE Kind[at] = "ret" /\ pending # <<>>
  <2>1. Last(pending) \in Inst /\ Front(pending) \in Seq(Inst)
    <3>1. Len(pending) \in Nat \ {0}
      BY <1>1, <1>4, EmptySeq
    <3>2. SubSeq(pending, 1, Len(pending) - 1) \in Seq(Inst)
      BY <1>1, <3>1, SubSeqProperties
    <3>3. QED
      BY <1>1, <3>1, <3>2, ElementOfSeq DEF Last, Front
  <2>2. next = <<Last(pending), Front(pending)>>
    BY <1>4 DEF After
  <2>3. QED
    BY <2>1, <2>2
<1>5. CASE Kind[at] \notin {"call", "icall", "ret"}
  BY <1>1, <1>5 DEF After
<1>6. QED
  BY <1>2, <1>3, <1>4, <1>5

(* The recording stays in order whether or not the buffer is written. *)
LEMMA AddInstInOrder ==
  ASSUME TypeOK, file \o bufferedBB = executed, NEW i \in Inst, AddInst(i)
  PROVE  /\ file' \in Seq(Inst) /\ bufferedBB' \in Seq(Inst)
         /\ Len(file) <= Len(file')
         /\ file' \o bufferedBB' = Append(executed, i)
<1>1. file \in Seq(Inst) /\ bufferedBB \in Seq(Inst) /\ <<i>> \in Seq(Inst)
  BY DEF TypeOK
<1>2. Append(bufferedBB, i) \in Seq(Inst)
  BY <1>1
<1>3. file \o Append(bufferedBB, i) = Append(executed, i)
  <2>1. Append(bufferedBB, i) = bufferedBB \o <<i>>
    BY <1>1, AppendIsConcat
  <2>2. file \o (bufferedBB \o <<i>>) = (file \o bufferedBB) \o <<i>>
    BY <1>1, ConcatAssociative
  <2>3. executed \in Seq(Inst)
    BY DEF TypeOK
  <2>4. executed \o <<i>> = Append(executed, i)
    BY <2>3, AppendIsConcat
  <2>5. QED
    BY <2>1, <2>2, <2>4
<1>4. CASE bufferedBB' = Append(bufferedBB, i) /\ UNCHANGED file
  BY <1>1, <1>2, <1>3, <1>4
<1>5. CASE file' = file \o Append(bufferedBB, i) /\ bufferedBB' = <<>>
  <2>1. file' \in Seq(Inst) /\ Len(file) <= Len(file')
    BY <1>1, <1>2, <1>5, ConcatProperties
  <2>2. file' \o <<>> = file'
    BY <2>1, ConcatEmptySeq
  <2>3. QED
    BY <1>3, <1>5, <2>1, <2>2
<1>6. QED
  BY <1>4, <1>5 DEF AddInst

LEMMA PrintInstStep == IInv /\ PrintInst => IInv'
<1> SUFFICES ASSUME IInv, PrintInst PROVE IInv'
  OBVIOUS
<1>1. TypeOK /\ phase = "record" /\ phase' = "record"
  BY DEF IInv, PrintInst
<1>2. at \in Inst /\ BlockOf[at] \in Blocks
  BY ProgramAssumption, <1>1 DEF PrintInst, TypeOK, ProgramAssumption
<1>3. at' \in Inst \cup {Null} /\ pending' \in Seq(Inst)
  BY <1>1, <1>2, AfterType DEF PrintInst
<1>4. /\ file' \in Seq(Inst) /\ bufferedBB' \in Seq(Inst)
      /\ Len(file) <= Len(file') /\ file' \o bufferedBB' = executed'
  BY <1>1, <1>2, AddInstInOrder DEF PrintInst, IInv, RecordedInOrder
<1>5. executed' \in Seq(Inst) /\ profile' \in Loggers
  BY <1>1, <1>2, LogInstFixedType DEF PrintInst, TypeOK
<1>6. pos' \in 0 .. Len(file')
  BY <1>1, <1>4 DEF PrintInst, TypeOK
<1>7. TypeOK'
  BY <1>1, <1>3, <1>4, <1>5, <1>6
  DEF PrintInst, TypeOK, tree, selected, cutter, Points, PointsOf
<1>8. PhaseInv' /\ RecordedInOrder'
  BY <1>1, <1>4 DEF IInv, PhaseInv, RecordedInOrder, PrintInst, tree, selected, cutter
<1>9. QED
  BY <1>1, <1>7, <1>8, RecordUnchanged DEF IInv, PrintInst

LEMMA ExitStep == IInv /\ Exit => IInv'
<1> SUFFICES ASSUME IInv, Exit PROVE IInv'
  OBVIOUS
<1>1. TypeOK /\ phase = "record" /\ phase' = "build"
  BY DEF IInv, Exit
<1>2. file \in Seq(Inst) /\ bufferedBB \in Seq(Inst)
  BY <1>1 DEF TypeOK
<1>3. file' \in Seq(Inst) /\ Len(file) <= Len(file')
  BY <1>2, ConcatProperties DEF Exit
<1>4. file' \o <<>> = file'
  BY <1>3, ConcatEmptySeq
<1>5. TypeOK'
  <2>1. bufferedBB' = <<>> /\ UNCHANGED <<at, pending, executed, profile, pos>>
    BY DEF Exit, program
  <2>2. UNCHANGED <<regionStack, prevInst, edges, edgeTimeline, selectedEdges, cuts,
                    lhs, rhs, rhsMark, nextPoint, logger>>
    BY DEF Exit, tree, selected, cutter
  <2>3. pos' \in 0 .. Len(file')
    <3>1. pos \in 0 .. Len(file) /\ Len(file) \in Nat /\ Len(file') \in Nat
      BY ONLY <1>1, <1>2, <1>3 DEF TypeOK
    <3>2. QED
      BY ONLY <1>3, <2>1, <3>1
  <2>4. Points' = Points
    BY ONLY <2>2 DEF Points, PointsOf
  <2>5. <<>> \in Seq(Inst)
    OBVIOUS
  <2>6. QED
    BY ONLY <1>1, <1>3, <2>1, <2>2, <2>3, <2>4, <2>5 DEF TypeOK
<1>6. PhaseInv' /\ RecordedInOrder'
  BY <1>1, <1>4 DEF IInv, PhaseInv, RecordedInOrder, Exit, program, tree, selected, cutter
<1>7. QED
  BY <1>1, <1>5, <1>6, RecordUnchanged DEF IInv, Exit

-----------------------------------------------------------------------------
(* Building the profile.  The parts of the invariant about the stack, of a  *)
(* stack, edges and timeline that may be in the middle of a step.           *)

Into(stk, k)      == Edge(stk[k - 1].node, stk[k].bridge, stk[k].node)
OpenOf(stk, e)    == {stk[k].first : k \in {k \in 2 .. Len(stk) : Into(stk, k) = e}}
ClosedOf(es, e)   == {t[1] : t \in es[e]}
TakenOf(tl, e)    == {tl[p].inst : p \in {p \in DOMAIN tl : tl[p].edge = e}}

FramesOK(stk, es, n) ==
  \A k \in 2 .. Len(stk) :
    /\ stk[k].node # Null /\ Into(stk, k) \in DOMAIN es
    /\ stk[k].first <= stk[k].recur /\ stk[k].recur < n
    /\ \A j \in 2 .. k - 1 : stk[j].recur < stk[k].first
    /\ RegionInst[file[stk[k].first + 1]] = stk[k].node

CountsOK(stk, es, tl, e, n) ==
  /\ TakenOf(tl, e) = OpenOf(stk, e) \cup ClosedOf(es, e)
  /\ OpenOf(stk, e) \cap ClosedOf(es, e) = {}
  /\ \A t, u \in es[e] : t[1] = u[1] => t = u
  /\ \A t \in es[e] :
       /\ t[1] < t[2] /\ t[2] < n
       /\ RegionInst[file[t[1] + 1]] = e.to
       /\ RegionInst[file[t[2]]] # RegionInst[file[t[2] + 1]]

ExactOK(stk, es, tl, n) ==
  \A e \in DOMAIN es : e.from # e.to => CountsOK(stk, es, tl, e, n)

(* The frames that stay keep the edges they were entered through. *)
LEMMA SubSeqFrames ==
  ASSUME NEW stk \in Seq(Frames), NEW k \in 1 .. Len(stk)
  PROVE  /\ SubSeq(stk, 1, k) \in Seq(Frames) /\ Len(SubSeq(stk, 1, k)) = k
         /\ \A j \in 1 .. k : SubSeq(stk, 1, k)[j] = stk[j]
         /\ \A j \in 2 .. k : Into(SubSeq(stk, 1, k), j) = Into(stk, j)
<1> DEFINE s == SubSeq(stk, 1, k)
<1>1. s \in Seq(Frames) /\ Len(s) = k /\ \A j \in 1 .. k : s[j] = stk[j]
  <2>1. \A j \in 1 .. k : stk[j] \in Frames
    OBVIOUS
  <2>2. QED
    BY <2>1, SubSeqProperties
<1>2. ASSUME NEW j \in 2 .. k PROVE Into(s, j) = Into(stk, j)
  <2>1. j - 1 \in 1 .. k /\ j \in 1 .. k
    OBVIOUS
  <2>2. QED
    BY <1>1, <2>1 DEF Into
<1>3. QED
  BY <1>1, <1>2

LEMMA AppendFrame ==
  ASSUME NEW stk \in Seq(Frames), stk # <<>>, NEW f \in Frames
  PROVE  /\ Append(stk, f) \in Seq(Frames) /\ Len(Append(stk, f)) = Len(stk) + 1
         /\ \A j \in 1 .. Len(stk) : Append(stk, f)[j] = stk[j]
         /\ Append(stk, f)[Len(stk) + 1] = f
         /\ \A j \in 2 .. Len(stk) : Into(Append(stk, f), j) = Into(stk, j)
         /\ Into(Append(stk, f), Len(stk) + 1) = Edge(stk[Len(stk)].node, f.bridge, f.node)
<1> DEFINE s == Append(stk, f)
<1>1. /\ s \in Seq(Frames) /\ Len(s) = Len(stk) + 1 /\ s[Len(stk) + 1] = f
      /\ \A j \in 1 .. Len(stk) : s[j] = stk[j]
  BY AppendProperties
<1>2. Len(stk) \in Nat /\ Len(stk) # 0
  BY EmptySeq
<1>3. ASSUME NEW j \in 2 .. Len(stk) PROVE Into(s, j) = Into(stk, j)
  <2>1. j - 1 \in 1 .. Len(stk) /\ j \in 1 .. Len(stk)
    BY <1>2
  <2>2. QED
    BY <1>1, <2>1 DEF Into
<1>4. Into(s, Len(stk) + 1) = Edge(stk[Len(stk)].node, f.bridge, f.node)
  <2>1. Len(stk) \in 1 .. Len(stk) /\ (Len(stk) + 1) - 1 = Len(stk)
    BY <1>2
  <2>2. QED
    BY <1>1, <2>1 DEF Into
<1>5. QED
  BY <1>1, <1>3, <1>4

LEMMA OpenAppend ==
  ASSUME NEW stk \in Seq(Frames), stk # <<>>, NEW f \in Frames, NEW x
  PROVE  /\ x = Edge(stk[Len(stk)].node, f.bridge, f.node) =>
              OpenOf(Append(stk, f), x) = OpenOf(stk, x) \cup {f.first}
         /\ x # Edge(stk[Len(stk)].node, f.bridge, f.node) =>
              OpenOf(Append(stk, f), x) = OpenOf(stk, x)
<1> DEFINE s == Append(stk, f)
           n == Len(stk)
           K == {k \in 2 .. n : Into(stk, k) = x}
           KS == {k \in 2 .. Len(s) : Into(s, k) = x}
           e == Edge(stk[n].node, f.bridge, f.node)
<1>1. n \in Nat /\ n # 0
  BY EmptySeq
<1>2. /\ Len(s) = n + 1 /\ s[n + 1] = f /\ Into(s, n + 1) = e
      /\ \A k \in 1 .. n : s[k] = stk[k]
      /\ \A k \in 2 .. n : Into(s, k) = Into(stk, k)
  BY AppendFrame
<1>3. 2 .. Len(s) = (2 .. n) \cup {n + 1} /\ n + 1 \notin 2 .. n
  BY <1>1, <1>2
<1>4. KS = K \cup (IF x = e THEN {n + 1} ELSE {})
  <2> HIDE DEF s, n, e
  <2>1. QED
    BY <1>2, <1>3
<1>5. \A k \in K : s[k].first = stk[k].first
  BY <1>1, <1>2
<1>6. OpenOf(s, x) = {s[k].first : k \in KS} /\ OpenOf(stk, x) = {stk[k].first : k \in K}
  BY DEF OpenOf
<1> HIDE DEF s, n, e, K, KS
<1>7. {s[k].first : k \in KS} = {s[k].first : k \in K} \cup (IF x = e THEN {f.first} ELSE {})
  BY <1>2, <1>4
<1>8. {s[k].first : k \in K} = {stk[k].first : k \in K}
  BY <1>5
<1>9. QED
  BY <1>6, <1>7, <1>8 DEF s, e, n

TakePoint(tl, e, n) == Append(tl, [edge |-> e, inst |-> n])

LEMMA TakePointType ==
  ASSUME NEW T, NEW tl \in Seq(T), NEW e, NEW now, [edge |-> e, inst |-> now] \in T
  PROVE  /\ TakePoint(tl, e, now) \in Seq(T)
         /\ Len(TakePoint(tl, e, now)) = Len(tl) + 1
         /\ TakePoint(tl, e, now)[Len(tl) + 1] = [edge |-> e, inst |-> now]
         /\ \A p \in 1 .. Len(tl) : TakePoint(tl, e, now)[p] = tl[p]
  BY AppendProperties DEF TakePoint

LEMMA TakenAppend ==
  ASSUME NEW S, NEW tl \in Seq(S), NEW e, NEW x, NEW now
  PROVE  /\ x = e => TakenOf(TakePoint(tl, e, now), x) = TakenOf(tl, x) \cup {now}
         /\ x # e => TakenOf(TakePoint(tl, e, now), x) = TakenOf(tl, x)
<1> DEFINE point == [edge |-> e, inst |-> now]
           tt == TakePoint(tl, e, now)
           n == Len(tl)
           K == {k \in 1 .. n : tl[k].edge = x}
           KT == {k \in DOMAIN tt : tt[k].edge = x}
           T == S \cup {point}
<1>0. tl \in Seq(T) /\ point \in T
  BY SeqMonotonic
<1> HIDE DEF T
<1>1. tt \in Seq(T) /\ Len(tt) = n + 1 /\ tt[n + 1] = point
  BY <1>0, TakePointType
<1>2. \A p \in 1 .. n : tt[p] = tl[p]
  BY <1>0, TakePointType
<1>3. n \in Nat /\ DOMAIN tl = 1 .. n
  BY LenProperties
<1>4. DOMAIN tt = (1 .. n) \cup {n + 1}
  <2>1. DOMAIN tt = 1 .. n + 1
    BY <1>1, LenProperties
  <2>2. QED
    BY <1>3, <2>1
<1>5. point.edge = e /\ point.inst = now
  OBVIOUS
<1>6. TakenOf(tt, x) = {tt[k].inst : k \in KT} /\ TakenOf(tl, x) = {tl[k].inst : k \in K}
  BY <1>3 DEF TakenOf
<1> HIDE DEF tt, point, n
<1>7. KT = K \cup (IF x = e THEN {n + 1} ELSE {})
  BY <1>1, <1>2, <1>4, <1>5
<1>8. \A k \in K : tt[k].inst = tl[k].inst
  BY <1>2
<1> HIDE DEF K, KT
<1>9. {tt[k].inst : k \in KT} = {tt[k].inst : k \in K} \cup (IF x = e THEN {now} ELSE {})
  BY <1>1, <1>5, <1>7
<1>10. {tt[k].inst : k \in K} = {tl[k].inst : k \in K}
  BY <1>8
<1>11. QED
  BY <1>6, <1>9, <1>10 DEF tt

(* A region is entered from the top of a stack. *)
LEMMA PushStep ==
  ASSUME NEW stk \in Seq(Frames), stk # <<>>, NEW es, EdgeMap(es), pos \in Nat,
         NEW tl \in Seq([edge : DOMAIN es, inst : Nat]),
         \A p \in DOMAIN tl : tl[p].inst < pos,
         FramesOK(stk, es, pos), ExactOK(stk, es, tl, pos + 1),
         NEW r \in Inst, r # Null, r = RegionInst[file[pos + 1]], stk[Len(stk)].node # r,
         NEW bridge \in Inst \cup {Null},
         NEW e, e = Edge(stk[Len(stk)].node, bridge, r)
  PROVE  /\ FramesOK(Append(stk, Frame(r, pos, bridge)), AddEdge(es, e), pos + 1)
         /\ ExactOK(Append(stk, Frame(r, pos, bridge)), AddEdge(es, e),
                    TakePoint(tl, e, pos), pos + 1)
         /\ e \in Edges
<1> DEFINE f == Frame(r, pos, bridge)
           s == Append(stk, f)
           ee == AddEdge(es, e)
           tt == TakePoint(tl, e, pos)
<1>1. f \in Frames /\ f.node = r /\ f.first = pos /\ f.recur = pos /\ f.bridge = bridge
  BY DEF Frame, Frames
<1>2. Len(stk) \in Nat /\ Len(stk) # 0 /\ \A k \in 1 .. Len(stk) : stk[k] \in Frames
  BY EmptySeq
<1>3. e \in Edges /\ e.from # e.to
  <2>1. stk[Len(stk)] \in Frames
    BY <1>2
  <2>2. QED
    BY <2>1 DEF Edge, Edges, Frames
<1>4. /\ s \in Seq(Frames) /\ Len(s) = Len(stk) + 1 /\ s[Len(stk) + 1] = f
      /\ \A k \in 1 .. Len(stk) : s[k] = stk[k]
      /\ \A k \in 2 .. Len(stk) : Into(s, k) = Into(stk, k)
      /\ Into(s, Len(stk) + 1) = e
  BY <1>1, AppendFrame
<1>5. /\ DOMAIN ee = DOMAIN es \cup {e}
      /\ \A x \in DOMAIN es : ee[x] = es[x]
      /\ e \notin DOMAIN es => ee[e] = {}
  <2>1. /\ DOMAIN AddEdge(es, e) = DOMAIN es \cup {e}
        /\ \A x \in DOMAIN es : AddEdge(es, e)[x] = es[x]
        /\ e \notin DOMAIN es => AddEdge(es, e)[e] = {}
    BY ONLY EdgeMap(es), <1>3, AddEdgeType
  <2>2. QED
    BY <2>1
<1>6. ASSUME NEW x
      PROVE  /\ x = e => OpenOf(s, x) = OpenOf(stk, x) \cup {pos}
             /\ x # e => OpenOf(s, x) = OpenOf(stk, x)
             /\ x = e => TakenOf(tt, x) = TakenOf(tl, x) \cup {pos}
             /\ x # e => TakenOf(tt, x) = TakenOf(tl, x)
  <2>1. Edge(stk[Len(stk)].node, f.bridge, f.node) = e /\ f.first = pos
    BY <1>1
  <2>2. /\ x = e => OpenOf(Append(stk, f), x) = OpenOf(stk, x) \cup {pos}
        /\ x # e => OpenOf(Append(stk, f), x) = OpenOf(stk, x)
    <3>1. f \in Frames
      BY <1>1
    <3> HIDE DEF f
    <3>2. /\ x = Edge(stk[Len(stk)].node, f.bridge, f.node) =>
               OpenOf(Append(stk, f), x) = OpenOf(stk, x) \cup {f.first}
          /\ x # Edge(stk[Len(stk)].node, f.bridge, f.node) =>
               OpenOf(Append(stk, f), x) = OpenOf(stk, x)
      BY ONLY stk \in Seq(Frames), stk # <<>>, <3>1, OpenAppend
    <3>3. QED
      BY ONLY <2>1, <3>2
  <2>3. /\ x = e => TakenOf(TakePoint(tl, e, pos), x) = TakenOf(tl, x) \cup {pos}
        /\ x # e => TakenOf(TakePoint(tl, e, pos), x) = TakenOf(tl, x)
    BY ONLY tl \in Seq([edge : DOMAIN es, inst : Nat]), TakenAppend
  <2>4. QED
    BY <2>2, <2>3
<1> HIDE DEF s, ee, tt
<1>7. FramesOK(s, ee, pos + 1)
  <2> SUFFICES ASSUME NEW k \in 2 .. Len(s)
               PROVE  /\ s[k].node # Null /\ Into(s, k) \in DOMAIN ee
                      /\ s[k].first <= s[k].recur /\ s[k].recur < pos + 1
                      /\ \A j \in 2 .. k - 1 : s[j].recur < s[k].first
                      /\ RegionInst[file[s[k].first + 1]] = s[k].node
    BY DEF FramesOK
  <2>1. CASE k \in 2 .. Len(stk)
    <3>1. /\ s[k] = stk[k] /\ Into(s, k) = Into(stk, k)
          /\ \A j \in 2 .. k - 1 : j \in 1 .. Len(stk) /\ s[j] = stk[j]
      <4>1. k \in 1 .. Len(stk) /\ \A j \in 2 .. k - 1 : j \in 1 .. Len(stk)
        BY <1>2, <2>1
      <4>2. QED
        BY <1>4, <2>1, <4>1
    <3>2. stk[k].recur \in Nat
      BY <1>2, <2>1 DEF Frames
    <3>3. /\ stk[k].node # Null /\ Into(stk, k) \in DOMAIN es
          /\ stk[k].first <= stk[k].recur /\ stk[k].recur < pos
          /\ \A j \in 2 .. k - 1 : stk[j].recur < stk[k].first
          /\ RegionInst[file[stk[k].first + 1]] = stk[k].node
      BY <2>1 DEF FramesOK
    <3>4. stk[k].recur < pos + 1
      BY <3>2, <3>3
    <3>5. QED
      BY <1>5, <3>1, <3>3, <3>4
  <2>2. CASE k = Len(stk) + 1
    <3>1. s[k] = f /\ Into(s, k) = e
      BY <1>4, <2>2
    <3>2. \A j \in 2 .. k - 1 : s[j].recur < pos
      <4>1. \A j \in 2 .. k - 1 : j \in 2 .. Len(stk) /\ j \in 1 .. Len(stk)
        BY <1>2, <2>2
      <4>2. QED
        BY <1>4, <4>1 DEF FramesOK
    <3>3. QED
      BY <1>1, <1>5, <3>1, <3>2
  <2>3. QED
    BY <1>2, <1>4, <2>1, <2>2
<1>8. ASSUME NEW x \in DOMAIN ee, x # e
      PROVE  /\ x \in DOMAIN es /\ ee[x] = es[x]
             /\ OpenOf(s, x) = OpenOf(stk, x) /\ TakenOf(tt, x) = TakenOf(tl, x)
  <2>1. x \in DOMAIN es /\ ee[x] = es[x]
    BY <1>5, <1>8
  <2>2. OpenOf(s, x) = OpenOf(stk, x)
    BY <1>6, <1>8
  <2>3. TakenOf(tt, x) = TakenOf(tl, x)
    BY <1>6, <1>8
  <2>4. QED
    BY <2>1, <2>2, <2>3
<1>9. /\ OpenOf(s, e) = OpenOf(stk, e) \cup {pos}
      /\ TakenOf(tt, e) = TakenOf(tl, e) \cup {pos}
  BY <1>6
<1>10. CountsOK(s, ee, tt, e, pos + 1)
  <2>1. CASE e \in DOMAIN es
    <3>1. CountsOK(stk, es, tl, e, pos + 1) /\ ee[e] = es[e]
      BY <1>3, <1>5, <2>1 DEF ExactOK
    <3>2. pos \notin ClosedOf(es, e)
      <4> SUFFICES ASSUME NEW t \in es[e], t[1] = pos PROVE FALSE
        BY DEF ClosedOf
      <4>1. t[1] < t[2] /\ t[2] < pos + 1 /\ t \in Nat \X Nat
        BY <2>1, <3>1 DEF CountsOK, EdgeMap
      <4>2. QED
        BY <4>1
    <3>3. QED
      BY <1>9, <3>1, <3>2 DEF CountsOK, ClosedOf
  <2>2. CASE e \notin DOMAIN es
    <3>1. ee[e] = {}
      BY <1>5, <2>2
    <3>2. OpenOf(stk, e) = {}
      BY <2>2 DEF OpenOf, FramesOK
    <3>3. \A p \in DOMAIN tl : tl[p].edge \in DOMAIN es
      <4> DEFINE LoggedPoints == [edge : DOMAIN es, inst : Nat]
      <4>a. tl \in Seq(LoggedPoints)
        OBVIOUS
      <4> HIDE DEF LoggedPoints
      <4>b. DOMAIN tl = 1 .. Len(tl)
        BY ONLY <4>a, LenProperties
      <4>1. \A p \in DOMAIN tl : tl[p] \in LoggedPoints
        BY ONLY <4>a, <4>b, ElementOfSeq
      <4> USE DEF LoggedPoints
      <4>2. QED
        BY <4>1
    <3>4. TakenOf(tl, e) = {}
      BY <2>2, <3>3 DEF TakenOf
    <3>5. QED
      BY <1>9, <3>1, <3>2, <3>4 DEF CountsOK, ClosedOf
  <2>3. QED
    BY <2>1, <2>2
<1>11. ExactOK(s, ee, tt, pos + 1)
  <2> SUFFICES ASSUME NEW x \in DOMAIN ee, x.from # x.to
               PROVE  CountsOK(s, ee, tt, x, pos + 1)
    BY DEF ExactOK
  <2>1. CASE x = e
    BY <1>10, <2>1
  <2>2. CASE x # e
    BY <1>8, <2>2 DEF ExactOK, CountsOK, ClosedOf
  <2>3. QED
    BY <2>1, <2>2
<1>12. QED
  BY <1>3, <1>7, <1>11 DEF s, ee, tt

(* The invariant, in terms of the stack, the edges and the timeline. *)
LEMMA BuildParts ==
  ASSUME TypeOK, StackSound, ReadInv, EdgeCountsExact
  PROVE  /\ FramesOK(regionStack, edges, pos)
         /\ ExactOK(regionStack, edges, edgeTimeline, pos)
<1>1. \A k \in 2 .. Len(regionStack) : EdgeInto(k) = Into(regionStack, k)
  BY DEF EdgeInto, Into
<1>2. FramesOK(regionStack, edges, pos)
  BY <1>1 DEF FramesOK, StackSound, ReadInv
<1>3. \A e : /\ Open(e) = OpenOf(regionStack, e)
             /\ Closed(e) = ClosedOf(edges, e)
             /\ Taken(e) = TakenOf(edgeTimeline, e)
  BY <1>1 DEF Open, OpenOf, Closed, ClosedOf, Taken, TakenOf
<1>4. ExactOK(regionStack, edges, edgeTimeline, pos)
  BY <1>3 DEF ExactOK, CountsOK, EdgeCountsExact
<1>5. QED
  BY <1>2, <1>4

LEMMA BuildWhole ==
  ASSUME FramesOK(regionStack, edges, pos)', ExactOK(regionStack, edges, edgeTimeline, pos)',
         (regionStack # <<>> /\ regionStack[1] = Frame(Null, 0, Null))',
         (Top.node = (IF prevInst = Null THEN Null ELSE RegionInst[prevInst]))',
         (prevInst = IF pos = 0 THEN Null ELSE file[pos])'
  PROVE  StackSound' /\ ReadInv' /\ EdgeCountsExact'
<1>1. (\A k \in 2 .. Len(regionStack) : EdgeInto(k) = Into(regionStack, k))'
  BY DEF EdgeInto, Into
<1>2. StackSound' /\ ReadInv'
  BY <1>1 DEF FramesOK, StackSound, ReadInv
<1>3. (\A e : /\ Open(e) = OpenOf(regionStack, e)
              /\ Closed(e) = ClosedOf(edges, e)
              /\ Taken(e) = TakenOf(edgeTimeline, e))'
  BY <1>1 DEF Open, OpenOf, Closed, ClosedOf, Taken, TakenOf
<1>4. EdgeCountsExact'
  BY <1>3 DEF ExactOK, CountsOK, EdgeCountsExact
<1>5. QED
  BY <1>2, <1>4

(* The regions above the k-th are left: their open edges are counted now.   *)
LEMMA PopStep ==
  ASSUME TypeOK, StackSound, ReadInv, EdgeCountsExact, NEW k \in 1 .. Len(regionStack),
         k # Len(regionStack) => /\ pos < Len(file)
                                 /\ RegionInst[file[pos + 1]] # Top.node
  PROVE  /\ EdgeMap(Pop(k)) /\ DOMAIN Pop(k) = DOMAIN edges
         /\ FramesOK(SubSeq(regionStack, 1, k), Pop(k), pos)
         /\ ExactOK(SubSeq(regionStack, 1, k), Pop(k), edgeTimeline, pos + 1)
<1> DEFINE s == SubSeq(regionStack, 1, k)
           es == Pop(k)
<1>1. /\ FramesOK(regionStack, edges, pos)
      /\ ExactOK(regionStack, edges, edgeTimeline, pos)
  BY BuildParts
<1>2. /\ Len(s) = k
      /\ \A j \in 1 .. k : s[j] = regionStack[j]
      /\ \A j \in 2 .. k : Into(s, j) = Into(regionStack, j)
  BY StackType, SubSeqFrames
<1>3. EdgeMap(es) /\ DOMAIN es = DOMAIN edges
  BY PopType
<1>4. /\ pos \in Nat /\ Len(regionStack) \in Nat
      /\ \A j \in 1 .. Len(regionStack) : regionStack[j].first \in Nat /\ regionStack[j].recur \in Nat
      /\ \A e \in DOMAIN edges : edges[e] \subseteq Nat \X Nat
  BY StackType DEF TypeOK
<1>5. ASSUME NEW e \in DOMAIN edges, NEW t \in es[e]
      PROVE  \/ t \in edges[e]
             \/ \E j \in k + 1 .. Len(regionStack) :
                  Into(regionStack, j) = e /\ t = <<regionStack[j].first, pos>>
  BY <1>5 DEF Pop, EdgeInto, Into
<1>6. \A e \in DOMAIN edges : \A j \in k + 1 .. Len(regionStack) :
        Into(regionStack, j) = e => <<regionStack[j].first, pos>> \in es[e]
  BY DEF Pop, EdgeInto, Into
<1>7. \A e \in DOMAIN edges : edges[e] \subseteq es[e]
  BY DEF Pop
<1> HIDE DEF s, es
<1>8. FramesOK(s, es, pos)
  <2> SUFFICES ASSUME NEW j \in 2 .. k
               PROVE  /\ s[j].node # Null /\ Into(s, j) \in DOMAIN es
                      /\ s[j].first <= s[j].recur /\ s[j].recur < pos
                      /\ \A i \in 2 .. j - 1 : s[i].recur < s[j].first
                      /\ RegionInst[file[s[j].first + 1]] = s[j].node
    BY <1>2 DEF FramesOK
  <2>1. j \in 2 .. Len(regionStack) /\ j \in 1 .. k /\ \A i \in 2 .. j - 1 : i \in 1 .. k
    BY <1>4
  <2>2. /\ regionStack[j].node # Null /\ Into(regionStack, j) \in DOMAIN edges
        /\ regionStack[j].first <= regionStack[j].recur /\ regionStack[j].recur < pos
        /\ \A i \in 2 .. j - 1 : regionStack[i].recur < regionStack[j].first
        /\ RegionInst[file[regionStack[j].first + 1]] = regionStack[j].node
    BY <1>1, <2>1 DEF FramesOK
  <2>3. QED
    BY <1>2, <1>3, <2>1, <2>2
<1>9. \A i, j \in 2 .. Len(regionStack) :
        i # j => regionStack[i].first # regionStack[j].first
  <2>1. ASSUME NEW j \in 2 .. Len(regionStack), NEW i \in 2 .. j - 1
        PROVE  regionStack[i].first < regionStack[j].first
    <3>1. i \in 2 .. Len(regionStack) /\ i \in 1 .. Len(regionStack) /\ j \in 1 .. Len(regionStack)
      BY <1>4
    <3>2. /\ regionStack[i].first <= regionStack[i].recur
          /\ regionStack[i].recur < regionStack[j].first
      BY <1>1, <3>1 DEF FramesOK
    <3>3. QED
      BY <1>4, <3>1, <3>2
  <2>2. SUFFICES ASSUME NEW i \in 2 .. Len(regionStack), NEW j \in 2 .. Len(regionStack), i # j
                 PROVE  regionStack[i].first # regionStack[j].first
    OBVIOUS
  <2>3. i \in 1 .. Len(regionStack) /\ j \in 1 .. Len(regionStack)
        /\ (i \in 2 .. j - 1 \/ j \in 2 .. i - 1)
    BY <1>4, <2>2
  <2>4. QED
    BY <1>4, <2>1, <2>3
<1>10. ASSUME NEW e \in DOMAIN edges, e.from # e.to
       PROVE  CountsOK(s, es, edgeTimeline, e, pos + 1)
  <2>1. CountsOK(regionStack, edges, edgeTimeline, e, pos)
    BY <1>1, <1>10 DEF ExactOK
  <2>2. \A v : v \in OpenOf(regionStack, e) <=>
          \E j \in 2 .. Len(regionStack) : Into(regionStack, j) = e /\ v = regionStack[j].first
    BY DEF OpenOf
  <2>3. \A v : v \in OpenOf(s, e) <=>
          \E j \in 2 .. k : Into(regionStack, j) = e /\ v = regionStack[j].first
    <3>1. \A j \in 2 .. k : j \in 1 .. k
      OBVIOUS
    <3>2. QED
      BY <1>2, <3>1 DEF OpenOf
  <2>4. \A v : v \in ClosedOf(es, e) <=>
          \/ v \in ClosedOf(edges, e)
          \/ \E j \in k + 1 .. Len(regionStack) : Into(regionStack, j) = e /\ v = regionStack[j].first
    <3>1. \A v : v \in ClosedOf(es, e) <=> \E t \in es[e] : v = t[1]
      BY DEF ClosedOf
    <3>2. \A v : v \in ClosedOf(edges, e) <=> \E t \in edges[e] : v = t[1]
      BY DEF ClosedOf
    <3>3. ASSUME NEW v \in ClosedOf(es, e)
          PROVE  \/ v \in ClosedOf(edges, e)
                 \/ \E j \in k + 1 .. Len(regionStack) :
                      Into(regionStack, j) = e /\ v = regionStack[j].first
      <4>1. PICK t \in es[e] : v = t[1]
        BY <3>1, <3>3
      <4>2. CASE t \in edges[e]
        BY <3>2, <4>1, <4>2
      <4>3. ASSUME NEW j \in k + 1 .. Len(regionStack),
                   Into(regionStack, j) = e, t = <<regionStack[j].first, pos>>
            PROVE  v = regionStack[j].first
        BY <4>1, <4>3
      <4>4. QED
        BY <1>5, <4>2, <4>3
    <3>4. ASSUME NEW v \in ClosedOf(edges, e) PROVE v \in ClosedOf(es, e)
      BY <1>7, <3>1, <3>2
    <3>5. ASSUME NEW j \in k + 1 .. Len(regionStack), Into(regionStack, j) = e
          PROVE  regionStack[j].first \in ClosedOf(es, e)
      <4>1. <<regionStack[j].first, pos>> \in es[e]
        BY <1>6, <3>5
      <4>2. QED
        BY <3>1, <4>1
    <3>6. QED
      BY <3>3, <3>4, <3>5
  <2>5. \A j : j \in 2 .. Len(regionStack) <=> j \in 2 .. k \/ (j \in k + 1 .. Len(regionStack))
    BY <1>4
  <2>6. TakenOf(edgeTimeline, e) = OpenOf(s, e) \cup ClosedOf(es, e)
    BY <2>1, <2>2, <2>3, <2>4, <2>5 DEF CountsOK
  <2>7. OpenOf(s, e) \cap ClosedOf(es, e) = {}
    BY <1>9, <2>1, <2>2, <2>3, <2>4, <2>5 DEF CountsOK
  <2>8. ASSUME NEW t \in es[e], NEW u \in es[e], t[1] = u[1]
        PROVE  t = u
    <3>1. CASE t \in edges[e] /\ u \in edges[e]
      BY <2>1, <2>8, <3>1 DEF CountsOK
    <3>2. ASSUME NEW x \in edges[e], NEW j \in k + 1 .. Len(regionStack),
                 Into(regionStack, j) = e, x[1] = regionStack[j].first
          PROVE  FALSE
      <4>1. x[1] \in ClosedOf(edges, e)
        BY DEF ClosedOf
      <4>2. x[1] \in OpenOf(regionStack, e)
        BY <2>2, <2>5, <3>2
      <4>3. QED
        BY <2>1, <4>1, <4>2 DEF CountsOK
    <3>3. CASE t \notin edges[e] /\ u \notin edges[e]
      BY <1>5, <2>8, <3>3
    <3>4. CASE t \in edges[e] /\ u \notin edges[e]
      BY <1>5, <2>8, <3>2, <3>4
    <3>5. CASE t \notin edges[e] /\ u \in edges[e]
      BY <1>5, <2>8, <3>2, <3>5
    <3>6. QED
      BY <3>1, <3>3, <3>4, <3>5
  <2>9. ASSUME NEW t \in es[e]
        PROVE  /\ t[1] < t[2] /\ t[2] < pos + 1
               /\ RegionInst[file[t[1] + 1]] = e.to
               /\ RegionInst[file[t[2]]] # RegionInst[file[t[2] + 1]]
    <3>1. CASE t \in edges[e]
      <4>1. t[2] \in Nat /\ t[2] < pos
        BY <1>4, <2>1, <3>1 DEF CountsOK
      <4>2. t[2] < pos + 1
        BY <1>4, <4>1
      <4>3. QED
        BY <2>1, <3>1, <4>2 DEF CountsOK
    <3>2. ASSUME NEW j \in k + 1 .. Len(regionStack),
                 Into(regionStack, j) = e, t = <<regionStack[j].first, pos>>
          PROVE  /\ t[1] < t[2] /\ t[2] < pos + 1
                 /\ RegionInst[file[t[1] + 1]] = e.to
                 /\ RegionInst[file[t[2]]] # RegionInst[file[t[2] + 1]]
      <4>1. t[1] = regionStack[j].first /\ t[2] = pos
        BY <3>2
      <4>2. j \in 2 .. Len(regionStack) /\ j \in 1 .. Len(regionStack) /\ k # Len(regionStack)
        BY <1>4
      <4>3. /\ regionStack[j].first <= regionStack[j].recur /\ regionStack[j].recur < pos
            /\ RegionInst[file[regionStack[j].first + 1]] = regionStack[j].node
        BY <1>1, <4>2 DEF FramesOK
      <4>4. regionStack[j].first < pos /\ pos # 0
        BY <1>4, <4>2, <4>3
      <4>5. regionStack[j].node = e.to
        BY <3>2 DEF Into, Edge
      <4>6. RegionInst[file[pos]] # RegionInst[file[pos + 1]]
        <5>1. pos \in 1 .. Len(file) /\ file \in Seq(Inst)
          BY <4>4 DEF TypeOK
        <5>2. file[pos] \in Inst /\ prevInst = file[pos]
          BY <4>4, <5>1 DEF ReadInv
        <5>3. Top.node = RegionInst[file[pos]]
          BY <5>2, ProgramAssumption DEF StackSound, ProgramAssumption
        <5>4. QED
          BY <4>2, <5>3
      <4>7. QED
        BY <1>4, <4>1, <4>3, <4>4, <4>5, <4>6
    <3>3. QED
      BY <1>5, <3>1, <3>2
  <2>10. QED
    BY <2>6, <2>7, <2>8, <2>9 DEF CountsOK
<1>11. QED
  BY <1>3, <1>8, <1>10 DEF ExactOK, s, es

LEMMA PointType ==
  ASSUME NEW E, NEW tl \in Seq([edge : E, inst : Nat])
  PROVE  /\ DOMAIN tl = 1 .. Len(tl) /\ Len(tl) \in Nat
         /\ \A p \in DOMAIN tl : tl[p].edge \in E /\ tl[p].inst \in Nat
<1> DEFINE T == [edge : E, inst : Nat]
<1>1. tl \in Seq(T)
  OBVIOUS
<1> HIDE DEF T
<1>2. DOMAIN tl = 1 .. Len(tl) /\ Len(tl) \in Nat /\ \A p \in 1 .. Len(tl) : tl[p] \in T
  BY <1>1, LenProperties, ElementOfSeq
<1>3. QED
  BY <1>2 DEF T

TimelineOK(tl, n) ==
  /\ \A p \in DOMAIN tl : tl[p].inst < n
  /\ \A p, q \in DOMAIN tl : p < q => tl[p].inst < tl[q].inst

(* What adding the instruction at pos has to establish. *)
Built(stk, es, tl) ==
  /\ EdgeMap(es) /\ stk \in Seq(Frames) /\ tl \in Seq([edge : DOMAIN es, inst : Nat])
  /\ stk # <<>> /\ stk[1] = Frame(Null, 0, Null)
  /\ stk[Len(stk)].node = RegionInst[file[pos + 1]]
  /\ FramesOK(stk, es, pos + 1) /\ ExactOK(stk, es, tl, pos + 1) /\ TimelineOK(tl, pos + 1)

LEMMA Later ==
  ASSUME NEW stk \in Seq(Frames), NEW es, EdgeMap(es), NEW tl, pos \in Nat
  PROVE  /\ FramesOK(stk, es, pos) => FramesOK(stk, es, pos + 1)
         /\ ExactOK(stk, es, tl, pos) => ExactOK(stk, es, tl, pos + 1)
<1>1. ASSUME FramesOK(stk, es, pos) PROVE FramesOK(stk, es, pos + 1)
  <2>1. \A k \in 2 .. Len(stk) : stk[k] \in Frames
    OBVIOUS
  <2>2. \A k \in 2 .. Len(stk) : stk[k].recur \in Nat
    BY <2>1 DEF Frames
  <2>3. \A k \in 2 .. Len(stk) : stk[k].recur < pos + 1
    BY <1>1, <2>2 DEF FramesOK
  <2>4. QED
    BY <1>1, <2>3 DEF FramesOK
<1>2. ASSUME ExactOK(stk, es, tl, pos) PROVE ExactOK(stk, es, tl, pos + 1)
  <2> SUFFICES ASSUME NEW e \in DOMAIN es, e.from # e.to
               PROVE  CountsOK(stk, es, tl, e, pos + 1)
    BY DEF ExactOK
  <2>1. CountsOK(stk, es, tl, e, pos)
    BY <1>2 DEF ExactOK
  <2>2. \A t \in es[e] : t[2] \in Nat
    BY DEF EdgeMap
  <2>3. \A t \in es[e] : t[2] < pos + 1
    BY <2>1, <2>2 DEF CountsOK
  <2>4. QED
    BY <2>1, <2>3 DEF CountsOK
<1>3. QED
  BY <1>1, <1>2

LEMMA TimelineAppend ==
  ASSUME NEW E, NEW tl \in Seq([edge : E, inst : Nat]), TimelineOK(tl, pos), pos \in Nat,
         NEW F, E \subseteq F, NEW e \in F
  PROVE  /\ TakePoint(tl, e, pos) \in Seq([edge : F, inst : Nat])
         /\ TimelineOK(TakePoint(tl, e, pos), pos + 1)
<1> DEFINE T == [edge : F, inst : Nat]
           tt == TakePoint(tl, e, pos)
<1>1. tl \in Seq(T) /\ [edge |-> e, inst |-> pos] \in T
  <2>1. [edge : E, inst : Nat] \subseteq T /\ [edge |-> e, inst |-> pos] \in T
    OBVIOUS
  <2>2. QED
    BY <2>1, SeqMonotonic
<1>2. Len(tl) \in Nat /\ DOMAIN tl = 1 .. Len(tl)
  BY LenProperties
<1>3. \A p \in 1 .. Len(tl) : tl[p].inst \in Nat
  BY PointType
<1> HIDE DEF T
<1>4. /\ tt \in Seq(T) /\ Len(tt) = Len(tl) + 1
      /\ tt[Len(tl) + 1] = [edge |-> e, inst |-> pos]
      /\ \A p \in 1 .. Len(tl) : tt[p] = tl[p]
  BY <1>1, TakePointType
<1>5. DOMAIN tt = 1 .. Len(tl) + 1
  BY <1>4, LenProperties
<1> HIDE DEF tt
<1>6. ASSUME NEW p \in DOMAIN tt PROVE tt[p].inst \in Nat /\ tt[p].inst < pos + 1
  <2>1. CASE p \in 1 .. Len(tl)
    BY <1>2, <1>3, <1>4, <2>1 DEF TimelineOK
  <2>2. CASE p = Len(tl) + 1
    BY <1>4, <2>2
  <2>3. QED
    BY <1>2, <1>5, <2>1, <2>2
<1>7. ASSUME NEW p \in DOMAIN tt, NEW q \in DOMAIN tt, p < q
      PROVE  tt[p].inst < tt[q].inst
  <2>1. p \in 1 .. Len(tl) /\ (q \in 1 .. Len(tl) \/ q = Len(tl) + 1)
    BY <1>2, <1>5, <1>7
  <2>2. CASE q \in 1 .. Len(tl)
    BY <1>2, <1>4, <1>7, <2>1, <2>2 DEF TimelineOK
  <2>3. CASE q = Len(tl) + 1
    BY <1>2, <1>4, <2>1, <2>3 DEF TimelineOK
  <2>4. QED
    BY <2>1, <2>2, <2>3
<1>8. QED
  BY <1>4, <1>6, <1>7 DEF TimelineOK, T, tt

LEMMA SameRegionStep ==
  ASSUME IInv, pos < Len(file), SameRegion(file[pos + 1])
  PROVE  Built(regionStack', edges', edgeTimeline')
<1> DEFINE i == file[pos + 1]
           n == Len(regionStack)
<1>1. TypeOK /\ StackSound /\ ReadInv /\ EdgeCountsExact /\ TimelineInv
  BY DEF IInv
<1>2. pos \in Nat /\ i \in Inst /\ EdgeMap(edges)
  <2>1. pos \in Nat /\ pos + 1 \in 1 .. Len(file) /\ file \in Seq(Inst)
    BY <1>1 DEF TypeOK
  <2>2. QED
    BY <1>1, <2>1 DEF EdgeMap, TypeOK
<1>3. FramesOK(regionStack, edges, pos + 1) /\ ExactOK(regionStack, edges, edgeTimeline, pos + 1)
  BY <1>1, <1>2, BuildParts, Later, StackType
<1>4. TimelineOK(edgeTimeline, pos + 1) /\ edgeTimeline \in Seq([edge : DOMAIN edges, inst : Nat])
  <2>1. \A p \in DOMAIN edgeTimeline : edgeTimeline[p].inst < pos + 1
    <3>1. \A p \in DOMAIN edgeTimeline : edgeTimeline[p].inst \in Nat
      BY <1>1, PointType DEF TypeOK
    <3>2. QED
      BY <1>1, <1>2, <3>1 DEF TimelineInv
  <2>2. QED
    BY <1>1, <2>1 DEF TimelineInv, TimelineOK, TypeOK
<1>5. /\ regionStack \in Seq(Frames) /\ n \in Nat /\ n # 0
      /\ regionStack[1] = Frame(Null, 0, Null)
      /\ Top = regionStack[n] /\ regionStack[n] \in Frames
  BY <1>1, StackType, EmptySeq DEF StackSound, Top, Last
<1>6. CASE i # RegionInst[i]
  BY <1>2, <1>3, <1>4, <1>5, <1>6 DEF SameRegion, Built, StackSound
<1>7. CASE i = RegionInst[i]
  <2> DEFINE e == Edge(i, i, i)
             f == [regionStack[n] EXCEPT !.recur = pos]
             s == [regionStack EXCEPT ![n] = f]
             es == AddCount(edges, e, Top.recur)
  <2>1. regionStack' = s /\ edges' = es /\ edgeTimeline' = edgeTimeline /\ Top.node = i
    BY <1>5, <1>7 DEF SameRegion
  <2>2. n # 1
    BY <1>2, <1>5, <2>1, ProgramAssumption DEF ProgramAssumption, Frame
  <2>3. /\ f \in Frames /\ f.node = regionStack[n].node /\ f.bridge = regionStack[n].bridge
        /\ f.first = regionStack[n].first /\ f.recur = pos
    BY <1>2, <1>5 DEF Frames
  <2> HIDE DEF f
  <2>4. /\ s \in Seq(Frames) /\ Len(s) = n /\ s[n] = f
        /\ \A k \in 1 .. n : k # n => s[k] = regionStack[k]
    <3>1. n \in 1 .. Len(regionStack)
      BY <1>5
    <3>2. QED
      BY <1>5, <2>3, <3>1, ExceptSeq
  <2>5. e \in Edges /\ e.from = e.to /\ Top.recur \in Nat
    BY <1>2, <1>5 DEF Edge, Edges, Frames
  <2>6. /\ EdgeMap(es) /\ DOMAIN es = DOMAIN edges \cup {e}
        /\ \A x \in DOMAIN edges : x # e => es[x] = edges[x]
    BY <1>2, <2>5, AddCountType
  <2> HIDE DEF s, es
  <2>7. \A k \in 1 .. n : /\ s[k].node = regionStack[k].node
                          /\ s[k].bridge = regionStack[k].bridge
                          /\ s[k].first = regionStack[k].first
    BY <2>3, <2>4
  <2>8. \A k \in 2 .. n : Into(s, k) = Into(regionStack, k)
    <3>1. \A k \in 2 .. n : k \in 1 .. n /\ k - 1 \in 1 .. n
      BY <1>5
    <3>2. QED
      BY <2>7, <3>1 DEF Into
  <2>9. FramesOK(s, es, pos + 1)
    <3> SUFFICES ASSUME NEW k \in 2 .. n
                 PROVE  /\ s[k].node # Null /\ Into(s, k) \in DOMAIN es
                        /\ s[k].first <= s[k].recur /\ s[k].recur < pos + 1
                        /\ \A j \in 2 .. k - 1 : s[j].recur < s[k].first
                        /\ RegionInst[file[s[k].first + 1]] = s[k].node
      BY <2>4 DEF FramesOK
    <3>1. k \in 1 .. n /\ \A j \in 2 .. k - 1 : j \in 1 .. n /\ j # n
      BY <1>5
    <3>2. /\ regionStack[k].node # Null /\ Into(regionStack, k) \in DOMAIN edges
          /\ regionStack[k].first <= regionStack[k].recur /\ regionStack[k].recur < pos
          /\ \A j \in 2 .. k - 1 : regionStack[j].recur < regionStack[k].first
          /\ RegionInst[file[regionStack[k].first + 1]] = regionStack[k].node
      BY <1>1, BuildParts DEF FramesOK
    <3>3. s[k].recur = pos \/ s[k].recur = regionStack[k].recur
      BY <2>3, <2>4, <3>1
    <3>4. regionStack[k].recur \in Nat /\ regionStack[k].first \in Nat
      BY <1>1, <3>1, StackType
    <3>5. s[k].first <= s[k].recur /\ s[k].recur < pos + 1
      BY <1>2, <2>7, <3>1, <3>2, <3>3, <3>4
    <3>6. \A j \in 2 .. k - 1 : s[j].recur < s[k].first
      BY <2>4, <2>7, <3>1, <3>2
    <3>7. QED
      BY <2>6, <2>7, <2>8, <3>1, <3>2, <3>5, <3>6
  <2>10. ExactOK(s, es, edgeTimeline, pos + 1)
    <3> SUFFICES ASSUME NEW x \in DOMAIN es, x.from # x.to
                 PROVE  CountsOK(s, es, edgeTimeline, x, pos + 1)
      BY DEF ExactOK
    <3>1. x \in DOMAIN edges /\ es[x] = edges[x]
      BY <2>5, <2>6
    <3>2. OpenOf(s, x) = OpenOf(regionStack, x)
      <4>1. \A k \in 2 .. n : k \in 1 .. n
        BY <1>5
      <4>2. QED
        BY <2>4, <2>7, <2>8, <4>1 DEF OpenOf
    <3>3. CountsOK(regionStack, edges, edgeTimeline, x, pos + 1)
      BY <1>3, <3>1 DEF ExactOK
    <3>4. QED
      BY <3>1, <3>2, <3>3 DEF CountsOK, ClosedOf
  <2>11. edgeTimeline \in Seq([edge : DOMAIN es, inst : Nat])
    <3>1. [edge : DOMAIN edges, inst : Nat] \subseteq [edge : DOMAIN es, inst : Nat]
      BY <2>6
    <3>2. QED
      BY <1>4, <3>1, SeqMonotonic
  <2>12. s # <<>> /\ s[1] = Frame(Null, 0, Null) /\ s[Len(s)].node = RegionInst[i]
    <3>1. s # <<>> /\ 1 \in 1 .. n
      BY <1>5, <2>4, EmptySeq
    <3>2. QED
      BY <1>5, <1>7, <2>1, <2>2, <2>3, <2>4, <3>1
  <2>13. QED
    BY <1>4, <2>1, <2>4, <2>6, <2>9, <2>10, <2>11, <2>12 DEF Built
<1>8. QED
  BY <1>6, <1>7

(* A region is entered once the frames above the k-th have been popped.     *)
LEMMA PopPushStep ==
  ASSUME IInv, pos < Len(file), NEW k \in 1 .. Len(regionStack),
         NEW r \in Inst, r = RegionInst[file[pos + 1]], r # Top.node,
         regionStack[k].node # r, NEW bridge \in Inst \cup {Null},
         Push(k, Pop(k), r, bridge)
  PROVE  Built(regionStack', edges', edgeTimeline')
<1> DEFINE s == SubSeq(regionStack, 1, k)
           es == Pop(k)
           e == Edge(regionStack[k].node, bridge, r)
           f == Frame(r, pos, bridge)
<1>1. TypeOK /\ StackSound /\ ReadInv /\ EdgeCountsExact /\ TimelineInv
  BY DEF IInv
<1>2. /\ EdgeMap(es) /\ DOMAIN es = DOMAIN edges
      /\ FramesOK(s, es, pos) /\ ExactOK(s, es, edgeTimeline, pos + 1)
  BY <1>1, PopStep
<1>3. s \in Seq(Frames) /\ Len(s) = k /\ \A j \in 1 .. k : s[j] = regionStack[j]
  BY <1>1, StackType, SubSeqFrames
<1>4. /\ k \in Nat /\ k # 0 /\ k \in 1 .. k /\ 1 \in 1 .. k
      /\ pos \in Nat /\ r # Null
  <2>1. Len(regionStack) \in Nat
    BY <1>1, StackType
  <2>2. pos \in Nat
    BY <1>1 DEF TypeOK
  <2>3. r # Null
    BY ProgramAssumption DEF ProgramAssumption
  <2>4. QED
    BY <2>1, <2>2, <2>3
<1>5. s # <<>> /\ s[Len(s)] = regionStack[k] /\ s[1] = Frame(Null, 0, Null)
  BY <1>1, <1>3, <1>4, EmptySeq DEF StackSound
<1>6. /\ edgeTimeline \in Seq([edge : DOMAIN es, inst : Nat])
      /\ \A p \in DOMAIN edgeTimeline : edgeTimeline[p].inst < pos
      /\ TimelineOK(edgeTimeline, pos)
  BY <1>1, <1>2 DEF TypeOK, TimelineInv, TimelineOK
<1>7. f \in Frames /\ f.node = r
  BY <1>4 DEF Frame, Frames
<1>8. /\ regionStack' = Append(s, f)
      /\ edges' = AddEdge(es, e)
      /\ edgeTimeline' = TakePoint(edgeTimeline, e, pos)
  BY DEF Push, TakePoint
<1> HIDE DEF s, es, f
<1>9. /\ FramesOK(Append(s, f), AddEdge(es, e), pos + 1)
      /\ ExactOK(Append(s, f), AddEdge(es, e), TakePoint(edgeTimeline, e, pos), pos + 1)
      /\ e \in Edges
  <2>1. s[Len(s)].node # r /\ e = Edge(s[Len(s)].node, bridge, r)
    BY <1>5
  <2> HIDE DEF e
  <2>2. QED
    BY <1>2, <1>3, <1>4, <1>5, <1>6, <2>1, PushStep DEF f
<1> HIDE DEF e
<1>10. EdgeMap(AddEdge(es, e)) /\ DOMAIN AddEdge(es, e) = DOMAIN es \cup {e}
  BY <1>2, <1>9, AddEdgeType
<1>11. /\ edgeTimeline' \in Seq([edge : DOMAIN es \cup {e}, inst : Nat])
       /\ TimelineOK(edgeTimeline', pos + 1)
  <2> DEFINE E == DOMAIN es
             F == DOMAIN es \cup {e}
  <2>1. edgeTimeline \in Seq([edge : E, inst : Nat]) /\ E \subseteq F /\ e \in F
    BY <1>6
  <2> HIDE DEF E, F
  <2>2. /\ TakePoint(edgeTimeline, e, pos) \in Seq([edge : F, inst : Nat])
        /\ TimelineOK(TakePoint(edgeTimeline, e, pos), pos + 1)
    BY ONLY <1>4, <1>6, <2>1, TimelineAppend
  <2>3. QED
    BY <1>8, <2>2 DEF F
<1>12. /\ regionStack' \in Seq(Frames) /\ regionStack' # <<>>
       /\ regionStack'[1] = Frame(Null, 0, Null)
       /\ regionStack'[Len(regionStack')].node = r
  BY <1>3, <1>4, <1>5, <1>7, <1>8, AppendFrame, AppendProperties
<1>13. QED
  BY <1>8, <1>9, <1>10, <1>11, <1>12 DEF Built

LEMMA PopNothing ==
  ASSUME TypeOK
  PROVE  Pop(Len(regionStack)) = edges
<1>1. \A j : j \notin Len(regionStack) + 1 .. Len(regionStack)
  BY StackType
<1>2. \A e \in DOMAIN edges : Pop(Len(regionStack))[e] = edges[e]
  BY <1>1 DEF Pop
<1>3. DOMAIN Pop(Len(regionStack)) = DOMAIN edges
  BY DEF Pop
<1>4. edges = [e \in DOMAIN edges |-> edges[e]]
  BY DEF TypeOK
<1>5. QED
  BY <1>2, <1>3, <1>4 DEF Pop

LEMMA NewRegionStep ==
  ASSUME IInv, pos < Len(file), NEW i \in Inst, i = file[pos + 1], NewRegion(i)
  PROVE  Built(regionStack', edges', edgeTimeline')
<1> DEFINE n == Len(regionStack)
<1>1. TypeOK /\ StackSound
  BY DEF IInv
<1>2. n \in 1 .. n /\ Top = regionStack[n]
  BY <1>1, StackType, EmptySeq DEF StackSound, Top, Last
<1>3. Push(n, Pop(n), i, prevInst) /\ i = RegionInst[i] /\ i # Top.node
  BY <1>1, PopNothing DEF NewRegion
<1>4. prevInst \in Inst \cup {Null}
  BY <1>1 DEF TypeOK
<1>5. QED
  BY <1>2, <1>3, <1>4, PopPushStep

LEMMA OldRegionStep ==
  ASSUME IInv, pos < Len(file), NEW i \in Inst, i = file[pos + 1], OldRegion(i)
  PROVE  Built(regionStack', edges', edgeTimeline')
<1> DEFINE r == RegionInst[i]
<1>1. TypeOK /\ StackSound /\ ReadInv /\ EdgeCountsExact /\ TimelineInv
  BY DEF IInv
<1>2. r \in Inst /\ r # Null /\ r # Top.node
  BY ProgramAssumption DEF ProgramAssumption, OldRegion
<1>3. CASE FrameOf(r) = {}
  <2>1. Push(1, Pop(1), r, Null)
    BY <1>3 DEF OldRegion
  <2>2. 1 \in 1 .. Len(regionStack) /\ regionStack[1].node = Null
    BY <1>1, StackType, EmptySeq DEF StackSound, Frame
  <2>3. QED
    BY <1>2, <2>1, <2>2, PopPushStep
<1>4. ASSUME NEW k \in FrameOf(r), regionStack' = SubSeq(regionStack, 1, k),
             edges' = Pop(k), UNCHANGED edgeTimeline
      PROVE  Built(regionStack', edges', edgeTimeline')
  <2> DEFINE s == SubSeq(regionStack, 1, k)
             es == Pop(k)
  <2>1. k \in 1 .. Len(regionStack) /\ k \in 1 .. k /\ 1 \in 1 .. k /\ regionStack[k].node = r
    BY <1>1, StackType DEF FrameOf
  <2>2. /\ EdgeMap(es) /\ DOMAIN es = DOMAIN edges
        /\ FramesOK(s, es, pos) /\ ExactOK(s, es, edgeTimeline, pos + 1)
    BY <1>1, <1>2, <2>1, PopStep
  <2>3. s \in Seq(Frames) /\ Len(s) = k /\ \A j \in 1 .. k : s[j] = regionStack[j]
    BY <1>1, <2>1, StackType, SubSeqFrames
  <2>4. /\ edgeTimeline \in Seq([edge : DOMAIN es, inst : Nat]) /\ TimelineOK(edgeTimeline, pos + 1)
    <3>1. pos \in Nat /\ edgeTimeline \in Seq([edge : DOMAIN edges, inst : Nat])
      BY <1>1 DEF TypeOK
    <3>2. \A p \in DOMAIN edgeTimeline : edgeTimeline[p].inst \in Nat
      BY <3>1, PointType
    <3>3. QED
      BY <1>1, <2>2, <3>1, <3>2 DEF TimelineInv, TimelineOK
  <2>5. FramesOK(s, es, pos + 1)
    <3>1. pos \in Nat
      BY <1>1 DEF TypeOK
    <3> HIDE DEF s, es
    <3>2. QED
      BY <2>2, <2>3, <3>1, Later
  <2>6. s # <<>> /\ s[1] = Frame(Null, 0, Null) /\ s[Len(s)].node = r
    BY <1>1, <2>1, <2>3, EmptySeq DEF StackSound
  <2>7. QED
    BY <1>4, <2>2, <2>3, <2>4, <2>5, <2>6 DEF Built
<1>5. QED
  BY <1>3, <1>4 DEF OldRegion

LEMMA AddInstructionStep == IInv /\ AddInstruction => IInv'
<1> SUFFICES ASSUME IInv, AddInstruction PROVE IInv'
  OBVIOUS
<1> DEFINE i == file[pos + 1]
<1>1. TypeOK /\ phase = "build" /\ phase' = "build" /\ pos < Len(file) /\ pos' = pos + 1
      /\ prevInst' = i /\ file' = file /\ UNCHANGED <<program, recorder, selected, cutter>>
  BY DEF IInv, AddInstruction, recorder
<1>2. pos \in Nat /\ pos + 1 \in 1 .. Len(file) /\ i \in Inst
  <2>1. pos \in Nat /\ pos + 1 \in 1 .. Len(file) /\ file \in Seq(Inst)
    BY <1>1 DEF TypeOK
  <2>2. QED
    BY <2>1
<1>3. Built(regionStack', edges', edgeTimeline')
  BY <1>1, <1>2, SameRegionStep, NewRegionStep, OldRegionStep DEF AddInstruction
<1>4. StackSound' /\ ReadInv' /\ EdgeCountsExact'
  <2>1. FramesOK(regionStack, edges, pos)' /\ ExactOK(regionStack, edges, edgeTimeline, pos)'
    BY <1>1, <1>3 DEF Built, FramesOK, ExactOK, CountsOK
  <2>2. (regionStack # <<>> /\ regionStack[1] = Frame(Null, 0, Null))'
    BY <1>3 DEF Built
  <2>3. (Top.node = (IF prevInst = Null THEN Null ELSE RegionInst[prevInst]))'
    BY <1>1, <1>2, <1>3, ProgramAssumption DEF Built, Top, Last, ProgramAssumption
  <2>4. (prevInst = IF pos = 0 THEN Null ELSE file[pos])'
    BY <1>1, <1>2
  <2>5. QED
    BY <2>1, <2>2, <2>3, <2>4, BuildWhole
<1>5. /\ selectedEdges = {} /\ cuts = {} /\ nextPoint = 0 /\ bufferedBB = <<>>
      /\ lhs = 0 /\ rhs = 0 /\ rhsMark = 0 /\ logger = NewLogger
  BY <1>1 DEF IInv, PhaseInv
<1>6. TypeOK'
  <2>1. /\ regionStack' \in Seq(Frames) /\ EdgeMap(edges')
        /\ edgeTimeline' \in Seq([edge : DOMAIN edges', inst : Nat])
    BY <1>3 DEF Built
  <2>2. pos' \in 0 .. Len(file') /\ prevInst' \in Inst \cup {Null}
    BY <1>1, <1>2
  <2>3. QED
    BY <1>1, <1>5, <2>1, <2>2 DEF TypeOK, EdgeMap, program, recorder, selected, cutter
<1>7. TimelineInv'
  BY <1>1, <1>3 DEF Built, TimelineOK, TimelineInv
<1>8. PhaseInv' /\ RecordedInOrder'
  BY <1>1 DEF IInv, PhaseInv, RecordedInOrder, program, recorder, selected, cutter
<1>9. CutInv' /\ IntervalsContiguous' /\ IntervalsLargeEnough'
  BY <1>1, <1>5 DEF CutInv, At, NextCut, IntervalsContiguous, IntervalsLargeEnough,
     NewLogger, selected, cutter
<1>10. QED
  BY <1>4, <1>6, <1>7, <1>8, <1>9 DEF IInv

-----------------------------------------------------------------------------
(* Selecting edges and cutting *)

LEMMA TreeUnchanged ==
  ASSUME IInv, UNCHANGED <<file, pos, tree>>
  PROVE  StackSound' /\ ReadInv' /\ EdgeCountsExact' /\ TimelineInv'
<1>1. StackSound /\ ReadInv /\ EdgeCountsExact /\ TimelineInv
  BY DEF IInv
<1>2. UNCHANGED <<file, pos, regionStack, prevInst, edges, edgeTimeline>>
  BY DEF tree
<1>3. \A k : EdgeInto(k)' = EdgeInto(k)
  BY <1>2 DEF EdgeInto
<1>4. Top' = Top
  BY <1>2 DEF Top
<1>5. StackSound'
  BY ONLY <1>1, <1>2, <1>3, <1>4 DEF StackSound
<1>6. ReadInv'
  BY ONLY <1>1, <1>2 DEF ReadInv
<1>7. \A e : Open(e)' = Open(e) /\ Closed(e)' = Closed(e) /\ Taken(e)' = Taken(e)
  BY ONLY <1>2, <1>3 DEF Open, Closed, Taken
<1>8. EdgeCountsExact'
  BY ONLY <1>1, <1>2, <1>7 DEF EdgeCountsExact
<1>9. TimelineInv'
  BY ONLY <1>1, <1>2 DEF TimelineInv
<1>10. QED
  BY <1>5, <1>6, <1>8, <1>9

LEMMA AtType ==
  ASSUME TypeOK, NEW k \in DOMAIN edgeTimeline
  PROVE  At(k) \in Nat
  BY PointType DEF TypeOK, At

LEMMA MarkCountType ==
  ASSUME TypeOK, NEW k
  PROVE  MarkCount(k) \in Nat
<1> DEFINE n == Len(edgeTimeline)
           M == {j \in Points : j < k}
<1>1. n \in Nat /\ DOMAIN edgeTimeline = 1 .. n
  BY PointType DEF TypeOK
<1>2. M \subseteq 1 .. n
  BY <1>1 DEF Points, PointsOf
<1>3. IsFiniteSet(1 .. n)
  BY <1>1, FS_Interval
<1>4. IsFiniteSet(M)
  BY <1>2, <1>3, FS_Subset
<1>5. QED
  BY <1>4, FS_CardinalityType DEF MarkCount

LEMMA SelectEdgesStep == IInv /\ SelectEdges => IInv'
<1> SUFFICES ASSUME IInv, SelectEdges PROVE IInv'
  OBVIOUS
<1>1. /\ TypeOK /\ phase = "build" /\ phase' = "cut" /\ pos = Len(file)
      /\ UNCHANGED <<program, recorder, pos, tree, rhsMark, logger>>
  BY DEF IInv, SelectEdges
<1>2. UNCHANGED <<at, pending, executed, bufferedBB, file, profile,
                  regionStack, prevInst, edges, edgeTimeline>>
  BY <1>1 DEF program, recorder, tree
<1>3. /\ lhs = 0 /\ rhs = 0 /\ rhsMark = 0 /\ logger = NewLogger /\ nextPoint = 0
      /\ bufferedBB = <<>>
  BY <1>1 DEF IInv, PhaseInv
<1>4. selectedEdges' \subseteq DOMAIN edges
  BY DEF SelectEdges, CandidateEdges, InEdges
<1>5. /\ cuts' \subseteq PointsOf(selectedEdges')
      /\ \A j, k \in cuts' : j < k => At(k) - At(j) >= IntervalMinInst
  BY DEF SelectEdges, CutsOf, At
<1>6. PointsOf(selectedEdges') = Points' /\ Points' \subseteq DOMAIN edgeTimeline
  BY <1>2 DEF Points, PointsOf
<1>7. \A j : At(j)' = At(j)
  BY <1>2 DEF At
<1>8. \/ /\ NextCut(cuts', 0) = {} /\ UNCHANGED <<lhs, rhs, nextPoint>>
      \/ \E k \in cuts' : /\ lhs' = At(k) /\ rhs' = At(k) /\ nextPoint' = k
                          /\ At(k) \in Nat /\ k # 0
  <2>1. ASSUME NEW k \in NextCut(cuts', 0),
               lhs' = edgeTimeline[k].inst, rhs' = lhs', nextPoint' = k
        PROVE  /\ k \in cuts' /\ lhs' = At(k) /\ rhs' = At(k) /\ nextPoint' = k
               /\ At(k) \in Nat /\ k # 0
    <3>1. k \in cuts' /\ k > 0
      BY DEF NextCut
    <3>2. k \in DOMAIN edgeTimeline
      BY <1>5, <1>6, <3>1
    <3>3. k \in Nat
      BY <1>1, <3>2, PointType DEF TypeOK
    <3>4. At(k) \in Nat
      BY <1>1, <3>2, AtType
    <3>5. QED
      BY <2>1, <3>1, <3>3, <3>4 DEF At
  <2>2. QED
    BY <2>1 DEF SelectEdges
<1>9. TypeOK'
  <2>1. /\ lhs' \in Nat /\ rhs' \in Nat /\ nextPoint' \in cuts' \cup {0}
    BY <1>3, <1>8
  <2>2. QED
    BY <1>1, <1>2, <1>4, <1>5, <1>6, <2>1 DEF TypeOK
<1>10. PhaseInv' /\ RecordedInOrder'
  BY <1>1, <1>2, <1>3 DEF IInv, PhaseInv, RecordedInOrder
<1>11. CutInv'
  <2>1. (\A j, k \in cuts : j < k => At(k) - At(j) >= IntervalMinInst)'
    BY <1>5, <1>7
  <2>2. lhs' = rhs' /\ logger' = NewLogger /\ logger'.count = 0 /\ logger'.saved = <<>>
    BY <1>1, <1>3, <1>8 DEF NewLogger
  <2>3. CASE NextCut(cuts', 0) = {} /\ UNCHANGED <<lhs, rhs, nextPoint>>
    <3>1. NextCut(cuts, nextPoint)' = {}
      BY <1>3, <2>3 DEF NextCut
    <3>2. QED
      BY <1>3, <2>1, <2>2, <2>3, <3>1 DEF CutInv
  <2>4. ASSUME NEW k \in cuts', lhs' = At(k), rhs' = At(k), nextPoint' = k,
               At(k) \in Nat, k # 0
        PROVE  CutInv'
    BY <1>7, <2>1, <2>2, <2>4 DEF CutInv
  <2>5. QED
    BY <1>8, <2>3, <2>4
<1>12. IntervalsContiguous' /\ IntervalsLargeEnough'
  <2>1. lhs' = rhs' /\ logger'.saved = <<>> /\ lhs' \in Nat
    BY <1>1, <1>3, <1>8 DEF NewLogger
  <2>2. QED
    BY <2>1 DEF IntervalsContiguous, IntervalsLargeEnough
<1>13. QED
  BY <1>2, <1>9, <1>10, <1>11, <1>12, TreeUnchanged DEF IInv, tree, SelectEdges

LEMMA FinishStep == IInv /\ Finish => IInv'
<1> SUFFICES ASSUME IInv, Finish PROVE IInv'
  OBVIOUS
<1> USE DEF IInv, Finish, program, recorder, tree, selected, cutter
<1>1. TypeOK'
  BY DEF TypeOK, Points, PointsOf
<1>2. PhaseInv' /\ RecordedInOrder'
  BY DEF PhaseInv, RecordedInOrder
<1>3. CutInv' /\ IntervalsContiguous' /\ IntervalsLargeEnough'
  BY DEF CutInv, At, NextCut, IntervalsContiguous, IntervalsLargeEnough
<1>4. QED
  BY <1>1, <1>2, <1>3, TreeUnchanged

(* The next cut is far from the last one. *)
LEMMA NextCutFar ==
  ASSUME IInv, nextPoint # 0, NEW k \in NextCut(cuts, nextPoint)
  PROVE  /\ k \in cuts /\ At(k) \in Nat /\ k # 0
         /\ At(k) - rhs >= IntervalMinInst
<1>1. TypeOK /\ CutInv
  BY DEF IInv
<1>2. k \in cuts /\ k > nextPoint
  BY DEF NextCut
<1>3. nextPoint \in cuts /\ rhs = At(nextPoint)
  BY <1>1 DEF TypeOK, CutInv
<1>4. k \in DOMAIN edgeTimeline /\ DOMAIN edgeTimeline = 1 .. Len(edgeTimeline)
  BY <1>1, <1>2, PointType DEF TypeOK, Points, PointsOf
<1>5. At(k) - At(nextPoint) >= IntervalMinInst
  BY <1>1, <1>2, <1>3 DEF CutInv
<1>6. QED
  BY <1>1, <1>2, <1>3, <1>4, <1>5, AtType

(* What the restarted logger is. *)
LEMMA RestartType ==
  ASSUME TypeOK
  PROVE  /\ Restart \in Loggers /\ Restart.count = logger.count
         /\ ~Due => Restart = logger
         /\ Due /\ ~(rhs > lhs) => Restart.saved = logger.saved
         /\ Due /\ rhs > lhs =>
              /\ Restart.lhs = logger.count
              /\ \E v \in Intervals : /\ v.lhs = logger.lhs /\ v.rhs = logger.count
                                      /\ Restart.saved = Append(logger.saved, v)
         /\ Due => Restart.lhs = logger.count
<1>1. logger \in Loggers /\ rhsMark \in Nat
  BY DEF TypeOK
<1>2. QED
  BY <1>1, DiscardType, SaveType DEF Restart

(* The saved intervals stay contiguous and large enough when one is added.  *)
LEMMA SavedAppend ==
  ASSUME NEW saved \in Seq(Intervals), NEW v \in Intervals,
         \A k \in 1 .. Len(saved) - 1 : saved[k].rhs = saved[k + 1].lhs,
         \A k \in DOMAIN saved : saved[k].rhs - saved[k].lhs >= IntervalMinInst,
         \A n \in DOMAIN saved : n = Len(saved) => saved[n].rhs = v.lhs,
         v.rhs - v.lhs >= IntervalMinInst,
         NEW t, t = Append(saved, v)
  PROVE  /\ \A k \in 1 .. Len(t) - 1 : t[k].rhs = t[k + 1].lhs
         /\ \A k \in DOMAIN t : t[k].rhs - t[k].lhs >= IntervalMinInst
         /\ \A n \in DOMAIN t : n = Len(t) => t[n].rhs = v.rhs
<1> DEFINE n == Len(saved)
<1>1. /\ n \in Nat /\ Len(t) = n + 1 /\ DOMAIN t = 1 .. n + 1 /\ DOMAIN saved = 1 .. n
      /\ t[n + 1] = v /\ \A k \in 1 .. n : t[k] = saved[k]
  BY AppendProperties, LenProperties
<1> HIDE DEF n
<1>2. ASSUME NEW k \in 1 .. Len(t) - 1
      PROVE  t[k].rhs = t[k + 1].lhs
  <2>1. CASE k = n
    BY <1>1, <2>1 DEF n
  <2>2. CASE k # n
    <3>1. k \in 1 .. n - 1 /\ k \in 1 .. n /\ k + 1 \in 1 .. n
      BY <1>1, <2>2
    <3>2. QED
      BY <1>1, <3>1 DEF n
  <2>3. QED
    BY <2>1, <2>2
<1>3. ASSUME NEW k \in DOMAIN t
      PROVE  t[k].rhs - t[k].lhs >= IntervalMinInst
  <2>1. k \in 1 .. n \/ k = n + 1
    BY <1>1
  <2>2. QED
    BY <1>1, <2>1
<1>4. QED
  BY <1>1, <1>2, <1>3

LEMMA FarIsLater ==
  ASSUME NEW x \in Nat, NEW y \in Nat, y - x >= IntervalMinInst
  PROVE  x + 1 <= y /\ x # y
  BY ProgramAssumption DEF ProgramAssumption

LEMMA CutIntervalStep == IInv /\ CutInterval => IInv'
<1> SUFFICES ASSUME IInv, CutInterval PROVE IInv'
  OBVIOUS
<1>1. /\ TypeOK /\ CutInv /\ IntervalsContiguous /\ IntervalsLargeEnough
      /\ phase = "cut" /\ phase' = "cut" /\ logger.count < Len(file)
      /\ lhs' = (IF Due THEN rhs ELSE lhs)
      /\ UNCHANGED <<phase, program, recorder, pos, tree, selected>>
  BY DEF IInv, CutInterval
<1>2. UNCHANGED <<at, pending, executed, bufferedBB, file, profile,
                  regionStack, prevInst, edges, edgeTimeline, selectedEdges, cuts>>
  BY <1>1 DEF program, recorder, tree, selected
<1>3. /\ lhs \in Nat /\ rhs \in Nat /\ rhsMark \in Nat /\ logger \in Loggers
      /\ logger.count \in Nat /\ logger.saved \in Seq(Intervals)
      /\ IntervalMinInst \in Nat \ {0}
  BY <1>1, ProgramAssumption DEF TypeOK, Loggers, ProgramAssumption
<1>4. /\ logger' \in Loggers /\ logger'.count = logger.count + 1
      /\ logger'.lhs = Restart.lhs /\ logger'.saved = Restart.saved
  <2>1. logger.count + 1 \in 1 .. Len(file) /\ file \in Seq(Inst)
    BY <1>1, <1>3 DEF TypeOK
  <2>2. BlockOf[file[logger.count + 1]] \in Blocks
    BY <2>1, ElementOfSeq, ProgramAssumption DEF ProgramAssumption
  <2>3. logger' = LogInst(Restart, BlockOf[file[logger.count + 1]])
    BY DEF CutInterval
  <2>4. QED
    BY <1>1, <2>2, <2>3, RestartType, LogInstType
<1>5. \/ UNCHANGED <<rhs, rhsMark, nextPoint>> /\ (Due => NextCut(cuts, nextPoint) = {})
      \/ \E k \in NextCut(cuts, nextPoint) :
           Due /\ rhs' = At(k) /\ rhsMark' = MarkCount(k) /\ nextPoint' = k
  BY DEF CutInterval, At
<1>6. /\ nextPoint = 0 => NextCut(cuts, nextPoint) = {} /\ lhs = 0 /\ rhs = 0
      /\ nextPoint # 0 => rhs = At(nextPoint)
      /\ lhs # rhs => /\ logger.lhs = lhs /\ logger.count <= rhs
                      /\ rhs - lhs >= IntervalMinInst
                      /\ \A n \in DOMAIN logger.saved :
                           n = Len(logger.saved) => logger.saved[n].rhs = lhs
      /\ lhs = rhs => \/ NextCut(cuts, nextPoint) = {}
                      \/ logger.count <= rhs /\ logger.saved = <<>>
  BY <1>1 DEF CutInv
<1>7. \/ UNCHANGED <<rhs, rhsMark, nextPoint>> /\ (Due => NextCut(cuts, nextPoint) = {})
      \/ /\ Due /\ nextPoint # 0 /\ nextPoint' \in cuts /\ nextPoint' # 0
         /\ rhs' = At(nextPoint') /\ rhs' \in Nat /\ rhsMark' \in Nat
         /\ rhs' - rhs >= IntervalMinInst /\ NextCut(cuts, nextPoint) # {}
  BY <1>1, <1>5, <1>6, NextCutFar, MarkCountType
<1>8. \A k : At(k)' = At(k)
  BY <1>2 DEF At
<1> DEFINE Gaps(t) == \A k \in 1 .. Len(t) - 1 : t[k].rhs = t[k + 1].lhs
           Large(t) == \A k \in DOMAIN t : t[k].rhs - t[k].lhs >= IntervalMinInst
           EndsAt(t, x) == \A n \in DOMAIN t : n = Len(t) => t[n].rhs = x
           Stand(t) == /\ lhs' # rhs' => /\ logger'.lhs = lhs' /\ logger'.count <= rhs'
                                         /\ rhs' - lhs' >= IntervalMinInst
                                         /\ EndsAt(t, lhs')
                       /\ lhs' = rhs' => \/ NextCut(cuts, nextPoint') = {}
                                         \/ logger'.count <= rhs' /\ t = <<>>
<1>9. Gaps(logger.saved) /\ Large(logger.saved)
  BY <1>1 DEF IntervalsContiguous, IntervalsLargeEnough
<1>10. /\ nextPoint' = 0 => NextCut(cuts, nextPoint') = {} /\ lhs' = 0 /\ rhs' = 0
       /\ nextPoint' # 0 => rhs' = At(nextPoint')
  <2> HIDE DEF Gaps, Large, EndsAt, Stand
  <2>1. QED
    BY <1>1, <1>6, <1>7
<1>11. Gaps(logger'.saved) /\ Large(logger'.saved) /\ Stand(logger'.saved)
  <2>1. CASE ~Due
    <3>1. /\ logger'.saved = logger.saved /\ logger'.lhs = logger.lhs
          /\ lhs' = lhs /\ UNCHANGED <<rhs, rhsMark, nextPoint>>
          /\ logger.count + 1 <= rhs
      BY <1>1, <1>3, <1>4, <1>7, <2>1, RestartType DEF Due
    <3>2. Stand(logger'.saved)
      BY <1>4, <1>6, <3>1
    <3> HIDE DEF Gaps, Large, Stand
    <3>3. QED
      BY <1>9, <3>1, <3>2
  <2>2. CASE Due /\ rhs > lhs
    <3>1. /\ logger.lhs = lhs /\ logger.count = rhs /\ rhs - lhs >= IntervalMinInst
          /\ EndsAt(logger.saved, lhs) /\ nextPoint # 0
      BY <1>3, <1>6, <2>2 DEF Due
    <3>2. PICK v \in Intervals : /\ v.lhs = lhs /\ v.rhs = rhs
                                /\ logger'.saved = Append(logger.saved, v)
      BY <1>1, <1>4, <2>2, <3>1, RestartType
    <3>3. Gaps(logger'.saved) /\ Large(logger'.saved) /\ EndsAt(logger'.saved, rhs)
      <4>1. /\ \A k \in 1 .. Len(logger.saved) - 1 :
                 logger.saved[k].rhs = logger.saved[k + 1].lhs
            /\ \A k \in DOMAIN logger.saved :
                 logger.saved[k].rhs - logger.saved[k].lhs >= IntervalMinInst
            /\ \A n \in DOMAIN logger.saved :
                 n = Len(logger.saved) => logger.saved[n].rhs = lhs
        BY <1>9, <3>1
      <4>2. rhs - lhs >= IntervalMinInst /\ logger.saved \in Seq(Intervals)
        BY <1>3, <3>1
      <4> HIDE DEF Gaps, Large, EndsAt, Stand
      <4>3. /\ \A k \in 1 .. Len(logger'.saved) - 1 :
                 logger'.saved[k].rhs = logger'.saved[k + 1].lhs
            /\ \A k \in DOMAIN logger'.saved :
                 logger'.saved[k].rhs - logger'.saved[k].lhs >= IntervalMinInst
            /\ \A n \in DOMAIN logger'.saved :
                 n = Len(logger'.saved) => logger'.saved[n].rhs = v.rhs
        BY ONLY <4>1, <4>2, <3>2, SavedAppend
      <4>4. QED
        BY <3>2, <4>3 DEF Gaps, Large, EndsAt
    <3>4. /\ lhs' = rhs /\ logger'.lhs = rhs /\ logger'.count = rhs + 1
      BY <1>1, <1>4, <2>2, <3>1, RestartType
    <3> HIDE DEF Gaps, Large, EndsAt
    <3>5. Stand(logger'.saved)
      BY <1>3, <1>7, <2>2, <3>3, <3>4
    <3>6. QED
      BY <3>3, <3>5
  <2>3. CASE Due /\ ~(rhs > lhs)
    <3>1. lhs = rhs
      BY <1>3, <1>6, <2>3
    <3>2. /\ lhs' = rhs /\ logger'.saved = logger.saved /\ logger'.lhs = logger.count
          /\ logger'.count = logger.count + 1
      BY <1>1, <1>4, <2>3, RestartType
    <3>3. NextCut(cuts, nextPoint) # {} => logger.count = rhs /\ logger.saved = <<>>
      BY <1>3, <1>6, <2>3, <3>1 DEF Due
    <3>4. Stand(logger'.saved)
      <4> HIDE DEF Gaps, Large
      <4>1. CASE UNCHANGED <<rhs, rhsMark, nextPoint>> /\ NextCut(cuts, nextPoint) = {}
        BY <3>2, <4>1
      <4>2. CASE /\ NextCut(cuts, nextPoint) # {} /\ rhs' \in Nat
                 /\ rhs' - rhs >= IntervalMinInst
        <5>1. logger'.saved = <<>> /\ DOMAIN logger'.saved = {}
          BY <3>2, <3>3, <4>2
        <5>2. lhs' # rhs' /\ logger'.lhs = lhs' /\ logger'.count <= rhs'
              /\ rhs' - lhs' >= IntervalMinInst
          <6>1. logger.count = rhs
            BY <3>3, <4>2
          <6>2. lhs' = rhs /\ logger'.lhs = rhs /\ logger'.count = rhs + 1
            BY <3>2, <6>1
          <6>3. rhs + 1 <= rhs' /\ rhs # rhs'
            BY <1>3, <4>2, FarIsLater
          <6>4. QED
            BY <4>2, <6>2, <6>3
        <5>3. QED
          BY <5>1, <5>2
      <4>3. QED
        BY <1>7, <2>3, <4>1, <4>2
    <3> HIDE DEF Gaps, Large, Stand
    <3>5. QED
      BY <1>9, <3>2, <3>4
  <2>4. QED
    BY <2>1, <2>2, <2>3
<1>12. CutInv'
  <2>1. (\A j, k \in cuts : j < k => At(k) - At(j) >= IntervalMinInst)'
    BY <1>1, <1>2, <1>8 DEF CutInv
  <2>2. NextCut(cuts', nextPoint') = NextCut(cuts, nextPoint')
    BY <1>2
  <2>3. Stand(logger'.saved)
    BY <1>11
  <2>4. QED
    BY <1>8, <1>10, <2>1, <2>2, <2>3 DEF CutInv
<1>13. lhs' \in Nat /\ rhs' \in Nat /\ rhsMark' \in Nat /\ nextPoint' \in cuts \cup {0}
  <2>1. nextPoint \in cuts \cup {0}
    BY <1>1 DEF TypeOK
  <2> HIDE DEF Gaps, Large, EndsAt, Stand
  <2>2. QED
    BY <1>1, <1>3, <1>7, <2>1
<1>14. TypeOK'
  <2>1. Points' = Points
    BY <1>2 DEF Points, PointsOf
  <2>2. QED
    BY <1>1, <1>2, <1>4, <1>13, <2>1 DEF TypeOK
<1>15. IntervalsContiguous' /\ IntervalsLargeEnough'
  <2>1. Gaps(logger'.saved) /\ Large(logger'.saved)
    BY <1>11
  <2>2. (Due /\ rhs > lhs => logger.lhs = lhs /\ logger.count = rhs)'
    <3>1. lhs' # rhs' => logger'.lhs = lhs' /\ logger'.count <= rhs'
      BY <1>11
    <3>2. lhs' \in Nat /\ rhs' \in Nat /\ logger'.count \in Nat
      BY <1>3, <1>4, <1>13
    <3> HIDE DEF Gaps, Large, EndsAt, Stand
    <3>3. QED
      BY <3>1, <3>2 DEF Due
  <2>3. QED
    BY <2>1, <2>2 DEF IntervalsContiguous, IntervalsLargeEnough
<1>16. StackSound' /\ ReadInv' /\ EdgeCountsExact' /\ TimelineInv'
  BY <1>1, <1>2, TreeUnchanged
<1>17. PhaseInv' /\ RecordedInOrder'
  <2>1. PhaseInv /\ RecordedInOrder
    BY DEF IInv
  <2>2. PhaseInv'
    BY ONLY <1>1, <1>2, <2>1 DEF PhaseInv
  <2>3. RecordedInOrder'
    BY ONLY <1>1, <1>2, <2>1 DEF RecordedInOrder
  <2>4. QED
    BY <2>2, <2>3
<1>18. QED
  BY <1>12, <1>14, <1>15, <1>16, <1>17 DEF IInv

LEMMA StutterStep == IInv /\ UNCHANGED vars => IInv'
<1> SUFFICES ASSUME IInv, UNCHANGED vars PROVE IInv'
  OBVIOUS
<1>1. UNCHANGED <<phase, at, pending, executed, bufferedBB, file, profile, pos,
                  regionStack, prevInst, edges, edgeTimeline, selectedEdges, cuts,
                  lhs, rhs, rhsMark, nextPoint, logger>>
  BY DEF vars, program, recorder, tree, selected, cutter
<1>2. TypeOK /\ PhaseInv /\ RecordedInOrder /\ CutInv /\ IntervalsContiguous
      /\ IntervalsLargeEnough
  BY DEF IInv
<1>3. TypeOK'
  <2>1. Points' = Points
    BY <1>1 DEF Points, PointsOf
  <2>2. QED
    BY ONLY <1>1, <1>2, <2>1 DEF TypeOK
<1>4. PhaseInv' /\ RecordedInOrder'
  BY ONLY <1>1, <1>2 DEF PhaseInv, RecordedInOrder
<1>5. StackSound' /\ ReadInv' /\ EdgeCountsExact' /\ TimelineInv'
  BY <1>1, TreeUnchanged DEF tree
<1>6. CutInv'
  BY ONLY <1>1, <1>2 DEF CutInv, At
<1>7. IntervalsContiguous' /\ IntervalsLargeEnough'
  BY ONLY <1>1, <1>2 DEF IntervalsContiguous, IntervalsLargeEnough, Due
<1>8. QED
  BY <1>3, <1>4, <1>5, <1>6, <1>7 DEF IInv

-----------------------------------------------------------------------------

(* The invariant is inductive, so that it holds in every execution. *)
THEOREM Invariant == Spec => []IInv
<1>1. IInv /\ [Next]_vars => IInv'
  BY PrintInstStep, ExitStep, AddInstructionStep, SelectEdgesStep, CutIntervalStep,
     FinishStep, StutterStep DEF Next
<1>2. QED
  BY InitInv, <1>1, PTL DEF Spec

(* Type correctness of recording, profile, stack, edges and cuts. *)
THEOREM TypeCorrect == Spec => []TypeOK
<1>1. IInv => TypeOK
  BY DEF IInv
<1>2. QED
  BY <1>1, Invariant, PTL

(* Whatever the limit of its buffer, BasicBlockTracer writes what the       *)
(* thread executes, all of it and in order.                                 *)
THEOREM RecordingFaithful == Spec => []RecordedInOrder
<1>1. IInv => RecordedInOrder
  BY DEF IInv
<1>2. QED
  BY <1>1, Invariant, PTL

(* Whatever the program and where recording starts, the stack of regions    *)
(* follows control, and no frame is popped whose edge is not known.         *)
THEOREM StackFollowsControl == Spec => []StackSound
<1>1. IInv => StackSound
  BY DEF IInv
<1>2. QED
  BY <1>1, Invariant, PTL

(* Each time an edge is taken is counted once, however deep the program     *)
(* recurs and however many regions it leaves at once.                       *)
THEOREM EdgesCountedOnce == Spec => []EdgeCountsExact
<1>1. IInv => EdgeCountsExact
  BY DEF IInv
<1>2. QED
  BY <1>1, Invariant, PTL

(* The assertion of generateProfileInterval never fails, and the intervals  *)
(* it saves leave nothing out between the first cut and the last.           *)
THEOREM NoGaps == Spec => []IntervalsContiguous
<1>1. IInv => IntervalsContiguous
  BY DEF IInv
<1>2. QED
  BY <1>1, Invariant, PTL

(* No interval is smaller than the option asks for. *)
THEOREM NoSmallInterval == Spec => []IntervalsLargeEnough
<1>1. IInv => IntervalsLargeEnough
  BY DEF IInv
<1>2. QED
  BY <1>1, Invariant, PTL

-----------------------------------------------------------------------------
(* The intervals lie between the cuts *)

LEMMA LeastElement ==
  ASSUME NEW T, T \subseteq Nat, T # {}
  PROVE  \E x \in T : \A y \in T : x <= y
<1>1. PICK R : R = OpToRel(<, Nat)
  OBVIOUS
<1>2. IsWellFoundedOn(R, Nat)
  BY <1>1, NatLessThanWellFounded
<1>3. \A y, x \in Nat : y < x => <<y, x>> \in R
  BY <1>1, Zenon DEF OpToRel
<1>4. PICK x \in T : \A y \in T : ~ (<<y, x>> \in R)
  BY ONLY <1>2, WFMin, T \subseteq Nat, T # {}
<1>5. \A y \in T : ~ (y < x)
  BY ONLY <1>3, <1>4, T \subseteq Nat
<1>6. QED
  BY ONLY <1>5, T \subseteq Nat, x \in T

(* How many cuts are before c? *)
Rank(c) == Cardinality({d \in cuts : d < c})

LEMMA CutTypes ==
  ASSUME TypeOK
  PROVE  /\ cuts \subseteq Nat \ {0} /\ cuts \subseteq Points /\ Points \subseteq DOMAIN edgeTimeline
         /\ Points \subseteq Nat \ {0} /\ IsFiniteSet(Points) /\ IsFiniteSet(cuts)
<1>1. PICK n \in Nat : n = Len(edgeTimeline) /\ DOMAIN edgeTimeline = 1 .. n
  BY PointType DEF TypeOK
<1>2. Points \subseteq 1 .. n /\ cuts \subseteq Points
  BY ONLY <1>1, TypeOK DEF TypeOK, Points, PointsOf
<1>3. IsFiniteSet(1 .. n)
  BY FS_Interval
<1>4. IsFiniteSet(Points) /\ IsFiniteSet(cuts)
  BY <1>2, <1>3, FS_Subset
<1>5. 1 .. n \subseteq Nat \ {0}
  OBVIOUS
<1>6. QED
  BY ONLY <1>1, <1>2, <1>4, <1>5

LEMMA NextRank ==
  ASSUME TypeOK, NEW c \in cuts
  PROVE  /\ Rank(c) \in Nat
         /\ \A k \in NextCut(cuts, c) : Rank(k) = Rank(c) + 1
         /\ NextCut(cuts, c) = {} => Cardinality(cuts) = Rank(c) + 1
<1>1. PICK C : C = cuts /\ C \subseteq Nat \ {0} /\ IsFiniteSet(C) /\ c \in C
  BY CutTypes
<1>2. PICK B : B = {d \in C : d < c}
  OBVIOUS
<1>3. IsFiniteSet(B) /\ c \notin B /\ c \in Nat
  BY ONLY <1>1, <1>2, FS_Subset
<1>4. Rank(c) = Cardinality(B) /\ Cardinality(B) \in Nat
  BY <1>1, <1>2, <1>3, FS_CardinalityType DEF Rank
<1>5. Cardinality(B \cup {c}) = Cardinality(B) + 1
  BY ONLY <1>3, FS_AddElement
<1>6. ASSUME NEW k \in NextCut(C, c) PROVE Rank(k) = Rank(c) + 1
  <2>1. k \in C /\ k > c /\ \A j \in C : j > c => k <= j
    BY ONLY k \in NextCut(C, c) DEF NextCut
  <2>2. k \in Nat /\ c \in Nat /\ \A d \in C : d \in Nat
    BY ONLY <1>1, <2>1
  <2>3. \A d \in C : d < k <=> d < c \/ d = c
    BY ONLY <2>1, <2>2
  <2>4. {d \in C : d < k} = B \cup {c}
    BY ONLY <1>1, <1>2, <2>3
  <2>5. QED
    BY ONLY <1>1, <1>4, <1>5, <2>4 DEF Rank
<1>7. ASSUME NextCut(C, c) = {} PROVE Cardinality(C) = Rank(c) + 1
  <2>1. PICK L : L = {d \in C : d > c}
    OBVIOUS
  <2>2. L = {}
    <3>1. SUFFICES ASSUME L # {} PROVE FALSE
      OBVIOUS
    <3>2. L \subseteq Nat
      BY ONLY <1>1, <2>1
    <3>3. PICK x \in L : \A y \in L : x <= y
      BY ONLY <3>1, <3>2, LeastElement
    <3>4. x \in NextCut(C, c)
      BY ONLY <2>1, <3>3, x \in L DEF NextCut
    <3>5. QED
      BY ONLY <1>7, <3>4
  <2>3. c \in Nat /\ \A d \in C : d \in Nat /\ ~ d > c
    BY ONLY <1>1, <2>1, <2>2
  <2>4. \A d \in C : d < c \/ d = c
    BY ONLY <2>3
  <2>5. C = B \cup {c}
    BY ONLY <1>1, <1>2, <2>4
  <2>6. QED
    BY ONLY <1>4, <1>5, <2>5
<1>8. QED
  BY ONLY <1>1, <1>4, <1>6, <1>7

(* The cut the pass last passed and the next one are the ones that the      *)
(* number of saved intervals tells, with the numbers of their marks.        *)
Between(c) ==
  /\ Rank(c) = Len(logger.saved) /\ Rank(nextPoint) = Len(logger.saved) + 1
  /\ lhs = At(c) /\ logger.lhsMark = MarkCount(c)

PassInv ==
  /\ cuts \in CutsOf(Points)
  /\ phase \in {"cut", "done"} /\ nextPoint = 0 => cuts = {}
  /\ nextPoint = 0 => logger.saved = <<>>
  /\ nextPoint # 0 => rhsMark = MarkCount(nextPoint)
  /\ lhs # rhs => \E c \in cuts : Between(c)
  /\ lhs = rhs /\ nextPoint # 0 => Len(logger.saved) = Rank(nextPoint)
  /\ phase = "done" => logger.count = Len(file)

(* An interval that was saved, and the cuts around it. *)
SavedAt(v, k) ==
  \E c \in Kth(k), d \in Kth(k + 1) :
    <<v.lhs, v.rhs, v.lhsMark, v.rhsMark>> = <<At(c), At(d), MarkCount(c), MarkCount(d)>>

SavedInv == \A k \in DOMAIN logger.saved : SavedAt(logger.saved[k], k)

LEMMA PassInit == Init => PassInv /\ SavedInv
<1> SUFFICES ASSUME Init PROVE PassInv /\ SavedInv
  OBVIOUS
<1>1. /\ phase = "record" /\ selectedEdges = {} /\ cuts = {} /\ nextPoint = 0
      /\ lhs = 0 /\ rhs = 0 /\ logger = NewLogger
  BY DEF Init
<1>2. logger.saved = <<>> /\ Points = {}
  BY ONLY <1>1 DEF NewLogger, Points, PointsOf
<1>3. {} \in CutsOf({})
  BY ONLY DEF CutsOf
<1>4. PassInv
  BY ONLY <1>1, <1>2, <1>3 DEF PassInv
<1>5. SavedInv
  BY ONLY <1>2 DEF SavedInv
<1>6. QED
  BY <1>4, <1>5

(* What the pass has and what it does not change. *)
PassUnchanged == UNCHANGED <<edgeTimeline, selectedEdges, cuts, lhs, rhs, rhsMark, nextPoint, logger>>

LEMMA PassStays ==
  ASSUME PassInv, SavedInv, PassUnchanged,
         phase' \in {"cut", "done"} => phase \in {"cut", "done"},
         phase' = "done" => logger.count = Len(file)'
  PROVE  PassInv' /\ SavedInv'
<1>1. Points' = Points
  BY DEF PassUnchanged, Points, PointsOf
<1>2. /\ \A c : Rank(c)' = Rank(c) /\ At(c)' = At(c) /\ MarkCount(c)' = MarkCount(c)
      /\ \A k : Kth(k)' = Kth(k)
  BY <1>1 DEF PassUnchanged, Rank, At, MarkCount, Kth
<1>3. Rank(nextPoint)' = Rank(nextPoint) /\ MarkCount(nextPoint)' = MarkCount(nextPoint)
  BY <1>1 DEF PassUnchanged, Rank, MarkCount
<1>4. \A c : Between(c)' <=> Between(c)
  BY ONLY <1>2, <1>3, PassUnchanged DEF PassUnchanged, Between
<1>5. CutsOf(Points)' = CutsOf(Points)
  BY <1>1 DEF PassUnchanged, CutsOf
<1>6. PassInv'
  BY ONLY <1>3, <1>4, <1>5, PassInv, PassUnchanged,
     phase' \in {"cut", "done"} => phase \in {"cut", "done"},
     phase' = "done" => logger.count = Len(file)'
  DEF PassUnchanged, PassInv
<1>7. SavedInv'
  BY ONLY <1>2, SavedInv, PassUnchanged DEF PassUnchanged, SavedInv, SavedAt
<1>8. QED
  BY <1>6, <1>7

LEMMA PassElsewhere ==
  ASSUME IInv, PassInv, SavedInv,
         PrintInst \/ Exit \/ AddInstruction \/ Finish \/ UNCHANGED vars
  PROVE  PassInv' /\ SavedInv'
<1>1. CASE PrintInst
  <2>1. phase = "record" /\ phase' = "record" /\ UNCHANGED <<cuts, lhs, rhs, rhsMark, nextPoint, logger>>
        /\ UNCHANGED <<edgeTimeline, selectedEdges>>
    BY <1>1 DEF PrintInst, tree, selected, cutter
  <2>2. QED
    BY <2>1, PassStays DEF PassUnchanged
<1>2. CASE Exit
  <2>1. phase' = "build" /\ UNCHANGED <<cuts, lhs, rhs, rhsMark, nextPoint, logger>>
        /\ UNCHANGED <<edgeTimeline, selectedEdges>>
    BY <1>2 DEF Exit, tree, selected, cutter
  <2>2. QED
    BY <2>1, PassStays DEF PassUnchanged
<1>3. CASE Finish
  <2>1. phase = "cut" /\ logger.count = Len(file) /\ file' = file
        /\ UNCHANGED <<cuts, lhs, rhs, rhsMark, nextPoint, logger>>
        /\ UNCHANGED <<edgeTimeline, selectedEdges>>
    BY <1>3 DEF Finish, tree, selected, cutter, recorder
  <2>2. QED
    BY <2>1, PassStays DEF PassUnchanged
<1>4. CASE UNCHANGED vars
  <2>1. phase' = phase /\ file' = file
        /\ UNCHANGED <<cuts, lhs, rhs, rhsMark, nextPoint, logger>>
        /\ UNCHANGED <<edgeTimeline, selectedEdges>>
    BY <1>4 DEF vars, tree, selected, cutter, recorder
  <2>2. phase' = "done" => logger.count = Len(file)'
    BY <2>1 DEF PassInv
  <2>3. QED
    BY <2>1, <2>2, PassStays DEF PassUnchanged
<1>5. CASE AddInstruction
  <2>1. phase = "build" /\ phase' = "build"
        /\ UNCHANGED <<cuts, lhs, rhs, rhsMark, nextPoint, logger, selectedEdges>>
    BY <1>5 DEF AddInstruction, selected, cutter
  <2>2. selectedEdges = {} /\ cuts = {} /\ nextPoint = 0 /\ lhs = rhs /\ logger.saved = <<>>
    BY <2>1 DEF IInv, PhaseInv, NewLogger
  <2>3. Points' = {} /\ cuts' = {} /\ nextPoint' = 0 /\ lhs' = rhs' /\ logger'.saved = <<>>
    BY <2>1, <2>2 DEF Points, PointsOf
  <2>4. {} \in CutsOf(Points)'
    BY <2>3 DEF CutsOf
  <2>5. PassInv'
    BY ONLY <2>1, <2>3, <2>4 DEF PassInv
  <2>6. SavedInv'
    BY ONLY <2>3 DEF SavedInv
  <2>7. QED
    BY <2>5, <2>6
<1>6. QED
  BY <1>1, <1>2, <1>3, <1>4, <1>5

(* The first cut is at the first point. *)
LEMMA PassSelect ==
  ASSUME IInv, PassInv, SavedInv, SelectEdges
  PROVE  PassInv' /\ SavedInv'
<1>1. /\ phase = "build" /\ phase' = "cut" /\ rhsMark' = rhsMark /\ logger' = logger
      /\ edgeTimeline' = edgeTimeline
      /\ cuts' \in CutsOf(PointsOf(selectedEdges'))
      /\ \/ NextCut(cuts', 0) = {} /\ UNCHANGED <<lhs, rhs, nextPoint>>
         \/ \E k \in NextCut(cuts', 0) :
              lhs' = edgeTimeline[k].inst /\ rhs' = lhs' /\ nextPoint' = k
  BY DEF SelectEdges, tree
<1>2. lhs = 0 /\ rhs = 0 /\ rhsMark = 0 /\ logger = NewLogger /\ nextPoint = 0
  BY <1>1 DEF IInv, PhaseInv
<1>3. TypeOK'
  BY SelectEdgesStep DEF IInv
<1>4. Points' = PointsOf(selectedEdges')
  BY <1>1 DEF Points, PointsOf
<1>5. PICK C, P : C = cuts' /\ P = Points'
  OBVIOUS
<1>6. C \subseteq Nat \ {0} /\ P \subseteq Nat \ {0} /\ C \in CutsOf(P) /\ C \subseteq P
  <2>1. PICK n \in Nat : DOMAIN edgeTimeline = 1 .. n
    BY PointType DEF IInv, TypeOK
  <2>2. P \subseteq 1 .. n
    BY ONLY <1>1, <1>4, <1>5, <2>1 DEF PointsOf
  <2>3. 1 .. n \subseteq Nat \ {0}
    OBVIOUS
  <2>4. C \subseteq P
    BY ONLY <1>3, <1>5 DEF TypeOK
  <2>5. QED
    BY ONLY <1>1, <1>4, <1>5, <2>2, <2>3, <2>4
<1>7. logger'.saved = <<>> /\ Len(logger'.saved) = 0 /\ lhs' = rhs'
  BY <1>1, <1>2 DEF NewLogger
<1>8. CASE NextCut(C, 0) = {} /\ UNCHANGED <<lhs, rhs, nextPoint>>
  <2>1. C = {}
    <3>1. SUFFICES ASSUME C # {} PROVE FALSE
      OBVIOUS
    <3>2. C \subseteq Nat
      BY <1>6
    <3>3. PICK x \in C : \A y \in C : x <= y
      BY <3>1, <3>2, LeastElement
    <3>4. x \in NextCut(C, 0)
      BY ONLY <1>6, <3>3, x \in C DEF NextCut
    <3>5. QED
      BY ONLY <1>8, <3>4
  <2>2. cuts' = {} /\ nextPoint' = 0 /\ {} \in CutsOf(Points)'
    <3>1. CutsOf(Points)' = CutsOf(P)
      BY <1>1, <1>5 DEF CutsOf
    <3>2. QED
      BY <1>2, <1>5, <1>6, <1>8, <2>1, <3>1
  <2>3. PassInv'
    BY ONLY <1>1, <1>7, <2>2 DEF PassInv
  <2>4. QED
    BY <1>7, <2>3 DEF SavedInv
<1>9. ASSUME NEW k \in NextCut(C, 0), nextPoint' = k
      PROVE  PassInv' /\ SavedInv'
  <2>1. k \in C /\ k \in Nat \ {0} /\ \A j \in C : k <= j
    BY ONLY <1>6, k \in NextCut(C, 0) DEF NextCut
  <2>2. {d \in C : d < k} = {}
    <3>1. \A d \in C : d \in Nat /\ k <= d
      BY ONLY <1>6, <2>1
    <3>2. \A d \in C : ~ d < k
      BY ONLY <2>1, <3>1
    <3>3. QED
      BY ONLY <3>2
  <2>3. \A j \in P : ~ j < k
    <3>1. SUFFICES ASSUME NEW j \in P, j < k PROVE FALSE
      OBVIOUS
    <3>2. j \in C
      <4>1. j \in C <=> \A i \in C : i < j =>
              edgeTimeline[j].inst - edgeTimeline[i].inst >= IntervalMinInst
        BY ONLY <1>6, j \in P DEF CutsOf
      <4>2. \A i \in C : ~ i < j
        BY ONLY <1>6, <2>1, <3>1, j \in P
      <4>3. QED
        BY ONLY <4>1, <4>2
    <3>3. QED
      BY ONLY <1>6, <2>1, <3>1, <3>2
  <2>4. {j \in P : j < k} = {}
    BY ONLY <2>3
  <2>5. Rank(nextPoint)' = 0 /\ MarkCount(nextPoint)' = 0
    BY <1>5, <1>9, <2>2, <2>4, FS_EmptySet DEF Rank, MarkCount
  <2>6. CutsOf(Points)' = CutsOf(P)
    BY <1>1, <1>5 DEF CutsOf
  <2>7. cuts' \in CutsOf(Points)' /\ nextPoint' # 0 /\ rhsMark' = 0
    BY <1>1, <1>2, <1>5, <1>6, <1>9, <2>1, <2>6
  <2>8. PassInv'
    BY ONLY <1>1, <1>7, <2>5, <2>7 DEF PassInv
  <2>9. QED
    BY <1>7, <2>8 DEF SavedInv
<1>10. QED
  BY <1>1, <1>5, <1>8, <1>9

-----------------------------------------------------------------------------
(* What the restarted logger has saved, and the mark it starts from. *)
LEMMA RestartSaves ==
  ASSUME TypeOK
  PROVE  /\ ~Due => Restart = logger
         /\ Due => Restart.lhsMark = rhsMark
         /\ Due /\ ~(rhs > lhs) => Restart.saved = logger.saved
         /\ Due /\ rhs > lhs =>
              \E v \in Intervals :
                /\ v.lhs = logger.lhs /\ v.rhs = logger.count
                /\ v.lhsMark = logger.lhsMark /\ v.rhsMark = rhsMark
                /\ Restart.saved = Append(logger.saved, v)
<1>1. logger \in Loggers /\ rhsMark \in Nat
  BY DEF TypeOK
<1> DEFINE d == DiscardAndRestartInterval(logger, rhsMark)
           v == [lhs |-> logger.lhs, rhs |-> logger.count, lhsMark |-> logger.lhsMark,
                 rhsMark |-> rhsMark, counts |-> logger.interval]
<1>2. d.lhsMark = rhsMark /\ d.saved = logger.saved /\ d \in Loggers
  BY <1>1, DiscardType DEF DiscardAndRestartInterval, Loggers
<1>3. SaveAndRestartInterval(logger, rhsMark) = [d EXCEPT !.saved = Append(d.saved, v)]
  BY DEF SaveAndRestartInterval
<1>4. /\ v \in Intervals /\ v.lhs = logger.lhs /\ v.rhs = logger.count
      /\ v.lhsMark = logger.lhsMark /\ v.rhsMark = rhsMark
  BY <1>1 DEF Loggers, Intervals
<1>5. ~Due => Restart = logger
  BY DEF Restart
<1>6. ASSUME Due, rhs > lhs
      PROVE  Restart.lhsMark = rhsMark /\ Restart.saved = Append(logger.saved, v)
  <2>1. Restart = SaveAndRestartInterval(logger, rhsMark)
    BY <1>6 DEF Restart
  <2> HIDE DEF d, v
  <2>2. QED
    BY <1>2, <1>3, <2>1 DEF Loggers
<1>7. Due /\ ~(rhs > lhs) => Restart = d
  BY DEF Restart
<1> HIDE DEF d, v
<1>8. QED
  BY <1>2, <1>4, <1>5, <1>6, <1>7

(* An interval that is saved is the next of the saved ones. *)
LEMMA SavedAppendAt ==
  ASSUME NEW saved \in Seq(Intervals), NEW v, NEW t, t = Append(saved, v),
         \A k \in DOMAIN saved : SavedAt(saved[k], k),
         v \in Intervals, SavedAt(v, Len(saved) + 1)
  PROVE  Len(t) = Len(saved) + 1 /\ \A k \in DOMAIN t : SavedAt(t[k], k)
<1> DEFINE n == Len(saved)
<1>1. /\ n \in Nat /\ Len(t) = n + 1 /\ DOMAIN t = 1 .. n + 1 /\ DOMAIN saved = 1 .. n
      /\ t[n + 1] = v /\ \A k \in 1 .. n : t[k] = saved[k]
  BY AppendProperties, LenProperties
<1>2. SavedAt(v, n + 1)
  OBVIOUS
<1> HIDE DEF n
<1>3. ASSUME NEW k \in DOMAIN t PROVE SavedAt(t[k], k)
  <2>1. k \in 1 .. n \/ k = n + 1
    BY <1>1
  <2>2. QED
    BY <1>1, <1>2, <2>1
<1>4. QED
  BY <1>1, <1>3 DEF n

LEMMA RankIsKth ==
  ASSUME NEW c \in cuts, NEW k \in Nat, Rank(c) = k
  PROVE  c \in Kth(k + 1)
  BY DEF Rank, Kth

LEMMA CutPass ==
  ASSUME IInv, PassInv, SavedInv, CutInterval
  PROVE  PassInv' /\ SavedInv'
<1>1. /\ TypeOK /\ CutInv
      /\ phase = "cut" /\ phase' = "cut"
      /\ lhs' = (IF Due THEN rhs ELSE lhs) /\ logger.count < Len(file)
      /\ UNCHANGED <<edgeTimeline, selectedEdges, cuts, file>>
  BY DEF IInv, CutInterval, program, recorder, tree, selected
<1>2. TypeOK'
  BY CutIntervalStep DEF IInv
<1>3. /\ lhs \in Nat /\ rhs \in Nat /\ rhsMark \in Nat /\ logger \in Loggers
      /\ logger.count \in Nat /\ logger.saved \in Seq(Intervals) /\ Len(logger.saved) \in Nat
  BY <1>1, LenProperties DEF TypeOK, Loggers
<1>4. logger'.saved = Restart.saved /\ logger'.lhsMark = Restart.lhsMark
  <2>1. logger.count + 1 \in 1 .. Len(file) /\ file \in Seq(Inst)
    BY <1>1, <1>3 DEF TypeOK
  <2>2. BlockOf[file[logger.count + 1]] \in Blocks
    BY <2>1, ElementOfSeq, ProgramAssumption DEF ProgramAssumption
  <2>3. logger' = LogInst(Restart, BlockOf[file[logger.count + 1]])
    BY DEF CutInterval
  <2>4. Restart \in Loggers
    BY <1>1, RestartType
  <2>5. QED
    BY <2>2, <2>3, <2>4 DEF LogInst, Loggers
<1>5. \/ UNCHANGED <<rhs, rhsMark, nextPoint>> /\ (Due => NextCut(cuts, nextPoint) = {})
      \/ \E k \in NextCut(cuts, nextPoint) :
           Due /\ rhs' = At(k) /\ rhsMark' = MarkCount(k) /\ nextPoint' = k
  BY DEF CutInterval, At
<1>6. Points' = Points
  BY <1>1 DEF Points, PointsOf
<1>7. /\ \A c : Rank(c)' = Rank(c) /\ At(c)' = At(c) /\ MarkCount(c)' = MarkCount(c)
      /\ \A k : Kth(k)' = Kth(k)
      /\ CutsOf(Points)' = CutsOf(Points)
  BY <1>1, <1>6 DEF Rank, At, MarkCount, Kth, CutsOf
<1>8. \A v, k : SavedAt(v, k)' <=> SavedAt(v, k)
  BY ONLY <1>7 DEF SavedAt
<1>9. /\ Rank(nextPoint)' = Cardinality({d \in cuts : d < nextPoint'})
      /\ MarkCount(nextPoint)' = Cardinality({j \in Points : j < nextPoint'})
  BY <1>1, <1>6 DEF Rank, MarkCount
<1>10. nextPoint \in cuts \cup {0} /\ cuts \subseteq Nat \ {0}
  BY <1>1, CutTypes DEF TypeOK
<1>11. /\ cuts \in CutsOf(Points)
       /\ nextPoint = 0 => cuts = {} /\ logger.saved = <<>>
       /\ nextPoint # 0 => rhsMark = MarkCount(nextPoint)
       /\ lhs # rhs => \E c \in cuts : Between(c)
       /\ lhs = rhs /\ nextPoint # 0 => Len(logger.saved) = Rank(nextPoint)
  BY <1>1 DEF PassInv
<1>12. /\ nextPoint = 0 => NextCut(cuts, nextPoint) = {} /\ lhs = 0 /\ rhs = 0
       /\ nextPoint # 0 => rhs = At(nextPoint)
       /\ lhs # rhs => logger.lhs = lhs /\ logger.count <= rhs /\ rhs > lhs
  BY <1>1, <1>3, ProgramAssumption DEF CutInv, ProgramAssumption
(* The marks at both ends of an interval, when it is saved. *)
<1>13. ASSUME Due, lhs # rhs
       PROVE  /\ nextPoint \in cuts
              /\ Rank(nextPoint) = Len(logger.saved) + 1
              /\ Len(logger'.saved) = Len(logger.saved) + 1
              /\ \A k \in DOMAIN logger'.saved : SavedAt(logger'.saved[k], k)
  <2>1. PICK c \in cuts : Between(c)
    BY <1>11, <1>13
  <2>2. nextPoint # 0 /\ nextPoint \in cuts
    BY <1>10, <1>11, <2>1
  <2>3. logger.lhs = lhs /\ logger.count = rhs /\ rhs > lhs
    BY <1>3, <1>12, <1>13 DEF Due
  <2>4. PICK v \in Intervals :
          /\ v.lhs = logger.lhs /\ v.rhs = logger.count
          /\ v.lhsMark = logger.lhsMark /\ v.rhsMark = rhsMark
          /\ Restart.saved = Append(logger.saved, v)
    BY <1>1, <1>13, <2>3, RestartSaves
  <2>5. PICK n \in Nat : n = Len(logger.saved)
    BY <1>3
  <2>6. Rank(c) = n /\ Rank(nextPoint) = n + 1 /\ lhs = At(c) /\ logger.lhsMark = MarkCount(c)
    BY ONLY <2>1, <2>5 DEF Between
  <2>7. c \in Kth(n + 1) /\ nextPoint \in Kth(n + 1 + 1)
    BY ONLY <2>1, <2>2, <2>5, <2>6, n \in Nat, RankIsKth
  <2>8. <<v.lhs, v.rhs, v.lhsMark, v.rhsMark>> =
          <<At(c), At(nextPoint), MarkCount(c), MarkCount(nextPoint)>>
    BY ONLY <1>11, <1>12, <2>2, <2>3, <2>4, <2>6
  <2>9. SavedAt(v, Len(logger.saved) + 1)
    BY ONLY <2>5, <2>7, <2>8 DEF SavedAt
  <2>10. \A k \in DOMAIN logger.saved : SavedAt(logger.saved[k], k)
    BY DEF SavedInv
  <2>11. logger'.saved = Append(logger.saved, v)
    BY <1>4, <2>4
  <2>12. logger.saved \in Seq(Intervals)
    BY <1>3
  <2>13. /\ Len(logger'.saved) = Len(logger.saved) + 1
         /\ \A k \in DOMAIN logger'.saved : SavedAt(logger'.saved[k], k)
    BY ONLY <2>4, <2>9, <2>10, <2>11, <2>12, SavedAppendAt
  <2>14. QED
    BY ONLY <2>2, <2>5, <2>6, <2>13
<1>14. ASSUME ~Due \/ lhs = rhs
       PROVE  logger'.saved = logger.saved
  <2>1. lhs = rhs => ~(rhs > lhs)
    BY <1>3
  <2>2. QED
    BY <1>1, <1>4, <1>14, <2>1, RestartSaves
<1>15. SavedInv'
  <2>1. \A k \in DOMAIN logger'.saved : SavedAt(logger'.saved[k], k)
    <3>1. CASE Due /\ lhs # rhs
      BY <1>13, <3>1
    <3>2. CASE ~Due \/ lhs = rhs
      BY <1>14, <3>2 DEF SavedInv
    <3>3. QED
      BY <3>1, <3>2
  <2>2. QED
    BY ONLY <1>8, <2>1 DEF SavedInv
<1>16. PassInv'
  <2>1. CASE ~Due
    <3>1. UNCHANGED <<rhs, rhsMark, nextPoint, lhs>>
      BY <1>1, <1>5, <2>1
    <3>2. logger'.saved = logger.saved /\ logger'.lhsMark = logger.lhsMark
      BY <1>1, <1>4, <2>1, RestartSaves
    <3>3. Rank(nextPoint)' = Rank(nextPoint) /\ MarkCount(nextPoint)' = MarkCount(nextPoint)
      BY ONLY <1>9, <3>1 DEF Rank, MarkCount
    <3>4. \A c : Between(c)' <=> Between(c)
      BY ONLY <1>7, <3>1, <3>2, <3>3 DEF Between
    <3>5. QED
      BY ONLY <1>1, <1>7, <1>11, <3>1, <3>2, <3>3, <3>4 DEF PassInv
  <2>2. CASE Due /\ NextCut(cuts, nextPoint) = {}
    <3>1. UNCHANGED <<rhs, rhsMark, nextPoint>> /\ lhs' = rhs'
      BY <1>1, <1>5, <2>2
    <3>2. Rank(nextPoint)' = Rank(nextPoint) /\ MarkCount(nextPoint)' = MarkCount(nextPoint)
      BY ONLY <1>9, <3>1 DEF Rank, MarkCount
    <3>3. nextPoint = 0 => logger'.saved = <<>>
      BY <1>11, <1>12, <1>14
    <3>4. nextPoint # 0 => Len(logger'.saved) = Rank(nextPoint)
      BY <1>11, <1>13, <1>14, <2>2
    <3>5. QED
      BY ONLY <1>1, <1>7, <1>11, <3>1, <3>2, <3>3, <3>4 DEF PassInv
  <2>3. ASSUME Due, NEW k \in NextCut(cuts, nextPoint),
               rhs' = At(k), rhsMark' = MarkCount(k), nextPoint' = k
        PROVE  PassInv'
    <3>1. nextPoint # 0 /\ nextPoint \in cuts /\ k # 0
      <4>1. k \in cuts
        BY ONLY k \in NextCut(cuts, nextPoint) DEF NextCut
      <4>2. QED
        BY <1>10, <1>12, <2>3, <4>1
    <3>2. Rank(k) = Rank(nextPoint) + 1
      BY <1>1, <3>1, NextRank
    <3>3. Rank(nextPoint)' = Rank(k) /\ MarkCount(nextPoint)' = MarkCount(k)
      BY ONLY <1>9, <2>3 DEF Rank, MarkCount
    <3>4. Len(logger'.saved) = Rank(nextPoint)
      BY <1>11, <1>13, <1>14, <2>3, <3>1
    <3>5. lhs' = At(nextPoint) /\ logger'.lhsMark = MarkCount(nextPoint)
      BY <1>1, <1>4, <1>11, <1>12, <2>3, <3>1, RestartSaves
    <3>6. PICK c : c = nextPoint
      OBVIOUS
    <3>7. /\ Rank(c)' = Len(logger'.saved) /\ Rank(nextPoint)' = Len(logger'.saved) + 1
          /\ lhs' = At(c)' /\ logger'.lhsMark = MarkCount(c)' /\ c \in cuts'
      BY ONLY <1>1, <1>7, <3>1, <3>2, <3>3, <3>4, <3>5, <3>6
    <3>8. Between(c)'
      BY ONLY <3>7 DEF Between
    <3>9. lhs' # rhs'
      <4>1. At(k) - rhs >= IntervalMinInst /\ At(k) \in Nat
        BY <3>1, NextCutFar
      <4>2. QED
        BY ONLY <1>3, <1>12, <2>3, <3>1, <3>5, <4>1, FarIsLater
    <3>10. nextPoint' # 0 /\ rhsMark' = MarkCount(nextPoint)' /\ cuts' \in CutsOf(Points)'
      BY <1>1, <1>7, <1>11, <2>3, <3>1, <3>3
    <3>11. QED
      BY ONLY <1>1, <3>7, <3>8, <3>9, <3>10 DEF PassInv
  <2>4. QED
    BY <1>5, <2>1, <2>2, <2>3
<1>17. QED
  BY <1>15, <1>16

-----------------------------------------------------------------------------
LEMMA MaxWithZero ==
  ASSUME NEW n \in Int
  PROVE  Max({0, n}) = IF n >= 0 THEN n ELSE 0
  BY DEF Max

LEMMA AtCuts ==
  ASSUME IInv, PassInv, SavedInv
  PROVE  IntervalsAtCuts
<1>1. TypeOK /\ CutInv /\ PhaseInv /\ TimelineInv
  BY DEF IInv
<1>2. \A k \in DOMAIN logger.saved : \E c \in Kth(k), d \in Kth(k + 1) :
       LET v == logger.saved[k] IN
       <<v.lhs, v.rhs, v.lhsMark, v.rhsMark>> =
         <<edgeTimeline[c].inst, edgeTimeline[d].inst, MarkCount(c), MarkCount(d)>>
  BY ONLY SavedInv DEF SavedInv, SavedAt, At
<1>3. ASSUME phase = "done"
      PROVE  Len(logger.saved) = Max({0, Cardinality(cuts) - 1})
  <2>1. CASE nextPoint = 0
    <3>1. cuts = {} /\ Len(logger.saved) = 0
      BY <1>3, <2>1 DEF PassInv
    <3>2. Cardinality(cuts) - 1 = 0 - 1
      BY <3>1, FS_EmptySet
    <3>3. Max({0, 0 - 1}) = 0
      BY MaxWithZero
    <3>4. QED
      BY <3>1, <3>2, <3>3
  <2>2. CASE nextPoint # 0
    <3>1. nextPoint \in cuts /\ rhs = At(nextPoint)
      BY <1>1, <2>2 DEF TypeOK, CutInv
    <3>2. logger.count = pos
      BY <1>1, <1>3 DEF PassInv, PhaseInv
    <3>3. nextPoint \in DOMAIN edgeTimeline
      BY <1>1, <3>1, CutTypes
    <3>4. At(nextPoint) < pos /\ At(nextPoint) \in Nat /\ pos \in Nat
      BY <1>1, <3>3, AtType DEF TimelineInv, At, TypeOK
    <3>5. ~ logger.count <= rhs
      BY ONLY <3>1, <3>2, <3>4
    <3>6. lhs = rhs /\ NextCut(cuts, nextPoint) = {}
      BY ONLY <1>1, <3>5 DEF CutInv
    <3>7. Len(logger.saved) = Rank(nextPoint)
      BY <2>2, <3>6 DEF PassInv
    <3>8. Rank(nextPoint) \in Nat /\ Cardinality(cuts) = Rank(nextPoint) + 1
      BY <1>1, <3>1, <3>6, NextRank
    <3>9. PICK r \in Nat : r = Rank(nextPoint)
      BY <3>8
    <3>10. Cardinality(cuts) - 1 = r /\ r \in Int /\ r >= 0
      BY ONLY <3>8, <3>9
    <3>11. Max({0, r}) = r
      BY ONLY <3>10, MaxWithZero
    <3>12. QED
      BY ONLY <3>7, <3>9, <3>10, <3>11
  <2>3. QED
    BY <2>1, <2>2
<1>4. QED
  BY <1>2, <1>3 DEF IntervalsAtCuts

LEMMA PassStep ==
  ASSUME IInv, PassInv, SavedInv, [Next]_vars
  PROVE  PassInv' /\ SavedInv'
  BY PassElsewhere, PassSelect, CutPass DEF Next

(* The intervals of the pass are those between one cut and the next, each   *)
(* with the instruction counts and the mark numbers of both, and all are    *)
(* saved when the recording has been read to its end                        *)
(* (SimpointIntervalSelectPass::generateProfileInterval).                   *)
THEOREM IntervalsBetweenCuts == Spec => []IntervalsAtCuts
<1>1. Init => PassInv /\ SavedInv
  BY PassInit
<1>2. IInv /\ PassInv /\ SavedInv /\ [Next]_vars => (PassInv /\ SavedInv)'
  BY PassStep
<1>3. IInv /\ PassInv /\ SavedInv => IntervalsAtCuts
  BY AtCuts
<1>4. QED
  BY Invariant, <1>1, <1>2, <1>3, PTL DEF Spec

-----------------------------------------------------------------------------
(* What control does from one instruction to the next *)

Calls == {"call", "icall"}

(* After a return, control is where some call lets it come back. *)
Returns(j) == \E c \in Inst : Kind[c] \in Calls /\ j \in Succ[c]
Follows(i, j) ==
  /\ Kind[i] \in Calls => j \in Callee[i]
  /\ Kind[i] = "ret"   => Returns(j)
  /\ Kind[i] \notin Calls \cup {"ret"} => j \in Succ[i]

AllFollow(s) == \A n \in 1 .. Len(s) - 1 : Follows(s[n], s[n + 1])

ProgramInv ==
  /\ \A n \in DOMAIN pending : Returns(pending[n])
  /\ executed # <<>> /\ at # Null => Follows(executed[Len(executed)], at)
  /\ AllFollow(executed)

LEMMA FollowsAppend ==
  ASSUME NEW s \in Seq(Inst), NEW i \in Inst, AllFollow(s),
         s # <<>> => Follows(s[Len(s)], i),
         NEW t, t = Append(s, i)
  PROVE  AllFollow(t) /\ t # <<>> /\ t[Len(t)] = i
<1>1. PICK n \in Nat : n = Len(s)
  BY LenProperties
<1>2. /\ Len(t) = n + 1 /\ t[n + 1] = i /\ \A k \in 1 .. n : t[k] = s[k]
      /\ t # <<>> /\ s = <<>> <=> n = 0
  BY <1>1, AppendProperties, LenProperties, EmptySeq
<1>3. ASSUME NEW k \in 1 .. Len(t) - 1 PROVE Follows(t[k], t[k + 1])
  <2>1. k \in 1 .. n
    BY ONLY <1>1, <1>2, k \in 1 .. Len(t) - 1
  <2>2. CASE k = n
    <3>1. t[k] = s[Len(s)] /\ t[k + 1] = i /\ s # <<>>
      BY ONLY <1>1, <1>2, <2>1, <2>2
    <3>2. QED
      BY <3>1
  <2>3. CASE k # n
    <3>1. k \in 1 .. n - 1 /\ k + 1 \in 1 .. n
      BY ONLY <1>1, <2>1, <2>3
    <3>2. Follows(s[k], s[k + 1])
      BY <1>1, <3>1 DEF AllFollow
    <3>3. QED
      BY ONLY <1>2, <2>1, <3>1, <3>2
  <2>4. QED
    BY <2>2, <2>3
<1>4. QED
  BY ONLY <1>1, <1>2, <1>3 DEF AllFollow

(* The calls pending after the instruction come from calls, and control is  *)
(* where the instruction lets it go.                                        *)
LEMMA AfterFollows ==
  ASSUME TypeOK, ProgramInv, at # Null, NEW next \in After(at)
  PROVE  /\ \A n \in DOMAIN next[2] : Returns(next[2][n])
         /\ next[1] # Null => Follows(at, next[1])
<1>1. at \in Inst /\ pending \in Seq(Inst) /\ \A n \in DOMAIN pending : Returns(pending[n])
  BY DEF TypeOK, ProgramInv
<1>2. CASE Kind[at] \in Calls
  <2>1. PICK ret \in Succ[at] : next[1] \in Callee[at] /\ next[2] = Append(pending, ret)
    BY <1>2 DEF After, Calls
  <2>2. Returns(ret) /\ ret \in Inst
    BY <1>1, <1>2, <2>1, ProgramAssumption DEF Returns, ProgramAssumption
  <2>3. PICK n \in Nat : n = Len(pending) /\ DOMAIN pending = 1 .. n
    BY <1>1, LenProperties
  <2>4. /\ DOMAIN next[2] = 1 .. n + 1 /\ next[2][n + 1] = ret
        /\ \A k \in 1 .. n : next[2][k] = pending[k]
    BY <1>1, <2>1, <2>2, <2>3, AppendProperties
  <2>5. ASSUME NEW k \in DOMAIN next[2] PROVE Returns(next[2][k])
    <3>1. k \in 1 .. n \/ k = n + 1
      BY ONLY <2>3, <2>4, k \in DOMAIN next[2]
    <3>2. QED
      BY ONLY <1>1, <2>2, <2>3, <2>4, <3>1
  <2>6. Follows(at, next[1])
    BY <1>2, <2>1 DEF Follows, Calls
  <2>7. QED
    BY <2>5, <2>6
<1>3. CASE Kind[at] = "ret"
  <2>1. CASE pending = <<>>
    <3>1. next[1] = Null /\ next[2] = pending
      BY <1>3, <2>1 DEF After
    <3>2. QED
      BY <1>1, <3>1
  <2>2. CASE pending # <<>>
    <3>1. next[1] = Last(pending) /\ next[2] = Front(pending)
      BY <1>3, <2>2 DEF After
    <3>2. PICK n \in Nat : n = Len(pending) /\ DOMAIN pending = 1 .. n
      BY <1>1, LenProperties
    <3>3. n # 0 /\ n \in 1 .. n
      BY <1>1, <2>2, <3>2, EmptySeq
    <3>4. /\ next[1] = pending[n] /\ DOMAIN next[2] = 1 .. n - 1
          /\ \A k \in 1 .. n - 1 : next[2][k] = pending[k]
      <4>1. next[1] = pending[n] /\ next[2] = SubSeq(pending, 1, n - 1)
        BY <3>1, <3>2 DEF Last, Front
      <4>2. PICK m \in Nat : m = n - 1 /\ m <= n /\ m < n + 1
        BY <3>2, <3>3
      <4>3. /\ Len(SubSeq(pending, 1, m)) = m /\ SubSeq(pending, 1, m) \in Seq(Inst)
            /\ \A k \in 1 .. m : SubSeq(pending, 1, m)[k] = pending[k]
        <5>1. 1 \in 1 .. n + 1 /\ m \in 1 - 1 .. n
          BY <3>2, <4>2
        <5>2. QED
          BY <1>1, <3>2, <4>2, <5>1, SubSeqProperties
      <4>4. QED
        BY ONLY <4>1, <4>2, <4>3, LenProperties
    <3>5. Returns(next[1])
      BY <1>1, <3>2, <3>3, <3>4
    <3>6. \A k \in DOMAIN next[2] : Returns(next[2][k])
      <4>1. \A k \in 1 .. n - 1 : k \in 1 .. n
        BY <3>3
      <4>2. QED
        BY ONLY <1>1, <3>2, <3>4, <4>1
    <3>7. Follows(at, next[1])
      BY <1>3, <3>5 DEF Follows, Calls
    <3>8. QED
      BY <3>6, <3>7
  <2>3. QED
    BY <2>1, <2>2
<1>4. CASE Kind[at] \notin Calls \cup {"ret"}
  <2>1. next[1] \in Succ[at] /\ next[2] = pending
    BY <1>4 DEF After, Calls
  <2>2. Follows(at, next[1])
    BY <1>4, <2>1 DEF Follows
  <2>3. QED
    BY <1>1, <2>1, <2>2
<1>5. QED
  BY <1>2, <1>3, <1>4

LEMMA ProgramInit == Init => ProgramInv
<1> SUFFICES ASSUME Init PROVE ProgramInv
  OBVIOUS
<1>1. pending = <<>> /\ executed = <<>>
  BY DEF Init
<1>2. QED
  BY <1>1 DEF ProgramInv, AllFollow

LEMMA ProgramStep ==
  ASSUME IInv, ProgramInv, [Next]_vars
  PROVE  ProgramInv'
<1>1. TypeOK /\ TypeOK'
  <2>1. IInv'
    BY PrintInstStep, ExitStep, AddInstructionStep, SelectEdgesStep, CutIntervalStep,
       FinishStep, StutterStep DEF Next
  <2>2. QED
    BY <2>1 DEF IInv
<1>2. CASE PrintInst
  <2>1. at # Null /\ at \in Inst /\ executed \in Seq(Inst) /\ executed' = Append(executed, at)
    BY <1>1, <1>2 DEF PrintInst, TypeOK
  <2>2. PICK next \in After(at) : at' = next[1] /\ pending' = next[2]
    BY <1>2 DEF PrintInst
  <2>3. (\A n \in DOMAIN pending' : Returns(pending'[n])) /\ (at' # Null => Follows(at, at'))
    BY <1>1, <2>1, <2>2, AfterFollows
  <2>4. AllFollow(executed) /\ (executed # <<>> => Follows(executed[Len(executed)], at))
    BY <2>1 DEF ProgramInv
  <2>5. AllFollow(executed') /\ executed' # <<>> /\ executed'[Len(executed')] = at
    BY ONLY <2>1, <2>4, FollowsAppend
  <2>6. QED
    BY ONLY <2>3, <2>5 DEF ProgramInv, AllFollow, Returns, Follows
<1>3. CASE UNCHANGED program
  BY ONLY <1>3, ProgramInv DEF program, ProgramInv, AllFollow, Returns, Follows
<1>4. ~PrintInst => UNCHANGED program
  BY DEF Next, Exit, AddInstruction, SelectEdges, CutInterval, Finish, vars
<1>5. QED
  BY <1>2, <1>3, <1>4

-----------------------------------------------------------------------------
(* How the regions were entered *)

(* An edge with a bridge is taken where control goes over the bridge into a *)
(* region, from the region of the bridge.                                   *)
Entered(e, n, m) ==
  e.bridge # Null =>
    /\ n # 0 /\ n < m /\ e.bridge = file[n] /\ e.to = file[n + 1] /\ RegionInst[e.to] = e.to
    /\ e.from = RegionInst[e.bridge] /\ e.from # e.to

(* Control enters a region after the n-th instruction. *)
Enters(n) == RegionInst[file[n + 1]] = file[n + 1] /\ RegionInst[file[n]] # file[n + 1]
EntryAt(point, n) ==
  point.inst = n /\ point.edge = Edge(RegionInst[file[n]], file[n], file[n + 1])

EdgesTaken(es, tl) ==
  \A e \in es : e.from # e.to => \E p \in DOMAIN tl : tl[p].edge = e
PointsEnter(tl, m) == \A p \in DOMAIN tl : Entered(tl[p].edge, tl[p].inst, m)
EntriesSeen(tl, m) ==
  \A n \in 1 .. m - 1 : Enters(n) => \E p \in DOMAIN tl : EntryAt(tl[p], n)

TreeOK(es, tl, m) == EdgesTaken(es, tl) /\ PointsEnter(tl, m) /\ EntriesSeen(tl, m)

(* A selected edge has a bridge and comes from a region. *)
SelInv ==
  \A e \in selectedEdges : e \in DOMAIN edges /\ e.from # e.to /\ e.bridge # Null /\ e.from # Null

EdgeInv == TreeOK(DOMAIN edges, edgeTimeline, pos) /\ SelInv

LEMMA EnteredLater ==
  ASSUME NEW e, NEW n \in Nat, NEW m \in Nat, Entered(e, n, m)
  PROVE  Entered(e, n, m + 1)
  BY DEF Entered

LEMMA KeepTree ==
  ASSUME NEW E, NEW tl \in Seq([edge : E, inst : Nat]), NEW es, NEW ds, NEW m \in Nat,
         TreeOK(es, tl, m), \A e \in ds : e.from # e.to => e \in es, m # 0 => ~Enters(m)
  PROVE  TreeOK(ds, tl, m + 1)
<1>1. EdgesTaken(ds, tl)
  BY DEF TreeOK, EdgesTaken
<1>2. PointsEnter(tl, m + 1)
  <2>1. \A p \in DOMAIN tl : tl[p].inst \in Nat
    BY PointType
  <2>2. QED
    BY <2>1, EnteredLater DEF TreeOK, PointsEnter
<1>3. EntriesSeen(tl, m + 1)
  <2>1. SUFFICES ASSUME NEW n \in 1 .. m + 1 - 1, Enters(n)
                 PROVE  \E p \in DOMAIN tl : EntryAt(tl[p], n)
    BY DEF EntriesSeen
  <2>2. n # m /\ n \in 1 .. m - 1
    BY <2>1
  <2>3. QED
    BY <2>1, <2>2 DEF TreeOK, EntriesSeen
<1>4. QED
  BY <1>1, <1>2, <1>3 DEF TreeOK

LEMMA TakeTree ==
  ASSUME NEW E, NEW tl \in Seq([edge : E, inst : Nat]), NEW es, NEW ds, NEW m \in Nat,
         TreeOK(es, tl, m), NEW e \in Edges, ds \subseteq es \cup {e},
         Entered(e, m, m + 1),
         m # 0 /\ Enters(m) => e = Edge(RegionInst[file[m]], file[m], file[m + 1]),
         NEW tt, tt = TakePoint(tl, e, m)
  PROVE  TreeOK(ds, tt, m + 1)
<1>1. PICK l \in Nat : l = Len(tl) /\ DOMAIN tl = 1 .. l
  BY LenProperties
<1>2. /\ DOMAIN tt = 1 .. l + 1 /\ tt[l + 1].edge = e /\ tt[l + 1].inst = m
      /\ \A p \in 1 .. l : tt[p] = tl[p]
  <2>1. PICK T : T = [edge : E \cup {e}, inst : Nat]
    OBVIOUS
  <2>2. [edge : E, inst : Nat] \subseteq T /\ [edge |-> e, inst |-> m] \in T
    BY <2>1
  <2>3. tl \in Seq(T)
    BY ONLY <2>2, tl \in Seq([edge : E, inst : Nat]), SeqMonotonic
  <2>4. /\ tt \in Seq(T) /\ Len(tt) = l + 1 /\ tt[l + 1] = [edge |-> e, inst |-> m]
        /\ \A p \in 1 .. l : tt[p] = tl[p]
    BY ONLY <1>1, <2>2, <2>3, tt = TakePoint(tl, e, m), TakePointType
  <2>5. DOMAIN tt = 1 .. l + 1
    BY ONLY <2>4, LenProperties
  <2>6. QED
    BY ONLY <2>4, <2>5
<1>3. 1 .. l + 1 = (1 .. l) \cup {l + 1}
  BY <1>1
<1>4. EdgesTaken(ds, tt)
  <2>1. \A x \in es : x.from # x.to => \E p \in 1 .. l : tl[p].edge = x
    BY <1>1 DEF TreeOK, EdgesTaken
  <2>2. \A x \in ds : x \in es \/ x = e
    OBVIOUS
  <2>3. QED
    BY ONLY <1>2, <1>3, <2>1, <2>2 DEF EdgesTaken
<1>5. PointsEnter(tt, m + 1)
  <2>1. \A p \in 1 .. l : tl[p].inst \in Nat
    BY <1>1, PointType
  <2>2. \A p \in 1 .. l : Entered(tl[p].edge, tl[p].inst, m + 1)
    BY <1>1, <2>1, EnteredLater DEF TreeOK, PointsEnter
  <2>3. Entered(e, m, m + 1)
    OBVIOUS
  <2>4. QED
    BY ONLY <1>2, <1>3, <2>2, <2>3 DEF PointsEnter
<1>6. EntriesSeen(tt, m + 1)
  <2>1. SUFFICES ASSUME NEW n \in 1 .. m + 1 - 1, Enters(n)
                 PROVE  \E p \in DOMAIN tt : EntryAt(tt[p], n)
    BY DEF EntriesSeen
  <2>2. CASE n = m
    <3>1. EntryAt(tt[l + 1], n)
      BY <1>2, <2>1, <2>2 DEF EntryAt
    <3>2. QED
      BY ONLY <1>2, <1>3, <3>1
  <2>3. CASE n # m
    <3>1. n \in 1 .. m - 1
      BY <2>3
    <3>2. PICK p \in 1 .. l : EntryAt(tl[p], n)
      BY <1>1, <2>1, <3>1 DEF TreeOK, EntriesSeen
    <3>3. QED
      BY ONLY <1>2, <1>3, <3>2
  <2>4. QED
    BY <2>2, <2>3
<1>7. QED
  BY <1>4, <1>5, <1>6 DEF TreeOK

(* Where the tree is when the next instruction, i, is added. *)
LEMMA AtTop ==
  ASSUME IInv, pos < Len(file), NEW i, i = file[pos + 1]
  PROVE  /\ pos \in Nat /\ i \in Inst /\ edgeTimeline \in Seq([edge : DOMAIN edges, inst : Nat])
         /\ Len(regionStack) \in 1 .. Len(regionStack) /\ Top = regionStack[Len(regionStack)]
         /\ pos # 0 => prevInst = file[pos] /\ prevInst # Null /\ prevInst \in Inst
                       /\ Top.node = RegionInst[prevInst]
         /\ pos = 0 => prevInst = Null
         /\ prevInst \in Inst \cup {Null} /\ Top.node \in Inst \cup {Null}
         /\ regionStack[1].node = Null
<1>1. TypeOK /\ StackSound /\ ReadInv
  BY DEF IInv
<1>2. pos \in Nat /\ pos + 1 \in 1 .. Len(file) /\ file \in Seq(Inst)
  BY <1>1 DEF TypeOK
<1>3. i \in Inst /\ (pos # 0 => pos \in 1 .. Len(file) /\ file[pos] \in Inst)
  BY <1>2
<1>4. Len(regionStack) \in 1 .. Len(regionStack) /\ Top = regionStack[Len(regionStack)]
  BY <1>1, StackType, EmptySeq DEF StackSound, Top, Last
<1>5. Top.node \in Inst \cup {Null}
  BY <1>1, <1>4, StackType
<1>6. \A j \in Inst : j # Null
  BY ProgramAssumption DEF ProgramAssumption
<1>7. edgeTimeline \in Seq([edge : DOMAIN edges, inst : Nat]) /\ prevInst \in Inst \cup {Null}
  BY <1>1 DEF TypeOK
<1>8. prevInst = IF pos = 0 THEN Null ELSE file[pos]
  BY <1>1 DEF ReadInv
<1>9. Top.node = (IF prevInst = Null THEN Null ELSE RegionInst[prevInst]) /\ regionStack[1].node = Null
  BY <1>1 DEF StackSound, Frame
<1>10. QED
  BY ONLY <1>2, <1>3, <1>4, <1>5, <1>6, <1>7, <1>8, <1>9

LEMMA SameRegionTree ==
  ASSUME IInv, TreeOK(DOMAIN edges, edgeTimeline, pos),
         pos < Len(file), NEW i, i = file[pos + 1], SameRegion(i)
  PROVE  TreeOK(DOMAIN edges', edgeTimeline', pos + 1)
<1>1. /\ pos \in Nat /\ i \in Inst /\ edgeTimeline \in Seq([edge : DOMAIN edges, inst : Nat])
      /\ pos # 0 => prevInst = file[pos] /\ Top.node = RegionInst[prevInst]
  BY AtTop
<1>2. RegionInst[i] = Top.node /\ edgeTimeline' = edgeTimeline
  BY DEF SameRegion
<1>3. DOMAIN edges' \subseteq DOMAIN edges \cup {Edge(i, i, i)}
  <2>1. CASE i = RegionInst[i]
    <3>1. edges' = AddCount(edges, Edge(i, i, i), Top.recur)
      BY <2>1 DEF SameRegion
    <3>2. QED
      BY <3>1 DEF AddCount, AddEdge
  <2>2. CASE i # RegionInst[i]
    BY <2>2 DEF SameRegion
  <2>3. QED
    BY <2>1, <2>2
<1>4. Edge(i, i, i).from = Edge(i, i, i).to
  BY DEF Edge
<1>5. \A e \in DOMAIN edges' : e.from # e.to => e \in DOMAIN edges
  BY ONLY <1>3, <1>4
<1>6. pos # 0 => ~Enters(pos)
  BY ONLY <1>1, <1>2, i = file[pos + 1] DEF Enters
<1>7. QED
  BY ONLY <1>1, <1>2, <1>5, <1>6, TreeOK(DOMAIN edges, edgeTimeline, pos), KeepTree

LEMMA NewRegionTree ==
  ASSUME IInv, TreeOK(DOMAIN edges, edgeTimeline, pos),
         pos < Len(file), NEW i, i = file[pos + 1], NewRegion(i)
  PROVE  TreeOK(DOMAIN edges', edgeTimeline', pos + 1)
<1>1. /\ pos \in Nat /\ i \in Inst /\ edgeTimeline \in Seq([edge : DOMAIN edges, inst : Nat])
      /\ Top = regionStack[Len(regionStack)]
      /\ pos # 0 => prevInst = file[pos] /\ Top.node = RegionInst[prevInst]
      /\ pos = 0 => prevInst = Null
      /\ prevInst \in Inst \cup {Null} /\ Top.node \in Inst \cup {Null}
  BY AtTop
<1>2. PICK e : e = Edge(Top.node, prevInst, i)
  OBVIOUS
<1>3. RegionInst[i] # Top.node /\ i = RegionInst[i] /\ edges' = AddEdge(edges, e)
      /\ edgeTimeline' = TakePoint(edgeTimeline, e, pos)
  BY <1>1, <1>2 DEF NewRegion, Push, TakePoint
<1>4. e \in Edges /\ e.from = Top.node /\ e.bridge = prevInst /\ e.to = i
  BY <1>1, <1>2 DEF Edge, Edges
<1>5. DOMAIN edges' \subseteq DOMAIN edges \cup {e}
  BY <1>3 DEF AddEdge
<1>6. Entered(e, pos, pos + 1)
  BY ONLY <1>1, <1>3, <1>4, i = file[pos + 1] DEF Entered
<1>7. pos # 0 /\ Enters(pos) => e = Edge(RegionInst[file[pos]], file[pos], file[pos + 1])
  BY ONLY <1>1, <1>2, i = file[pos + 1]
<1>8. QED
  BY ONLY <1>1, <1>3, <1>4, <1>5, <1>6, <1>7, TreeOK(DOMAIN edges, edgeTimeline, pos), TakeTree

LEMMA OldRegionTree ==
  ASSUME IInv, TreeOK(DOMAIN edges, edgeTimeline, pos),
         pos < Len(file), NEW i, i = file[pos + 1], OldRegion(i)
  PROVE  TreeOK(DOMAIN edges', edgeTimeline', pos + 1)
<1>1. /\ pos \in Nat /\ i \in Inst /\ edgeTimeline \in Seq([edge : DOMAIN edges, inst : Nat])
      /\ regionStack[1].node = Null
  BY AtTop
<1>2. i # RegionInst[i] /\ RegionInst[i] \in Inst
  BY <1>1, ProgramAssumption DEF OldRegion, ProgramAssumption
<1>3. ~Enters(pos)
  BY ONLY <1>2, i = file[pos + 1] DEF Enters
<1>4. CASE FrameOf(RegionInst[i]) = {}
  <2>1. PICK e : e = Edge(Null, Null, RegionInst[i])
    OBVIOUS
  <2>2. edges' = AddEdge(Pop(1), e) /\ edgeTimeline' = TakePoint(edgeTimeline, e, pos)
    BY <1>1, <1>4, <2>1 DEF OldRegion, Push, TakePoint
  <2>3. DOMAIN edges' \subseteq DOMAIN edges \cup {e}
    BY <2>2 DEF AddEdge, Pop
  <2>4. e \in Edges /\ Entered(e, pos, pos + 1)
    BY <1>2, <2>1 DEF Edge, Edges, Entered
  <2>5. pos # 0 /\ Enters(pos) => e = Edge(RegionInst[file[pos]], file[pos], file[pos + 1])
    BY <1>3
  <2>6. QED
    BY ONLY <1>1, <2>2, <2>3, <2>4, <2>5, TreeOK(DOMAIN edges, edgeTimeline, pos), TakeTree
<1>5. CASE FrameOf(RegionInst[i]) # {}
  <2>1. PICK k \in FrameOf(RegionInst[i]) : edges' = Pop(k) /\ UNCHANGED edgeTimeline
    BY <1>5 DEF OldRegion
  <2>2. DOMAIN edges' = DOMAIN edges
    BY <2>1 DEF Pop
  <2>3. \A e \in DOMAIN edges' : e.from # e.to => e \in DOMAIN edges
    BY <2>2
  <2>4. QED
    BY ONLY <1>1, <1>3, <2>1, <2>3, TreeOK(DOMAIN edges, edgeTimeline, pos), KeepTree
<1>6. QED
  BY <1>4, <1>5

LEMMA EdgeInit == Init => EdgeInv
<1> SUFFICES ASSUME Init PROVE EdgeInv
  OBVIOUS
<1>1. pos = 0 /\ DOMAIN edges = {} /\ edgeTimeline = <<>> /\ selectedEdges = {}
  BY DEF Init
<1>2. DOMAIN edgeTimeline = {}
  BY <1>1
<1>3. EdgesTaken(DOMAIN edges, edgeTimeline) /\ PointsEnter(edgeTimeline, pos) /\ SelInv
  BY ONLY <1>1, <1>2 DEF EdgesTaken, PointsEnter, SelInv
<1>4. EntriesSeen(edgeTimeline, pos)
  BY ONLY <1>1 DEF EntriesSeen
<1>5. QED
  BY <1>3, <1>4 DEF EdgeInv, TreeOK

LEMMA NothingRead ==
  ASSUME IInv, phase = "record"
  PROVE  pos = 0 /\ DOMAIN edges = {} /\ DOMAIN edgeTimeline = {} /\ selectedEdges = {}
<1>1. pos = 0 /\ edges = [e \in {} |-> {}] /\ selectedEdges = {}
  BY DEF IInv, PhaseInv
<1>2. TypeOK /\ TimelineInv
  BY DEF IInv
<1>3. \A p \in DOMAIN edgeTimeline : edgeTimeline[p].inst \in Nat /\ edgeTimeline[p].inst < 0
  BY <1>1, <1>2, PointType DEF TypeOK, TimelineInv
<1>4. \A p \in DOMAIN edgeTimeline : FALSE
  BY ONLY <1>3
<1>5. QED
  BY ONLY <1>1, <1>4

LEMMA EdgeStep ==
  ASSUME IInv, EdgeInv, [Next]_vars
  PROVE  EdgeInv'
<1>1. TreeOK(DOMAIN edges, edgeTimeline, pos) /\ SelInv
  BY DEF EdgeInv
<1>2. CASE PrintInst \/ Exit
  <2>1. /\ phase = "record" /\ pos' = pos /\ edges' = edges /\ edgeTimeline' = edgeTimeline
        /\ selectedEdges' = selectedEdges
    BY <1>2 DEF PrintInst, Exit, tree, selected
  <2>2. pos' = 0 /\ DOMAIN edges' = {} /\ DOMAIN edgeTimeline' = {} /\ selectedEdges' = {}
    BY <2>1, NothingRead
  <2>3. EdgesTaken(DOMAIN edges, edgeTimeline)' /\ PointsEnter(edgeTimeline, pos)' /\ SelInv'
    BY ONLY <2>2 DEF EdgesTaken, PointsEnter, SelInv
  <2>4. EntriesSeen(edgeTimeline, pos)'
    BY ONLY <2>2 DEF EntriesSeen
  <2>5. QED
    BY <2>3, <2>4 DEF EdgeInv, TreeOK
<1>3. CASE AddInstruction
  <2>1. /\ phase = "build" /\ pos < Len(file) /\ file' = file /\ pos' = pos + 1
        /\ selectedEdges' = selectedEdges
        /\ SameRegion(file[pos + 1]) \/ NewRegion(file[pos + 1]) \/ OldRegion(file[pos + 1])
    BY <1>3 DEF AddInstruction, recorder, selected
  <2>2. TreeOK(DOMAIN edges', edgeTimeline', pos + 1)
    BY <1>1, <2>1, SameRegionTree, NewRegionTree, OldRegionTree
  <2>3. TreeOK(DOMAIN edges, edgeTimeline, pos)'
    BY ONLY <2>1, <2>2 DEF TreeOK, EdgesTaken, PointsEnter, EntriesSeen, Entered, Enters, EntryAt
  <2>4. SelInv'
    BY <2>1 DEF SelInv, IInv, PhaseInv
  <2>5. QED
    BY <2>3, <2>4 DEF EdgeInv
<1>4. CASE SelectEdges
  <2>1. file' = file /\ pos' = pos /\ edges' = edges /\ edgeTimeline' = edgeTimeline
    BY <1>4 DEF SelectEdges, recorder, tree
  <2>2. TreeOK(DOMAIN edges, edgeTimeline, pos)'
    BY ONLY <1>1, <2>1 DEF TreeOK, EdgesTaken, PointsEnter, EntriesSeen, Entered, Enters, EntryAt
  <2>3. \A e \in selectedEdges' :
          e \in DOMAIN edges /\ e.from # e.to /\ e.bridge # Null /\ e.from # Null
    BY <1>4 DEF SelectEdges, CandidateEdges, InEdges, Markable
  <2>4. QED
    BY <2>1, <2>2, <2>3 DEF EdgeInv, SelInv
<1>5. CASE CutInterval \/ Finish \/ UNCHANGED vars
  <2>1. /\ file' = file /\ pos' = pos /\ edges' = edges /\ edgeTimeline' = edgeTimeline
        /\ selectedEdges' = selectedEdges
    BY <1>5 DEF CutInterval, Finish, vars, recorder, tree, selected
  <2>2. QED
    BY ONLY <1>1, <2>1 DEF EdgeInv, SelInv, TreeOK, EdgesTaken, PointsEnter, EntriesSeen,
       Entered, Enters, EntryAt
<1>6. QED
  BY <1>2, <1>3, <1>4, <1>5 DEF Next

-----------------------------------------------------------------------------
(* When the marks are executed *)

(* Control goes from the bridge of e into its region at the p-th instruction. *)
Goes(e, p) == file[p] = e.bridge /\ p < Len(file) /\ file[p + 1] = e.to

LEMMA FileFollows ==
  ASSUME IInv, ProgramInv, phase \in {"cut", "done"}
  PROVE  pos = Len(file) /\ file \in Seq(Inst) /\ Len(file) \in Nat /\ AllFollow(file)
<1>1. pos = Len(file) /\ file = executed
  BY DEF IInv, PhaseInv, RecordedInOrder
<1>2. AllFollow(executed) /\ file \in Seq(Inst)
  BY DEF IInv, TypeOK, ProgramInv
<1>3. QED
  BY ONLY <1>1, <1>2, LenProperties

(* An edge of the tree was taken over its bridge. *)
LEMMA EdgeTakenAt ==
  ASSUME IInv, ProgramInv, EdgeInv, phase \in {"cut", "done"},
         NEW e \in DOMAIN edges, e.from # e.to, e.bridge # Null
  PROVE  /\ RegionInst[e.to] = e.to /\ e.from = RegionInst[e.bridge] /\ e \in Edges
         /\ e.bridge \in Inst /\ e.to \in Inst /\ Follows(e.bridge, e.to)
<1>1. TypeOK /\ TreeOK(DOMAIN edges, edgeTimeline, pos)
  BY DEF IInv, EdgeInv
<1>2. PICK p \in DOMAIN edgeTimeline : edgeTimeline[p].edge = e
  BY <1>1 DEF TreeOK, EdgesTaken
<1>3. PICK n : n = edgeTimeline[p].inst
  OBVIOUS
<1>4. n \in Nat
  BY <1>1, <1>3, PointType DEF TypeOK
<1>5. Entered(e, n, pos)
  BY <1>1, <1>2, <1>3 DEF TreeOK, PointsEnter
<1>6. n # 0 /\ n < pos /\ e.bridge = file[n] /\ e.to = file[n + 1] /\ RegionInst[e.to] = e.to
      /\ e.from = RegionInst[e.bridge]
  BY ONLY <1>5, e.bridge # Null DEF Entered
<1>7. pos = Len(file) /\ file \in Seq(Inst) /\ Len(file) \in Nat /\ AllFollow(file)
  BY FileFollows
<1>8. n \in 1 .. Len(file) - 1 /\ n \in 1 .. Len(file) /\ n + 1 \in 1 .. Len(file)
  BY ONLY <1>4, <1>6, <1>7
<1>9. Follows(file[n], file[n + 1])
  BY ONLY <1>7, <1>8 DEF AllFollow
<1>10. e.bridge \in Inst /\ e.to \in Inst
  BY ONLY <1>6, <1>7, <1>8, ElementOfSeq
<1>11. e \in Edges
  BY <1>1 DEF TypeOK
<1>12. QED
  BY ONLY <1>6, <1>9, <1>10, <1>11

(* What can be the bridge of an edge into a region. *)
LEMMA BridgeKind ==
  ASSUME MarksPlaceable, NEW b \in Inst, NEW t \in Inst,
         RegionInst[t] = t, RegionInst[b] # t, Follows(b, t)
  PROVE  /\ Kind[b] \in {"call", "icall", "br"}
         /\ Kind[b] \in Calls => t \in Callee[b]
         /\ Kind[b] = "br" => t \in Succ[b]
<1>1. Kind[b] \in {"op", "br", "switch", "call", "icall", "ret"}
  BY ProgramAssumption DEF ProgramAssumption
<1>2. Kind[b] # "op"
  BY DEF MarksPlaceable, Follows, Calls
<1>3. Kind[b] # "switch"
  BY DEF MarksPlaceable, Follows, Calls
<1>4. Kind[b] # "ret"
  BY DEF MarksPlaceable, Follows, Calls, Returns
<1>5. QED
  BY <1>1, <1>2, <1>3, <1>4 DEF Follows, Calls

(* A mark is executed exactly when control goes over the edge it is for. *)
LEMMA MarkFiresOnEdge ==
  ASSUME MarksPlaceable, IInv, ProgramInv, EdgeInv, phase \in {"cut", "done"},
         NEW e \in selectedEdges, NEW p \in 1 .. Len(file) - 1
  PROVE  MarkFires(e, p) <=> Goes(e, p)
<1>1. e \in DOMAIN edges /\ e.from # e.to /\ e.bridge # Null
  BY DEF EdgeInv, SelInv
<1>2. /\ RegionInst[e.to] = e.to /\ e.from = RegionInst[e.bridge] /\ e \in Edges
      /\ e.bridge \in Inst /\ e.to \in Inst /\ Follows(e.bridge, e.to)
  BY <1>1, EdgeTakenAt
<1>3. /\ Kind[e.bridge] \in {"call", "icall", "br"}
      /\ Kind[e.bridge] \in Calls => e.to \in Callee[e.bridge]
      /\ Kind[e.bridge] = "br" => e.to \in Succ[e.bridge]
  BY <1>1, <1>2, BridgeKind
<1>4. file \in Seq(Inst) /\ Len(file) \in Nat /\ AllFollow(file)
  BY FileFollows
<1>5. p \in Nat /\ p < Len(file) /\ Follows(file[p], file[p + 1])
  BY <1>4 DEF AllFollow
<1>6. CASE Kind[e.bridge] \in Calls
  <2>1. \A c, d \in Callee[e.bridge] : c = d
    BY <1>2, <1>6 DEF MarksPlaceable, Calls
  <2>2. MarkPlace(e) = "bridge"
    <3>1. CASE Kind[e.bridge] = "call"
      BY <3>1 DEF MarkPlace
    <3>2. CASE Kind[e.bridge] = "icall"
      <4>1. ASSUME NEW x \in Callees(e) PROVE x = e
        <5>1. x \in DOMAIN edges /\ x.from # x.to /\ x.from = e.from /\ x.bridge = e.bridge
          BY <1>1, <1>2 DEF Callees, OutEdges
        <5>2. Follows(e.bridge, x.to) /\ x \in Edges
          BY <1>1, <5>1, EdgeTakenAt
        <5>3. x.to = e.to
          BY <1>3, <1>6, <2>1, <5>2 DEF Follows
        <5>4. QED
          BY ONLY <1>2, <5>1, <5>2, <5>3 DEF Edges
      <4>2. e \in Callees(e)
        BY <1>1 DEF Callees, OutEdges
      <4>3. Callees(e) = {e}
        BY ONLY <4>1, <4>2
      <4>4. Cardinality(Callees(e)) = 1
        BY ONLY <4>3, FS_Singleton
      <4>5. QED
        BY ONLY <3>2, <4>4 DEF MarkPlace
    <3>3. QED
      BY <1>6, <3>1, <3>2 DEF Calls
  <2>3. MarkFires(e, p) <=> file[p] = e.bridge
    BY ONLY <2>2 DEF MarkFires
  <2>4. file[p] = e.bridge => file[p + 1] = e.to
    BY ONLY <1>3, <1>5, <1>6, <2>1 DEF Follows
  <2>5. QED
    BY ONLY <1>5, <2>3, <2>4 DEF Goes
<1>7. CASE Kind[e.bridge] = "br" /\ Cardinality(Succ[e.bridge]) = 1
  <2>1. IsFiniteSet(Succ[e.bridge])
    BY <1>2, <1>7 DEF MarksPlaceable
  <2>2. PICK s : Succ[e.bridge] = {s}
    BY ONLY <1>7, <2>1, FS_Singleton
  <2>3. MarkPlace(e) = "bridge"
    BY ONLY <1>7 DEF MarkPlace
  <2>4. MarkFires(e, p) <=> file[p] = e.bridge
    BY ONLY <2>3 DEF MarkFires
  <2>5. file[p] = e.bridge => file[p + 1] = e.to
    BY ONLY <1>3, <1>5, <1>7, <2>2 DEF Follows, Calls
  <2>6. QED
    BY ONLY <1>5, <2>4, <2>5 DEF Goes
<1>8. CASE Kind[e.bridge] = "br" /\ Cardinality(Succ[e.bridge]) # 1
  <2>1. MarkPlace(e) = "between"
    BY ONLY <1>8 DEF MarkPlace
  <2>2. QED
    BY ONLY <2>1 DEF MarkFires, Goes
<1>9. QED
  BY <1>3, <1>6, <1>7, <1>8 DEF Calls

(* Every time control goes over a selected edge is a point of the timeline. *)
LEMMA GoesAtPoint ==
  ASSUME IInv, ProgramInv, EdgeInv, phase \in {"cut", "done"},
         NEW e \in selectedEdges, NEW p \in 1 .. Len(file) - 1
  PROVE  Goes(e, p) <=> \E q \in Points : edgeTimeline[q].edge = e /\ edgeTimeline[q].inst = p
<1>1. TreeOK(DOMAIN edges, edgeTimeline, pos) /\ TypeOK
  BY DEF EdgeInv, IInv
<1>2. pos = Len(file) /\ file \in Seq(Inst) /\ Len(file) \in Nat
  BY FileFollows
<1>3. e \in DOMAIN edges /\ e.from # e.to /\ e.bridge # Null
  BY DEF EdgeInv, SelInv
<1>4. /\ RegionInst[e.to] = e.to /\ e.from = RegionInst[e.bridge] /\ e \in Edges
  BY <1>3, EdgeTakenAt
<1>5. ASSUME Goes(e, p)
      PROVE  \E q \in Points : edgeTimeline[q].edge = e /\ edgeTimeline[q].inst = p
  <2>1. file[p] = e.bridge /\ file[p + 1] = e.to
    BY ONLY <1>5 DEF Goes
  <2>2. Enters(p)
    BY ONLY <1>3, <1>4, <2>1 DEF Enters
  <2>3. p \in 1 .. pos - 1
    BY <1>2
  <2>4. PICK q \in DOMAIN edgeTimeline : EntryAt(edgeTimeline[q], p)
    BY <1>1, <2>2, <2>3 DEF TreeOK, EntriesSeen
  <2>5. edgeTimeline[q].inst = p /\ edgeTimeline[q].edge = Edge(e.from, e.bridge, e.to)
    BY ONLY <1>4, <2>1, <2>4 DEF EntryAt
  <2>6. Edge(e.from, e.bridge, e.to) = e
    BY ONLY <1>4 DEF Edge, Edges
  <2>7. q \in Points
    BY <2>4, <2>5, <2>6 DEF Points, PointsOf
  <2>8. QED
    BY ONLY <2>5, <2>6, <2>7
<1>6. ASSUME NEW q \in Points, edgeTimeline[q].edge = e, edgeTimeline[q].inst = p
      PROVE  Goes(e, p)
  <2>1. q \in DOMAIN edgeTimeline
    BY DEF Points, PointsOf
  <2>2. Entered(e, p, pos)
    BY <1>1, <1>6, <2>1 DEF TreeOK, PointsEnter
  <2>3. QED
    BY ONLY <1>2, <1>3, <2>2 DEF Entered, Goes
<1>7. QED
  BY <1>5, <1>6

LEMMA MarksAtPoint ==
  ASSUME MarksPlaceable, IInv, ProgramInv, EdgeInv, phase \in {"cut", "done"},
         NEW k \in Points
  PROVE  MarksFired(edgeTimeline[k].inst) = MarkCount(k) + 1
<1>1. TypeOK /\ TimelineInv
  BY DEF IInv
<1>2. pos = Len(file) /\ Len(file) \in Nat
  BY FileFollows
<1>3. Points \subseteq DOMAIN edgeTimeline /\ Points \subseteq Nat \ {0} /\ IsFiniteSet(Points)
  BY <1>1, CutTypes
<1>4. \A q \in Points : /\ edgeTimeline[q].inst \in Nat /\ edgeTimeline[q].inst < pos
                        /\ edgeTimeline[q].edge \in selectedEdges /\ edgeTimeline[q].inst # 0
  <2>1. SUFFICES ASSUME NEW q \in Points
                 PROVE  /\ edgeTimeline[q].inst \in Nat /\ edgeTimeline[q].inst < pos
                        /\ edgeTimeline[q].edge \in selectedEdges /\ edgeTimeline[q].inst # 0
    OBVIOUS
  <2>2. edgeTimeline[q].inst \in Nat /\ edgeTimeline[q].inst < pos /\ q \in DOMAIN edgeTimeline
    BY <1>1, <1>3, PointType DEF TypeOK, TimelineInv
  <2>3. edgeTimeline[q].edge \in selectedEdges
    BY DEF Points, PointsOf
  <2>4. edgeTimeline[q].edge.bridge # Null
    BY <2>3 DEF EdgeInv, SelInv
  <2>5. Entered(edgeTimeline[q].edge, edgeTimeline[q].inst, pos)
    BY <2>2 DEF EdgeInv, TreeOK, PointsEnter
  <2>6. edgeTimeline[q].inst # 0
    BY ONLY <2>4, <2>5 DEF Entered
  <2>7. QED
    BY <2>2, <2>3, <2>6
<1>5. \A q, r \in Points : q < r => edgeTimeline[q].inst < edgeTimeline[r].inst
  BY ONLY <1>1, <1>3 DEF TimelineInv
<1>6. PICK K \in Nat : K = edgeTimeline[k].inst /\ K < Len(file)
  BY <1>2, <1>4
<1>7. PICK F : F = {x \in selectedEdges \X (1 .. K) : MarkFires(x[1], x[2])}
  OBVIOUS
<1>8. PICK P : P = {q \in Points : q < k} \cup {k}
  OBVIOUS
<1>9. P \subseteq Points /\ \A q \in Points : q \in P <=> edgeTimeline[q].inst <= K
  <2>1. P \subseteq Points
    BY ONLY <1>8, k \in Points
  <2>2. ASSUME NEW q \in Points PROVE q \in P <=> edgeTimeline[q].inst <= K
    <3>1. q \in Nat /\ k \in Nat /\ edgeTimeline[q].inst \in Nat
      BY ONLY <1>3, <1>4, q \in Points, k \in Points
    <3>2. /\ q < k => edgeTimeline[q].inst < K
          /\ k < q => K < edgeTimeline[q].inst
          /\ q = k => edgeTimeline[q].inst = K
      BY ONLY <1>5, <1>6, q \in Points, k \in Points
    <3>3. q \in P <=> q < k \/ q = k
      BY ONLY <1>8, q \in Points
    <3>4. QED
      BY ONLY <1>6, <3>1, <3>2, <3>3
  <2>3. QED
    BY <2>1, <2>2
<1>10. IsFiniteSet(P) /\ Cardinality(P) = MarkCount(k) + 1
  <2>1. PICK B : B = {q \in Points : q < k}
    OBVIOUS
  <2>2. IsFiniteSet(B)
    BY ONLY <1>3, <2>1, FS_Subset
  <2>3. k \notin B
    BY ONLY <1>3, <2>1, k \in Points
  <2>4. IsFiniteSet(B \cup {k}) /\ Cardinality(B \cup {k}) = Cardinality(B) + 1
    BY ONLY <2>2, <2>3, FS_AddElement
  <2>5. MarkCount(k) = Cardinality(B)
    BY <2>1 DEF MarkCount
  <2>6. QED
    BY ONLY <1>8, <2>1, <2>4, <2>5
<1>11. PICK f : f = [q \in P |-> <<edgeTimeline[q].edge, edgeTimeline[q].inst>>]
  OBVIOUS
<1>12. \A e \in selectedEdges, p \in 1 .. K :
         MarkFires(e, p) <=> \E q \in Points : edgeTimeline[q].edge = e /\ edgeTimeline[q].inst = p
  <2>1. SUFFICES ASSUME NEW e \in selectedEdges, NEW p \in 1 .. K
                 PROVE  MarkFires(e, p) <=>
                          \E q \in Points : edgeTimeline[q].edge = e /\ edgeTimeline[q].inst = p
    OBVIOUS
  <2>2. p \in 1 .. Len(file) - 1
    BY ONLY <1>2, <1>6, p \in 1 .. K
  <2>3. MarkFires(e, p) <=> Goes(e, p)
    BY <2>2, MarkFiresOnEdge
  <2>4. Goes(e, p) <=> \E q \in Points : edgeTimeline[q].edge = e /\ edgeTimeline[q].inst = p
    BY <2>2, GoesAtPoint
  <2>5. QED
    BY ONLY <2>3, <2>4
<1>13. f \in [P -> F]
  <2>1. ASSUME NEW q \in P PROVE <<edgeTimeline[q].edge, edgeTimeline[q].inst>> \in F
    <3>1. PICK e, p : e = edgeTimeline[q].edge /\ p = edgeTimeline[q].inst
      OBVIOUS
    <3>2. q \in Points /\ p <= K /\ p \in Nat /\ p # 0 /\ e \in selectedEdges
      BY ONLY <1>4, <1>9, <3>1, q \in P
    <3>3. p \in 1 .. K
      BY ONLY <1>6, <3>2
    <3>4. MarkFires(e, p)
      BY ONLY <1>12, <3>1, <3>2, <3>3
    <3>5. <<e, p>> \in selectedEdges \X (1 .. K) /\ MarkFires(<<e, p>>[1], <<e, p>>[2])
      BY ONLY <3>2, <3>3, <3>4
    <3>6. QED
      BY ONLY <1>7, <3>1, <3>5
  <2>2. QED
    BY ONLY <1>11, <2>1
<1>14. \A q, r \in P : f[q] = f[r] => q = r
  <2>1. SUFFICES ASSUME NEW q \in P, NEW r \in P, f[q] = f[r] PROVE q = r
    OBVIOUS
  <2>2. edgeTimeline[q].inst = edgeTimeline[r].inst
    BY ONLY <1>11, <2>1, q \in P, r \in P
  <2>3. q \in Points /\ r \in Points /\ q \in Nat /\ r \in Nat
    BY ONLY <1>3, <1>9, q \in P, r \in P
  <2>4. edgeTimeline[q].inst \in Nat /\ edgeTimeline[r].inst \in Nat
    BY ONLY <1>4, <2>3
  <2>5. ~ q < r /\ ~ r < q
    BY ONLY <1>5, <2>2, <2>3, <2>4
  <2>6. QED
    BY ONLY <2>3, <2>5
<1>15. \A x \in F : \E q \in P : f[q] = x
  <2>1. SUFFICES ASSUME NEW x \in F PROVE \E q \in P : f[q] = x
    OBVIOUS
  <2>2. PICK e \in selectedEdges, p \in 1 .. K : x = <<e, p>> /\ MarkFires(e, p)
    BY ONLY <1>7, x \in F
  <2>3. PICK q \in Points : edgeTimeline[q].edge = e /\ edgeTimeline[q].inst = p
    BY ONLY <1>12, <2>2, e \in selectedEdges, p \in 1 .. K
  <2>4. q \in P
    BY ONLY <1>6, <1>9, <2>3, q \in Points, p \in 1 .. K
  <2>5. QED
    BY ONLY <1>11, <2>2, <2>3, <2>4
<1>16. ExistsBijection(P, F)
  BY ONLY <1>13, <1>14, <1>15
  DEF ExistsBijection, Bijection, Injection, Surjection, IsInjective
<1>17. Cardinality(F) = Cardinality(P)
  BY ONLY <1>10, <1>16, FS_Bijection
<1>18. MarksFired(K) = Cardinality(F)
  BY ONLY <1>7 DEF MarksFired
<1>19. QED
  BY ONLY <1>6, <1>10, <1>17, <1>18

(* Whatever the program (of the kind described by MarksPlaceable), whatever *)
(* it executes and whichever edges are selected, a program run with the     *)
(* marks that insertEdgeMark places counts them as the pass numbered them,  *)
(* and finds every interval between two cuts.                               *)
THEOREM IntervalsAlwaysFound == MarksPlaceable => (Spec => []IntervalsFound)
<1> SUFFICES ASSUME MarksPlaceable PROVE Spec => []IntervalsFound
  OBVIOUS
<1>1. Init => ProgramInv /\ EdgeInv
  BY ProgramInit, EdgeInit
<1>2. IInv /\ ProgramInv /\ EdgeInv /\ [Next]_vars => (ProgramInv /\ EdgeInv)'
  BY ProgramStep, EdgeStep
<1>3. IInv /\ ProgramInv /\ EdgeInv => MarksMatch
  BY MarksAtPoint DEF MarksMatch
<1>4. IntervalsAtCuts /\ MarksMatch => IntervalsFound
  BY DEF IntervalsFound
<1>5. QED
  BY Invariant, IntervalsBetweenCuts, <1>1, <1>2, <1>3, <1>4, PTL DEF Spec

-----------------------------------------------------------------------------
(* The counts of the profile *)

(* What a logger that has been given instructions of s knows of them. *)
LogOK(l, s) ==
  /\ l.count <= Len(s) /\ l.lhs <= l.count
  /\ l.total = CountBlocks(s, 0, l.count)
  /\ l.interval = CountBlocks(s, l.lhs, l.count)
  /\ \A k \in DOMAIN l.saved :
       /\ l.saved[k].rhs <= l.count
       /\ l.saved[k].counts = CountBlocks(s, l.saved[k].lhs, l.saved[k].rhs)

(* Intervals of a fixed size, and how far the current one is. *)
FixedOK(l) ==
  /\ l.lhs = Len(l.saved) * IntervalSize
  /\ l.lhs <= l.count /\ l.count < l.lhs + IntervalSize
  /\ \A k \in DOMAIN l.saved :
       l.saved[k].lhs = (k - 1) * IntervalSize /\ l.saved[k].rhs = k * IntervalSize

(* Both loggers: that of the runtime and that of the pass. *)
CountInv ==
  /\ profile.count = Len(executed)
  /\ LogOK(profile, executed) /\ FixedOK(profile)
  /\ LogOK(logger, file)

-----------------------------------------------------------------------------
(* Blocks of a part of a recording *)

(* The instructions of block b in a part of s. *)
In(s, l, r, b) == {p \in l + 1 .. r : BlockOf[s[p]] = b}

LEMMA InFinite ==
  ASSUME NEW s, NEW l \in Nat, NEW r \in Nat, NEW b
  PROVE  IsFiniteSet(In(s, l, r, b)) /\ Cardinality(In(s, l, r, b)) \in Nat
<1>1. IsFiniteSet(l + 1 .. r)
  BY FS_Interval
<1>2. IsFiniteSet(In(s, l, r, b))
  BY <1>1, FS_Subset DEF In
<1>3. QED
  BY <1>2, FS_CardinalityType

(* Nothing is in an empty part.                                             *)
LEMMA CountNone ==
  ASSUME NEW s, NEW l \in Nat
  PROVE  CountBlocks(s, l, l) = NoCounts
<1>1. \A b \in Blocks : In(s, l, l, b) = {}
  BY DEF In
<1>2. \A b \in Blocks : Cardinality(In(s, l, l, b)) = 0
  BY <1>1, FS_EmptySet
<1>3. CountBlocks(s, l, l) = [b \in Blocks |-> Cardinality(In(s, l, l, b))]
  BY DEF CountBlocks, In
<1>4. QED
  BY <1>2, <1>3 DEF NoCounts

(* One more instruction is one more of its block.                           *)
LEMMA CountNext ==
  ASSUME NEW s, NEW l \in Nat, NEW r \in Nat, l <= r, NEW c, c = BlockOf[s[r + 1]]
  PROVE  CountBlocks(s, l, r + 1) = Increment(CountBlocks(s, l, r), c)
<1>1. \A b \in Blocks : b # c => In(s, l, r + 1, b) = In(s, l, r, b)
  BY DEF In
<1>2. \A b \in Blocks : b = c => /\ In(s, l, r + 1, b) = In(s, l, r, b) \cup {r + 1}
                                 /\ r + 1 \notin In(s, l, r, b)
  BY DEF In
<1>3. \A b \in Blocks :
        Cardinality(In(s, l, r + 1, b))
          = IF b = c THEN Cardinality(In(s, l, r, b)) + 1 ELSE Cardinality(In(s, l, r, b))
  <2> SUFFICES ASSUME NEW b \in Blocks, b = c
               PROVE  Cardinality(In(s, l, r + 1, b)) = Cardinality(In(s, l, r, b)) + 1
    BY <1>1
  <2>1. IsFiniteSet(In(s, l, r, b))
    BY InFinite
  <2>2. Cardinality(In(s, l, r, b) \cup {r + 1}) = Cardinality(In(s, l, r, b)) + 1
    BY <1>2, <2>1, FS_AddElement
  <2>3. QED
    BY <1>2, <2>2
<1>4. /\ CountBlocks(s, l, r) = [b \in Blocks |-> Cardinality(In(s, l, r, b))]
      /\ CountBlocks(s, l, r + 1) = [b \in Blocks |-> Cardinality(In(s, l, r + 1, b))]
  BY DEF CountBlocks, In
<1> DEFINE f == [b \in Blocks |-> Cardinality(In(s, l, r, b))]
<1>5. Increment(f, c) = [b \in Blocks |-> IF b = c THEN f[b] + 1 ELSE f[b]]
  <2> HIDE DEF f
  <2>1. f = [b \in Blocks |-> f[b]]
    BY DEF f
  <2>2. QED
    BY ONLY <2>1 DEF Increment
<1>6. QED
  BY ONLY <1>3, <1>4, <1>5

(* What comes later does not change it.                                     *)
LEMMA CountAppend ==
  ASSUME NEW s \in Seq(Inst), NEW i \in Inst, NEW l \in Nat, NEW r \in Nat, r <= Len(s)
  PROVE  CountBlocks(Append(s, i), l, r) = CountBlocks(s, l, r)
<1>1. \A p \in l + 1 .. r : Append(s, i)[p] = s[p]
  OBVIOUS
<1>2. \A b \in Blocks : In(Append(s, i), l, r, b) = In(s, l, r, b)
  BY <1>1 DEF In
<1>3. /\ CountBlocks(s, l, r) = [b \in Blocks |-> Cardinality(In(s, l, r, b))]
      /\ CountBlocks(Append(s, i), l, r)
           = [b \in Blocks |-> Cardinality(In(Append(s, i), l, r, b))]
  BY DEF CountBlocks, In
<1>4. QED
  BY <1>2, <1>3

-----------------------------------------------------------------------------
(* What the operations of a logger do to its counts *)

LEMMA LoggerFields ==
  ASSUME NEW l \in Loggers
  PROVE  /\ l.count \in Nat /\ l.lhs \in Nat /\ l.saved \in Seq(Intervals)
         /\ Len(l.saved) \in Nat /\ DOMAIN l.saved = 1 .. Len(l.saved)
         /\ \A k \in DOMAIN l.saved : l.saved[k].lhs \in Nat /\ l.saved[k].rhs \in Nat
<1>1. l.count \in Nat /\ l.lhs \in Nat /\ l.saved \in Seq(Intervals)
  BY DEF Loggers
<1>2. \A v \in Intervals : v.lhs \in Nat /\ v.rhs \in Nat
  BY DEF Intervals
<1> HIDE DEF Intervals
<1>3. /\ Len(l.saved) \in Nat /\ DOMAIN l.saved = 1 .. Len(l.saved)
      /\ \A k \in DOMAIN l.saved : l.saved[k] \in Intervals
  BY <1>1
<1>4. QED
  BY <1>1, <1>2, <1>3

LEMMA LogCounts ==
  ASSUME NEW l \in Loggers, NEW s, LogOK(l, s), NEW b \in Blocks,
         l.count < Len(s), b = BlockOf[s[l.count + 1]], Len(s) \in Nat
  PROVE  LogOK(LogInst(l, b), s)
<1> DEFINE m == LogInst(l, b)
<1>1. /\ m.count = l.count + 1 /\ m.lhs = l.lhs /\ m.saved = l.saved
      /\ l.count \in Nat /\ l.lhs \in Nat
      /\ \A k \in DOMAIN l.saved : l.saved[k].rhs \in Nat
  BY LogInstType, LoggerFields
<1>2. m.total = Increment(l.total, b) /\ m.interval = Increment(l.interval, b)
  BY DEF LogInst, Loggers
<1> HIDE DEF m
<1>3. PICK c \in Nat, a \in Nat : c = l.count /\ a = l.lhs
  BY <1>1
<1>4. a <= c /\ m.count = c + 1 /\ b = BlockOf[s[c + 1]]
  BY ONLY <1>1, <1>3, LogOK(l, s), b = BlockOf[s[l.count + 1]] DEF LogOK
<1>5. m.total = CountBlocks(s, 0, c + 1)
  <2>1. l.total = CountBlocks(s, 0, c)
    BY <1>3 DEF LogOK
  <2>2. 0 \in Nat /\ 0 <= c
    BY <1>3
  <2>3. CountBlocks(s, 0, c + 1) = Increment(CountBlocks(s, 0, c), b)
    BY ONLY <1>4, <2>2, c \in Nat, CountNext
  <2>4. QED
    BY ONLY <1>2, <2>1, <2>3
<1>6. m.interval = CountBlocks(s, a, c + 1)
  <2>1. l.interval = CountBlocks(s, a, c)
    BY <1>3 DEF LogOK
  <2>2. CountBlocks(s, a, c + 1) = Increment(CountBlocks(s, a, c), b)
    BY ONLY <1>4, c \in Nat, a \in Nat, CountNext
  <2>3. QED
    BY ONLY <1>2, <2>1, <2>2
<1>7. \A k \in DOMAIN l.saved : l.saved[k].rhs <= c + 1
                                /\ l.saved[k].counts = CountBlocks(s, l.saved[k].lhs, l.saved[k].rhs)
  BY <1>1, <1>3 DEF LogOK
<1>8. c + 1 <= Len(s) /\ a <= c + 1
  BY ONLY <1>3, <1>4, l.count < Len(s), Len(s) \in Nat
<1>9. LogOK(m, s)
  BY ONLY <1>1, <1>3, <1>4, <1>5, <1>6, <1>7, <1>8 DEF LogOK
<1>10. QED
  BY <1>9 DEF m

LEMMA DiscardCounts ==
  ASSUME NEW l \in Loggers, NEW s, LogOK(l, s), NEW mark \in Nat
  PROVE  LogOK(DiscardAndRestartInterval(l, mark), s)
<1> DEFINE m == DiscardAndRestartInterval(l, mark)
<1>1. m.count = l.count /\ m.lhs = l.count /\ m.saved = l.saved /\ l.count \in Nat
  BY DiscardType, LoggerFields
<1>2. m.total = l.total /\ m.interval = NoCounts
  BY DEF DiscardAndRestartInterval, Loggers
<1> HIDE DEF m
<1>3. CountBlocks(s, l.count, l.count) = NoCounts
  BY <1>1, CountNone
<1>4. LogOK(m, s)
  BY ONLY <1>1, <1>2, <1>3, LogOK(l, s) DEF LogOK
<1>5. QED
  BY <1>4 DEF m

LEMMA SaveFields ==
  ASSUME NEW l \in Loggers, NEW mark \in Nat
  PROVE  \E v \in Intervals :
           /\ v.lhs = l.lhs /\ v.rhs = l.count /\ v.counts = l.interval
           /\ SaveAndRestartInterval(l, mark).saved = Append(l.saved, v)
           /\ SaveAndRestartInterval(l, mark).total = l.total
           /\ SaveAndRestartInterval(l, mark).interval = NoCounts
<1> DEFINE v == [lhs |-> l.lhs, rhs |-> l.count, lhsMark |-> l.lhsMark,
                 rhsMark |-> mark, counts |-> l.interval]
           d == DiscardAndRestartInterval(l, mark)
<1>1. v \in Intervals /\ v.lhs = l.lhs /\ v.rhs = l.count /\ v.counts = l.interval
  BY DEF Loggers, Intervals
<1>2. d \in Loggers /\ d.saved = l.saved
  BY DiscardType
<1>3. d.total = l.total /\ d.interval = NoCounts
  BY DEF DiscardAndRestartInterval, Loggers
<1>4. SaveAndRestartInterval(l, mark) = [d EXCEPT !.saved = Append(l.saved, v)]
  BY <1>2 DEF SaveAndRestartInterval, Loggers
<1> HIDE DEF v, d
<1>5. QED
  BY <1>1, <1>2, <1>3, <1>4 DEF Loggers

LEMMA SaveCounts ==
  ASSUME NEW l \in Loggers, NEW s, LogOK(l, s), NEW mark \in Nat
  PROVE  LogOK(SaveAndRestartInterval(l, mark), s)
<1> DEFINE m == SaveAndRestartInterval(l, mark)
<1>1. m.count = l.count /\ m.lhs = l.count /\ l.count \in Nat
  BY SaveType, LoggerFields
<1>2. PICK v \in Intervals :
        /\ v.lhs = l.lhs /\ v.rhs = l.count /\ v.counts = l.interval
        /\ m.saved = Append(l.saved, v) /\ m.total = l.total /\ m.interval = NoCounts
  BY SaveFields
<1> HIDE DEF m
<1>3. CountBlocks(s, l.count, l.count) = NoCounts
  BY <1>1, CountNone
<1>4. \A k \in DOMAIN m.saved :
        /\ m.saved[k].rhs <= l.count
        /\ m.saved[k].counts = CountBlocks(s, m.saved[k].lhs, m.saved[k].rhs)
  <2>1. l.saved \in Seq(Intervals) /\ DOMAIN l.saved = 1 .. Len(l.saved)
        /\ Len(l.saved) \in Nat
    BY LoggerFields
  <2>2. PICK t : t = m.saved
    OBVIOUS
  <2>a. PICK n \in Nat : n = Len(l.saved)
    BY <2>1
  <2>3. DOMAIN t = 1 .. n + 1 /\ t[n + 1] = v /\ \A k \in 1 .. n : t[k] = l.saved[k]
    <3> HIDE DEF Intervals
    <3>1. QED
      BY ONLY <1>2, <2>1, <2>2, <2>a
  <2>4. \A k \in 1 .. n + 1 : k \in 1 .. n \/ k = n + 1
    BY ONLY n \in Nat
  <2>5. \A k \in 1 .. n : /\ l.saved[k].rhs <= l.count
                          /\ l.saved[k].counts = CountBlocks(s, l.saved[k].lhs, l.saved[k].rhs)
    BY <2>1, <2>a DEF LogOK
  <2>6. v.rhs <= l.count /\ v.counts = CountBlocks(s, v.lhs, v.rhs)
    BY <1>1, <1>2 DEF LogOK
  <2>7. QED
    BY ONLY <2>2, <2>3, <2>4, <2>5, <2>6
<1>5. LogOK(m, s)
  BY ONLY <1>1, <1>2, <1>3, <1>4, LogOK(l, s) DEF LogOK
<1>6. QED
  BY <1>5 DEF m

LEMMA MoreCounts ==
  ASSUME NEW l \in Loggers, NEW s \in Seq(Inst), LogOK(l, s), NEW i \in Inst
  PROVE  LogOK(l, Append(s, i))
<1>1. l.count \in Nat /\ l.lhs \in Nat
      /\ \A k \in DOMAIN l.saved : l.saved[k].lhs \in Nat /\ l.saved[k].rhs \in Nat
  BY LoggerFields
<1>2. Len(Append(s, i)) = Len(s) + 1 /\ Len(s) \in Nat
  OBVIOUS
<1>3. /\ l.count <= Len(s)
      /\ \A k \in DOMAIN l.saved : l.saved[k].rhs <= l.count
  BY DEF LogOK
<1>4. CountBlocks(Append(s, i), 0, l.count) = CountBlocks(s, 0, l.count)
  BY <1>1, <1>3, CountAppend
<1>5. CountBlocks(Append(s, i), l.lhs, l.count) = CountBlocks(s, l.lhs, l.count)
  BY <1>1, <1>3, CountAppend
<1>6. ASSUME NEW k \in DOMAIN l.saved
      PROVE  CountBlocks(Append(s, i), l.saved[k].lhs, l.saved[k].rhs)
               = CountBlocks(s, l.saved[k].lhs, l.saved[k].rhs)
  <2>1. l.saved[k].rhs <= Len(s)
    BY ONLY <1>1, <1>2, <1>3, k \in DOMAIN l.saved
  <2>2. QED
    BY <1>1, <2>1, CountAppend
<1>7. l.count <= Len(Append(s, i))
  BY ONLY <1>1, <1>2, <1>3
<1>8. QED
  BY ONLY <1>4, <1>5, <1>6, <1>7, LogOK(l, s) DEF LogOK

LEMMA NewCounts ==
  ASSUME NEW s \in Seq(Inst)
  PROVE  LogOK(NewLogger, s) /\ FixedOK(NewLogger) /\ NewLogger.count = 0
<1>1. CountBlocks(s, 0, 0) = NoCounts
  BY CountNone
<1>2. /\ NewLogger.count = 0 /\ NewLogger.lhs = 0 /\ NewLogger.saved = <<>>
      /\ NewLogger.total = NoCounts /\ NewLogger.interval = NoCounts
  BY DEF NewLogger
<1>3. DOMAIN NewLogger.saved = {} /\ Len(NewLogger.saved) = 0 /\ 0 <= Len(s)
  BY <1>2
<1>4. 0 * IntervalSize = 0 /\ 0 < 0 + IntervalSize
  BY LoggerAssumption DEF LoggerAssumption
<1>5. QED
  BY ONLY <1>1, <1>2, <1>3, <1>4 DEF LogOK, FixedOK

(* A full interval is saved, and the next one starts.                       *)
LEMMA FixedStep ==
  ASSUME NEW l \in Loggers, FixedOK(l), NEW b \in Blocks
  PROVE  FixedOK(LogInstFixed(l, b)) /\ LogInstFixed(l, b).count = l.count + 1
<1> DEFINE m == LogInst(l, b)
<1>1. /\ m \in Loggers /\ m.count = l.count + 1 /\ m.lhs = l.lhs /\ m.saved = l.saved
      /\ l.count \in Nat /\ l.lhs \in Nat /\ Len(l.saved) \in Nat
      /\ DOMAIN l.saved = 1 .. Len(l.saved) /\ l.saved \in Seq(Intervals)
      /\ IntervalSize \in Nat \ {0} /\ 0 \in Nat
  BY LogInstType, LoggerFields, LoggerAssumption DEF LoggerAssumption
<1>2. LogInstFixed(l, b) = IF m.count - m.lhs = IntervalSize
                           THEN SaveAndRestartInterval(m, 0) ELSE m
  BY DEF LogInstFixed
<1> HIDE DEF m
<1>3. CASE m.count - m.lhs # IntervalSize
  <2>1. m.lhs <= m.count /\ m.count < m.lhs + IntervalSize
    <3>1. l.lhs <= l.count /\ l.count < l.lhs + IntervalSize
      BY DEF FixedOK
    <3>2. QED
      BY ONLY <1>1, <1>3, <3>1
  <2>2. FixedOK(m)
    BY ONLY <1>1, <2>1, FixedOK(l) DEF FixedOK
  <2>3. QED
    BY <1>1, <1>2, <1>3, <2>2
<1>4. CASE m.count - m.lhs = IntervalSize
  <2> DEFINE w == SaveAndRestartInterval(m, 0)
  <2>1. w.count = m.count /\ w.lhs = m.count
    BY <1>1, SaveType
  <2>2. PICK v \in Intervals : v.lhs = m.lhs /\ v.rhs = m.count /\ w.saved = Append(m.saved, v)
    BY <1>1, SaveFields
  <2> HIDE DEF w
  <2>3. PICK t : t = w.saved
    OBVIOUS
  <2>a. PICK n \in Nat : n = Len(l.saved)
    BY <1>1
  <2>4. Len(t) = n + 1 /\ DOMAIN t = 1 .. n + 1 /\ t[n + 1] = v
        /\ \A k \in 1 .. n : t[k] = l.saved[k]
    <3> HIDE DEF Intervals
    <3>1. QED
      BY ONLY <1>1, <2>2, <2>3, <2>a
  <2>5. m.lhs = n * IntervalSize /\ m.count = n * IntervalSize + IntervalSize
    <3>1. m.lhs = n * IntervalSize
      BY ONLY <1>1, <2>a, FixedOK(l) DEF FixedOK
    <3>2. m.count = m.lhs + IntervalSize
      BY ONLY <1>1, <1>4
    <3>3. QED
      BY ONLY <3>1, <3>2
  <2>6. (n + 1) * IntervalSize = n * IntervalSize + IntervalSize
    BY ONLY <1>1, n \in Nat
  <2>7. \A k \in 1 .. n + 1 : k \in 1 .. n \/ k = n + 1
    BY ONLY n \in Nat
  <2>8. \A k \in 1 .. n : /\ l.saved[k].lhs = (k - 1) * IntervalSize
                          /\ l.saved[k].rhs = k * IntervalSize
    BY <1>1, <2>a DEF FixedOK
  <2>9. v.lhs = (n + 1 - 1) * IntervalSize /\ v.rhs = (n + 1) * IntervalSize
    <3>1. n + 1 - 1 = n
      BY ONLY n \in Nat
    <3>2. QED
      BY ONLY <2>2, <2>5, <2>6, <3>1
  <2>10. \A k \in DOMAIN t : t[k].lhs = (k - 1) * IntervalSize /\ t[k].rhs = k * IntervalSize
    BY ONLY <2>4, <2>7, <2>8, <2>9
  <2>11. w.lhs = Len(t) * IntervalSize
    BY ONLY <2>1, <2>4, <2>5, <2>6
  <2>12. w.lhs <= w.count /\ w.count < w.lhs + IntervalSize
    BY ONLY <1>1, <2>1
  <2>13. FixedOK(w)
    BY ONLY <2>3, <2>10, <2>11, <2>12 DEF FixedOK
  <2>14. QED
    BY <1>1, <1>2, <1>4, <2>1, <2>13 DEF w
<1>5. QED
  BY <1>3, <1>4

(* The runtime's logger: count, and save the interval if it is full.        *)
LEMMA FixedCounts ==
  ASSUME NEW l \in Loggers, NEW s, LogOK(l, s), NEW b \in Blocks,
         l.count < Len(s), b = BlockOf[s[l.count + 1]], Len(s) \in Nat
  PROVE  LogOK(LogInstFixed(l, b), s)
<1>1. LogInst(l, b) \in Loggers /\ LogOK(LogInst(l, b), s) /\ 0 \in Nat
  BY LogInstType, LogCounts
<1>2. LogOK(SaveAndRestartInterval(LogInst(l, b), 0), s)
  BY ONLY <1>1, SaveCounts
<1>3. QED
  BY ONLY <1>1, <1>2 DEF LogInstFixed

-----------------------------------------------------------------------------
(* The loggers count what is executed and what is read back *)

LEMMA CountInit == Init => CountInv
<1> SUFFICES ASSUME Init PROVE CountInv
  OBVIOUS
<1>1. executed = <<>> /\ file = <<>> /\ profile = NewLogger /\ logger = NewLogger
  BY DEF Init
<1>2. <<>> \in Seq(Inst) /\ Len(<<>>) = 0
  OBVIOUS
<1>3. LogOK(NewLogger, <<>>) /\ FixedOK(NewLogger) /\ NewLogger.count = 0
  BY <1>2, NewCounts
<1>4. QED
  BY ONLY <1>1, <1>2, <1>3 DEF CountInv

LEMMA CountPrintInst == IInv /\ CountInv /\ PrintInst => CountInv'
<1> SUFFICES ASSUME IInv, CountInv, PrintInst PROVE CountInv'
  OBVIOUS
<1>1. /\ TypeOK /\ phase = "record" /\ at \in Inst /\ BlockOf[at] \in Blocks
      /\ profile \in Loggers /\ executed \in Seq(Inst) /\ file \in Seq(Inst)
      /\ bufferedBB \in Seq(Inst)
  BY ProgramAssumption DEF IInv, TypeOK, PrintInst, ProgramAssumption
<1>2. /\ executed' = Append(executed, at)
      /\ profile' = LogInstFixed(profile, BlockOf[at])
      /\ logger' = logger /\ logger = NewLogger
  BY <1>1 DEF PrintInst, cutter, IInv, PhaseInv
<1>3. file' \in Seq(Inst)
  BY <1>1, AddInstInOrder DEF PrintInst, IInv, RecordedInOrder
<1>4. LogOK(logger, file)'
  <2>1. PICK f \in Seq(Inst) : f = file'
    BY <1>3
  <2>2. LogOK(NewLogger, f)
    BY NewCounts
  <2>3. QED
    BY ONLY <1>2, <2>1, <2>2 DEF LogOK
<1>5. PICK n \in Nat : n = Len(executed)
  BY <1>1
<1>6. PICK s \in Seq(Inst) : s = Append(executed, at)
  <2>1. Append(executed, at) \in Seq(Inst)
    BY ONLY <1>1
  <2>2. QED
    BY ONLY <2>1, Zenon
<1>7. Len(s) = n + 1 /\ s[n + 1] = at
  BY <1>1, <1>5, <1>6
<1>8. profile.count = n /\ FixedOK(profile) /\ LogOK(profile, executed)
  BY <1>5 DEF CountInv
<1>9. LogOK(profile, s)
  BY ONLY <1>1, <1>6, <1>8, MoreCounts
<1>10. PICK l \in Loggers : l = LogInstFixed(profile, BlockOf[at])
  BY <1>1, LogInstFixedType
<1>11. LogOK(l, s)
  <2>1. /\ profile.count < Len(s) /\ BlockOf[at] = BlockOf[s[profile.count + 1]]
        /\ Len(s) \in Nat
    BY ONLY <1>7, <1>8, n \in Nat
  <2>2. QED
    BY ONLY <1>1, <1>9, <1>10, <2>1, FixedCounts
<1>12. FixedOK(l) /\ l.count = Len(s)
  BY <1>1, <1>7, <1>8, <1>10, FixedStep
<1>13. executed' = s /\ profile' = l
  BY <1>2, <1>6, <1>10
<1>14. profile'.count = Len(executed') /\ LogOK(profile, executed)' /\ FixedOK(profile)'
  <2>1. profile'.count = Len(executed')
    BY ONLY <1>12, <1>13
  <2>2. LogOK(profile, executed)'
    BY ONLY <1>11, <1>13 DEF LogOK
  <2>3. FixedOK(profile)'
    BY ONLY <1>12, <1>13 DEF FixedOK
  <2>4. QED
    BY ONLY <2>1, <2>2, <2>3
<1>15. QED
  BY ONLY <1>4, <1>14 DEF CountInv

LEMMA CountExit == IInv /\ CountInv /\ Exit => CountInv'
<1> SUFFICES ASSUME IInv, CountInv, Exit PROVE CountInv'
  OBVIOUS
<1>1. logger' = logger /\ logger = NewLogger
  BY DEF Exit, cutter, IInv, PhaseInv
<1>2. UNCHANGED <<executed, profile>>
  BY DEF Exit, program
<1>3. PICK f \in Seq(Inst) : f = file'
  BY ConcatProperties DEF Exit, IInv, TypeOK
<1>4. LogOK(NewLogger, f)
  BY NewCounts
<1>5. LogOK(logger, file)'
  BY ONLY <1>1, <1>3, <1>4 DEF LogOK
<1>6. QED
  BY ONLY CountInv, <1>2, <1>5 DEF CountInv, LogOK, FixedOK

LEMMA CountCutInterval == IInv /\ CountInv /\ CutInterval => CountInv'
<1> SUFFICES ASSUME IInv, CountInv, CutInterval PROVE CountInv'
  OBVIOUS
<1>1. /\ logger \in Loggers /\ rhsMark \in Nat /\ file \in Seq(Inst)
      /\ logger.count < Len(file) /\ LogOK(logger, file)
  BY DEF IInv, TypeOK, CutInterval, CountInv
<1>2. UNCHANGED <<executed, profile, file>>
  BY DEF CutInterval, program, recorder
<1>3. logger' = LogInst(Restart, BlockOf[file[logger.count + 1]])
  BY DEF CutInterval
<1>4. PICK l \in Loggers : l = Restart /\ l.count = logger.count /\ LogOK(l, file)
  <2>1. CASE Restart = logger
    BY <1>1, <2>1
  <2>2. CASE Restart = SaveAndRestartInterval(logger, rhsMark)
    BY ONLY <1>1, <2>2, SaveType, SaveCounts
  <2>3. CASE Restart = DiscardAndRestartInterval(logger, rhsMark)
    BY ONLY <1>1, <2>3, DiscardType, DiscardCounts
  <2>4. QED
    BY <2>1, <2>2, <2>3 DEF Restart
<1>5. PICK b \in Blocks : b = BlockOf[file[l.count + 1]]
  <2>1. l.count + 1 \in 1 .. Len(file)
    BY <1>1, <1>4, LoggerFields
  <2>2. file[l.count + 1] \in Inst
    BY ONLY <1>1, <2>1
  <2>3. QED
    BY <2>2, ProgramAssumption DEF ProgramAssumption
<1>6. LogOK(LogInst(l, b), file)
  <2>1. l.count < Len(file) /\ Len(file) \in Nat
    BY <1>1, <1>4
  <2>2. QED
    BY ONLY <1>4, <1>5, <2>1, LogCounts
<1>7. logger' = LogInst(l, b)
  BY ONLY <1>3, <1>4, <1>5
<1>8. PICK m : m = LogInst(l, b)
  OBVIOUS
<1>9. LogOK(m, file) /\ logger' = m
  BY <1>6, <1>7, <1>8
<1>10. LogOK(logger, file)'
  BY ONLY <1>2, <1>9 DEF LogOK
<1>11. QED
  BY ONLY CountInv, <1>2, <1>10 DEF CountInv, LogOK, FixedOK

LEMMA CountUnchanged ==
  CountInv /\ UNCHANGED <<executed, profile, file, logger>> => CountInv'
  BY DEF CountInv, LogOK, FixedOK

LEMMA CountInductive == IInv /\ CountInv /\ [Next]_vars => CountInv'
<1> SUFFICES ASSUME IInv, CountInv, [Next]_vars PROVE CountInv'
  OBVIOUS
<1>1. CASE PrintInst
  BY <1>1, CountPrintInst
<1>2. CASE Exit
  BY <1>2, CountExit
<1>3. CASE AddInstruction
  BY <1>3, CountUnchanged DEF AddInstruction, program, recorder, cutter
<1>4. CASE SelectEdges
  BY <1>4, CountUnchanged DEF SelectEdges, program, recorder
<1>5. CASE CutInterval
  BY <1>5, CountCutInterval
<1>6. CASE Finish
  BY <1>6, CountUnchanged DEF Finish, program, recorder, cutter
<1>7. CASE UNCHANGED vars
  BY <1>7, CountUnchanged DEF vars, program, recorder, cutter
<1>8. QED
  BY <1>1, <1>2, <1>3, <1>4, <1>5, <1>6, <1>7 DEF Next

-----------------------------------------------------------------------------
(* How many whole intervals n instructions have.                            *)
LEMMA WholeIntervals ==
  ASSUME NEW n \in Nat, NEW k \in Nat, NEW size \in Nat \ {0},
         k * size <= n, n < k * size + size
  PROVE  n \div size = k
<1>1. PICK q \in Nat, r \in Nat : q = n \div size /\ r = n % size
  OBVIOUS
<1>2. n = size * q + r /\ 0 <= r /\ r < size
  BY <1>1
<1>3. PICK a \in Nat, c \in Nat : a = k * size /\ c = q * size
  OBVIOUS
<1>4. ~ q < k
  <2> SUFFICES ASSUME q < k PROVE FALSE
    OBVIOUS
  <2>1. PICK d \in Nat : k = q + 1 + d
    BY q + 1 + (k - q - 1) = k
  <2>2. a = c + size + d * size /\ d * size >= 0
    BY ONLY <1>3, <2>1, k \in Nat, q \in Nat, size \in Nat, d \in Nat
  <2>3. QED
    BY <1>2, <1>3, <2>2
<1>5. ~ k < q
  <2> SUFFICES ASSUME k < q PROVE FALSE
    OBVIOUS
  <2>1. PICK d \in Nat : q = k + 1 + d
    BY k + 1 + (q - k - 1) = q
  <2>2. c = a + size + d * size /\ d * size >= 0
    BY ONLY <1>3, <2>1, k \in Nat, q \in Nat, size \in Nat, d \in Nat
  <2>3. QED
    BY <1>2, <1>3, <2>2
<1>6. QED
  BY <1>1, <1>4, <1>5

LEMMA CountsGiveProfile == IInv /\ CountInv => ProfileExact
<1> SUFFICES ASSUME IInv, CountInv PROVE ProfileExact
  OBVIOUS
<1>1. /\ profile \in Loggers /\ logger \in Loggers /\ executed \in Seq(Inst)
      /\ profile.count = Len(executed) /\ LogOK(profile, executed)
      /\ FixedOK(profile) /\ LogOK(logger, file)
  BY DEF IInv, TypeOK, CountInv
<1>2. Len(profile.saved) \in Nat /\ Len(executed) \in Nat /\ IntervalSize \in Nat \ {0}
  BY <1>1, LoggerFields, LoggerAssumption DEF LoggerAssumption
<1>3. Len(profile.saved) = Len(executed) \div IntervalSize
  <2>1. PICK n \in Nat, k \in Nat : n = Len(executed) /\ k = Len(profile.saved)
    BY <1>2
  <2>2. k * IntervalSize <= n /\ n < k * IntervalSize + IntervalSize
    BY ONLY <1>1, <2>1 DEF FixedOK
  <2>3. n \div IntervalSize = k
    BY ONLY <1>2, <2>2, n \in Nat, k \in Nat, WholeIntervals
  <2>4. QED
    BY ONLY <2>1, <2>3
<1>4. FixedIntervals
  BY ONLY <1>1, <1>3 DEF FixedIntervals, FixedOK
<1>5. CountsExact
  BY ONLY <1>1 DEF CountsExact, LogOK
<1>6. QED
  BY <1>4, <1>5 DEF ProfileExact

(* However long the program runs, the tracer's profile has one interval for *)
(* each full IntervalSize instructions, and every interval saved, by the    *)
(* tracer or by the pass, has the block counts of its own instructions.     *)
THEOREM ProfileCounted == Spec => []ProfileExact
<1>1. Spec => []CountInv
  BY CountInit, CountInductive, Invariant, PTL DEF Spec
<1>2. QED
  BY <1>1, CountsGiveProfile, Invariant, PTL

=============================================================================
