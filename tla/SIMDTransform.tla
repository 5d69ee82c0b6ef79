--------------------------- MODULE SIMDTransform ---------------------------
(***************************************************************************)
(* The SIMD transformation (simd/SIMDPass.cpp).  VectorizeWidth iterations *)
(* of an inner most loop are buffered.  If they all went the same way and  *)
(* no iteration disturbs the memory of another, each static instruction    *)
(* becomes one wide instruction, or one for each iteration and a pack where *)
(* the addresses are scattered.                                            *)
(*                                                                         *)
(* A wide instruction has in covers the positions of those it stands for,  *)
(* and in data which store supplied each byte that it writes.               *)
(***************************************************************************)
EXTENDS LoopPass

CONSTANTS
  VectorizeWidth,
  EfficiencyPercent       \* VectorizeEfficiencyThreshold

NoVectors == [dynamic |-> 0, iter |-> 0, vectorizedDynamic |-> 0, vectorizedIter |-> 0]

SIMDInit == PassInit /\ stats = [l \in Loop |-> NoVectors]

IsLoopStaticVectorizable(l) == IsInnerMost(l) /\ IsLoopContinuous(l)

NewStaticLoop ==
  LET l == LoopOf[Code[Fresh.inst].bb] IN
  IF l # NoLoop /\ IsLoopStaticVectorizable(l) THEN l ELSE NoLoop
IsAtHeaderOfVectorizable ==
  NewStaticLoop # NoLoop /\ IsStaticInstLoopHead(NewStaticLoop, Fresh.inst)

-----------------------------------------------------------------------------
(* scheduleBasicBlocksInLoop: the blocks in reverse post-order.  The stack  *)
(* has a block and whether its successors have been pushed.                 *)
Visit(l, s) ==
  LET b    == Last(s.stack)[1]
      succ == SelectSeq(Code[Terminator(b)].to,
                        LAMBDA c : c \in LoopBlocks[l] /\ c \notin s.visited \cup {b}) IN
  IF Last(s.stack)[2]
  THEN [s EXCEPT !.stack = Front(@), !.list = IF b \in ToSet(@) THEN @ ELSE <<b>> \o @]
  ELSE [s EXCEPT !.stack = Append(Front(@), <<b, TRUE>>) \o [k \in DOMAIN succ |-> <<succ[k], FALSE>>],
                 !.visited = @ \cup {b}]

BBList(l) ==
  LET From[s \in [stack : Seq(LoopBlocks[l] \X BOOLEAN), visited : SUBSET LoopBlocks[l],
                  list : Seq(LoopBlocks[l])]] ==
        IF s.stack = <<>> THEN s.list ELSE From[Visit(l, s)]
  IN  From[[stack |-> << <<Header[l], FALSE>> >>, visited |-> {}, list |-> <<>>]]

(* The static instructions in that order, phis left out. *)
Schedule(l) ==
  FoldLeft(LAMBDA insts, b : insts \o SelectSeq([i \in Inst |-> i],
             LAMBDA i : Code[i].bb = b /\ Code[i].op # "phi"),
           <<>>, BBList(l))

IsAccess(i) == Code[i].op \in {"load", "store"}
IsLoad(i) == Code[i].op = "load"

(* LoadStoreOrderMap *)
Order(l, i) == SelectInSeq(Schedule(l), LAMBDA j : j = i)

-----------------------------------------------------------------------------
(* StaticToDynamicMap: for each static instruction of the loop, what it was *)
(* in each iteration of the buffer (0: it did not execute).                *)
StaticToDynamic(l, buffer, iters) ==
  LET iterOf == [k \in DOMAIN buffer |->
        Cardinality({j \in 1 .. k : IsStaticInstLoopHead(l, buffer[j].inst)})] IN
  [i \in LoopInsts[l] |-> [it \in 1 .. iters |->
     LET ks == {k \in DOMAIN buffer : buffer[k].inst = i /\ iterOf[k] = it} IN
     IF ks = {} THEN 0 ELSE CHOOSE k \in ks : TRUE]]

NoStride == 1000000

(* Mutant: only the first two iterations are compared. *)
ComputeStride_FirstTwo(buffer, ks) ==
  IF 0 \in {ks[1], ks[2]} THEN NoStride
  ELSE buffer[ks[2]].access.addr - buffer[ks[1]].access.addr

(* computeStride: the one distance between the accesses of all iterations,  *)
(* or NoStride (INT64_MAX).                                                 *)
ComputeStride(buffer, ks) ==
  LET strides == {IF 0 \in {ks[it - 1], ks[it]} THEN NoStride
                  ELSE buffer[ks[it]].access.addr - buffer[ks[it - 1]].access.addr :
                  it \in 2 .. Len(ks)} IN
  IF Cardinality(strides) = 1 THEN CHOOSE s \in strides : TRUE ELSE NoStride

-----------------------------------------------------------------------------
(* The buffered iterations: DynamicInnerMostLoop.  Where the maps of the    *)
(* code have ids, there are positions in the buffer here.                  *)
DynamicLoop(l, iters) ==
  LET buffer == Front(list)
      map    == StaticToDynamic(l, buffer, iters) IN
  [loop |-> l, iters |-> iters, buffer |-> buffer, map |-> map,
   stride |-> [i \in {i \in LoopInsts[l] : IsAccess(i)} |-> ComputeStride(buffer, map[i])]]

Alive == {list[k].id : k \in DOMAIN list}

IsEfficient(dl) ==
  Len(dl.buffer) * 100 >= EfficiencyPercent * NumStaticInst(dl.loop) * dl.iters

(* Mutant: a dependence on a later instruction's access is fine as well. *)
IsLoopInterIterMemDependent_Never(dl) == FALSE

(* An access depends on one of another iteration that is not before it in   *)
(* the loop, and so would come after it among the wide instructions.       *)
IsLoopInterIterMemDependent(dl) ==
  \E i \in DOMAIN dl.stride : \E it \in 1 .. dl.iters :
    /\ dl.map[i][it] # 0
    /\ \E d \in dl.buffer[dl.map[i][it]].mem : \E k \in DOMAIN dl.buffer :
         /\ dl.buffer[k].id = d
         /\ dl.map[dl.buffer[k].inst][it] # k
         /\ Order(dl.loop, i) <= Order(dl.loop, dl.buffer[k].inst)

IsLoopInterIterDataDependent(dl) ==
  \E i \in DOMAIN dl.stride : ~pattern[i].affine /\ dl.stride[i] = NoStride

IsLoopDynamicVectorizable(dl) ==
  IsEfficient(dl) /\ ~IsLoopInterIterMemDependent(dl) /\ ~IsLoopInterIterDataDependent(dl)

-----------------------------------------------------------------------------
(* The transformation so far: the new instructions, StaticToNewDynamicMap,  *)
(* InsideMemDepsComputer and the data graph's own, the last id, and whether *)
(* the assertions held.                                                     *)
Nothing ==
  [new |-> <<>>, toNew |-> [i \in Inst |-> 0], inLoads |-> EmptyMap, inStores |-> EmptyMap,
   loads |-> loadMap, stores |-> storeMap, id |-> currentId, ok |-> TRUE]

(* transferInsideRegDeps: what i uses of the loop, but for phis. *)
InsideRegDeps(dl, s, i) ==
  {<<u, s.toNew[u]>> : u \in
    {u \in ToSet(Code[i].uses) \ {0} : u \in LoopInsts[dl.loop] /\ s.toNew[u] # 0}}

(* Mutant: dependences on instructions that are replaced are kept. *)
Outside_All(ids) == ids

(* transferOutsideRegDeps, transferOutsideNonRegDeps *)
Outside(ids) == ids \ Alive
OutsideRegs(regs) == {r \in regs : r[2] \notin Alive}

(* The instruction i that stands for the instructions of the buffer at ks,  *)
(* with the control dependences of those at cs, and an access that it is    *)
(* checked and entered for in the maps.                                     *)
Create(dl, s, i, ks, cs, access, data) ==
  LET id  == s.id + 1
      old == {dl.buffer[k] : k \in ks}
      new == [id |-> id, pos |-> 0, inst |-> i, access |-> access, data |-> data,
              covers |-> {d.pos : d \in old},
              reg |-> UNION {OutsideRegs(d.reg) : d \in old} \cup InsideRegDeps(dl, s, i),
              iv |-> {}, rv |-> {}, pdf |-> {},
              ctr |-> UNION {Outside(dl.buffer[k].ctr) : k \in cs},
              mem |-> UNION {Outside(d.mem) : d \in old}
                        \cup GetMemoryDependence(s.inLoads, s.inStores, access, IsLoad(i))]
      Entered(kind, m) == IF Code[i].op = kind THEN UpdateBytes(m, access, id) ELSE m IN
  [s EXCEPT !.new = Append(@, new), !.id = id,
            !.inLoads = Entered("load", @), !.inStores = Entered("store", @),
            !.loads = Entered("load", @), !.stores = Entered("store", @)]

(* One instruction for each iteration.  The loads are packed, and who uses  *)
(* them uses the pack.                                                      *)
CreateScattered(dl, s, i) ==
  LET ks == dl.map[i]
      Created[it \in 0 .. dl.iters] ==
        IF it = 0 THEN s
        ELSE LET d == dl.buffer[ks[it]] IN
             Create(dl, Created[it - 1], i, {ks[it]}, {ks[1]}, d.access,
                    [a \in Bytes(d.access) |-> d.pos])
      all   == Created[dl.iters]
      loads == SubSeq(all.new, Len(s.new) + 1, Len(all.new))
      pack  == [id |-> all.id + 1, pos |-> 0, inst |-> i, access |-> NoAccess, data |-> <<>>,
                covers |-> {}, reg |-> {<<i, d.id>> : d \in ToSet(loads)},
                iv |-> {}, rv |-> {}, pdf |-> {}, mem |-> {},
                ctr |-> UNION {d.ctr : d \in ToSet(loads)}] IN
  IF IsLoad(i)
  THEN [all EXCEPT !.new = Append(@, pack), !.id = pack.id, !.toNew[i] = pack.id]
  ELSE all

(* Mutant: the first access is taken for the base of a falling walk too. *)
WideAccess_First(dl, i) ==
  LET first == dl.buffer[dl.map[i][1]].access IN
  [addr |-> first.addr, size |-> dl.iters * first.size]

(* From the lowest address, the last one's if they fall. *)
WideAccess(dl, i) ==
  LET base == dl.buffer[dl.map[i][IF dl.stride[i] > 0 THEN 1 ELSE dl.iters]].access IN
  [addr |-> base.addr, size |-> dl.iters * base.size]

(* Mutant: the data of falling stores are not reversed. *)
WideData_Unreversed(dl, i) ==
  LET wide == WideAccess(dl, i)
      size == wide.size \div dl.iters IN
  [a \in Bytes(wide) |-> dl.buffer[dl.map[i][(a - wide.addr) \div size + 1]].pos]

WideData(dl, i) ==
  LET wide == WideAccess(dl, i)
      size == wide.size \div dl.iters
      nth(a) == (a - wide.addr) \div size IN
  [a \in Bytes(wide) |->
     dl.buffer[dl.map[i][IF dl.stride[i] > 0 THEN nth(a) + 1 ELSE dl.iters - nth(a)]].pos]

(* One instruction for all iterations. *)
CreateDynamicInsts(dl, s, i) ==
  LET ks  == ToSet(dl.map[i]) \ {0}
      all == IF IsAccess(i) THEN Create(dl, s, i, ks, ks, WideAccess(dl, i), WideData(dl, i))
             ELSE Create(dl, s, i, ks, ks, NoAccess, <<>>) IN
  [all EXCEPT !.toNew[i] = all.id]

IsScattered(dl, i) ==
  LET far == dl.stride[i] IN
  \/ far = NoStride
  \/ (IF far < 0 THEN -far ELSE far) > dl.buffer[dl.map[i][1]].access.size

(* "Missing first dynamic instruction.", "Conditional memory access found." *)
Executed(dl, i) == IF IsAccess(i) THEN 0 \notin ToSet(dl.map[i]) ELSE dl.map[i][1] # 0

Transformed(dl) ==
  FoldLeft(LAMBDA s, i :
             IF ~Executed(dl, i) THEN [s EXCEPT !.ok = FALSE]
             ELSE IF IsAccess(i) /\ IsScattered(dl, i) THEN CreateScattered(dl, s, i)
             ELSE CreateDynamicInsts(dl, s, i),
           Nothing, Schedule(dl.loop))

-----------------------------------------------------------------------------
(* Mutant: the dependences of the instruction after the group are left.     *)
FixDependence_Not(s, id) == id

(* A dependence on a replaced instruction becomes one on its replacement. *)
FixDependence(s, id) ==
  LET old == {k \in DOMAIN list : list[k].id = id} IN
  IF old = {} THEN id ELSE s.toNew[list[CHOOSE k \in old : TRUE].inst]

FixLast(s) ==
  [Fresh EXCEPT !.reg = {<<r[1], FixDependence(s, r[2])>> : r \in @},
                !.mem = {FixDependence(s, id) : id \in @},
                !.ctr = {FixDependence(s, id) : id \in @}]

(* "Missing simd transformed dependent instruction." *)
Replaced(s) ==
  0 \notin FixLast(s).mem \cup FixLast(s).ctr \cup {r[2] : r \in FixLast(s).reg}

(* The new instructions are who computed their values last, even where the  *)
(* last instruction already was, unless it has popped the frame.           *)
FramesAfter(s) ==
  IF Code[Fresh.inst].op = "ret" THEN frames
  ELSE [frames EXCEPT ![Len(frames)].dep = [i \in Inst |->
          LET ids == {d.id : d \in {d \in ToSet(s.new) : d.inst = i}} IN
          IF ids = {} THEN @[i] ELSE {Max(ids)}]]

ControlAfter(s) ==
  LET control == {d \in ToSet(s.new) : Code[d.inst].op \in {"br", "ret", "call"}} IN
  IF Code[Fresh.inst].op \in {"br", "ret", "call"} THEN Fresh.id
  ELSE Max({prevControlInstId} \cup {d.id : d \in control})

-----------------------------------------------------------------------------
CountNewSIMD(s) ==
  IF NewStaticLoop = NoLoop THEN s
  ELSE [s EXCEPT ![NewStaticLoop].dynamic = @ + 1,
                 ![NewStaticLoop].iter = @ + (IF IsAtHeaderOfVectorizable THEN 1 ELSE 0)]

OutOfLoop == NewStaticLoop # currentLoop

IterNow == loopIter + (IF OutOfLoop \/ IsAtHeaderOfVectorizable THEN 1 ELSE 0)

HandledSIMD ==
  /\ fresh
  /\ fresh' = FALSE
  /\ UNCHANGED <<program, pattern, snapshot, finished>>

NextLoop(iter) ==
  IF ~OutOfLoop THEN loopIter' = iter /\ UNCHANGED <<state, currentLoop>>
  ELSE IF IsAtHeaderOfVectorizable
       THEN loopIter' = 0 /\ currentLoop' = NewStaticLoop /\ state' = "BUFFERING"
       ELSE loopIter' = iter /\ state' = "SEARCHING" /\ UNCHANGED currentLoop

SearchSIMD ==
  /\ HandledSIMD
  /\ state = "SEARCHING"
  /\ aborted' = (aborted \/ Len(list) > 2)
  /\ IF Len(list) = 2 THEN CommitButLast ELSE UNCHANGED <<list, out>>
  /\ IF IsAtHeaderOfVectorizable
     THEN loopIter' = 0 /\ currentLoop' = NewStaticLoop /\ state' = "BUFFERING"
     ELSE UNCHANGED <<loopIter, currentLoop, state>>
  /\ stats' = CountNewSIMD(stats)
  /\ UNCHANGED <<frames, prevControlInstId, loadMap, storeMap, currentId>>

(* Fewer iterations than a group has. *)
BufferSIMD ==
  /\ HandledSIMD
  /\ state = "BUFFERING" /\ IterNow # VectorizeWidth
  /\ IF OutOfLoop THEN CommitButLast ELSE UNCHANGED <<list, out>>
  /\ NextLoop(IterNow)
  /\ stats' = CountNewSIMD(stats)
  /\ UNCHANGED <<frames, prevControlInstId, loadMap, storeMap, currentId, aborted>>

CommitGroup ==
  /\ HandledSIMD
  /\ state = "BUFFERING" /\ IterNow = VectorizeWidth
  /\ ~IsLoopDynamicVectorizable(DynamicLoop(currentLoop, IterNow))
  /\ CommitButLast
  /\ NextLoop(0)
  /\ stats' = CountNewSIMD(stats)
  /\ UNCHANGED <<frames, prevControlInstId, loadMap, storeMap, currentId, aborted>>

(* simdTransform: the wide instructions are serialized, the others dropped. *)
SimdTransform ==
  /\ HandledSIMD
  /\ state = "BUFFERING" /\ IterNow = VectorizeWidth
  /\ \E dl \in {DynamicLoop(currentLoop, IterNow)} :
       /\ IsLoopDynamicVectorizable(dl)
       /\ \E s \in {Transformed(dl)} :
            /\ out' = out \o s.new
            /\ list' = <<FixLast(s)>>
            /\ frames' = FramesAfter(s)
            /\ prevControlInstId' = ControlAfter(s)
            /\ loadMap' = s.loads /\ storeMap' = s.stores
            /\ currentId' = s.id
            /\ aborted' = (aborted \/ ~s.ok \/ ~Replaced(s))
       /\ stats' = [CountNewSIMD(stats) EXCEPT
                      ![currentLoop].vectorizedIter = @ + dl.iters,
                      ![currentLoop].vectorizedDynamic = @ + Len(dl.buffer)]
  /\ NextLoop(0)

FinishSIMD ==
  /\ tracing = "over" /\ ~fresh /\ ~finished
  /\ finished' = TRUE
  /\ CommitRest
  /\ UNCHANGED <<program, frames, prevControlInstId, loadMap, storeMap, currentId, aborted,
                 snapshot, pattern, state, currentLoop, loopIter, fresh, stats>>

SIMDNext ==
  SearchSIMD \/ BufferSIMD \/ CommitGroup \/ SimdTransform \/ FinishSIMD

-----------------------------------------------------------------------------
Covers(e) == IF e.pos # 0 THEN {e.pos} ELSE e.covers
Vector(e) == e.pos = 0

(* Each traced instruction is in the stream once, by itself or in one       *)
(* vector.  Only vectors of a loop are out of the order of the trace, and  *)
(* what they stand for are executions of one instruction, of as many       *)
(* iterations as a group has.  The statistics count them, and no assertion *)
(* fails (SIMDPass.cpp:321-499, 971-1042).                                 *)
ScalarsCovered ==
  LET stream == out \o list
      vectors == {k \in DOMAIN stream : Vector(stream[k])} IN
  /\ ~aborted
  /\ UNION {Covers(stream[k]) : k \in DOMAIN stream} = DOMAIN seen
  /\ \A k \in DOMAIN stream : \A j \in 1 .. k - 1 :
       \A p \in Covers(stream[j]) : \A q \in Covers(stream[k]) :
         /\ p # q
         /\ p < q \/ /\ j \in vectors /\ k \in vectors
                      /\ \A m \in j .. k : m \in vectors
                      /\ stream[j].inst # stream[k].inst
  /\ \A k \in vectors :
       /\ \A p \in Covers(stream[k]) : seen[p].inst = stream[k].inst
       /\ Cardinality(Covers(stream[k])) <= VectorizeWidth
  /\ FoldSet(LAMBDA l, n : n + stats[l].vectorizedDynamic, 0, Loop) =
       Cardinality(UNION {Covers(stream[k]) : k \in vectors})

(* A vector stands for its executions: it accesses the bytes that they did, *)
(* each with the data of the last of them, and its dependences keep it in   *)
(* the order of the trace.  What conflicts with an access of the trace is   *)
(* reached through the dependences of the vector it is in, but for loads    *)
(* behind a newer load of the byte, which the data graph does not know; a   *)
(* vector depends on the vectors of its operands; and nothing depends on an *)
(* instruction that was dropped (SIMDPass.cpp:524-701, 703-897, 1044-1238, 1240-1460).           *)
VectorsExact ==
  LET stream == out \o list
      At(p) == CHOOSE k \in DOMAIN stream : p \in Covers(stream[k])
      ids == {stream[k].id : k \in DOMAIN stream}
      On(e) == e.mem \cup {r[2] : r \in e.reg}
      reach == FoldLeft(LAMBDA r, e : Append(r,
                 On(e) \cup UNION {r[j] : j \in {j \in DOMAIN r : stream[j].id \in On(e)}}),
                 <<>>, stream)
      bytes(p) == Bytes(seen[p].access)
      stores == {p \in DOMAIN seen : Code[seen[p].inst].op = "store"}
      loads == {p \in DOMAIN seen : Code[seen[p].inst].op = "load"}
      Hidden(p, q) ==
        \A a \in bytes(p) \cap bytes(q) : \E r \in loads : p < r /\ r < q /\ a \in bytes(r) IN
  /\ \A q \in loads \cup stores : \A p \in stores \cup (IF q \in stores THEN loads ELSE {}) :
       p < q /\ bytes(p) \cap bytes(q) # {} /\ (p \in stores \/ ~Hidden(p, q)) =>
         At(p) = At(q) \/ stream[At(p)].id \in reach[At(q)]
  /\ \A k \in DOMAIN stream : stream[k].mem \cup stream[k].ctr \subseteq ids
  /\ \A k \in DOMAIN stream : Vector(stream[k]) =>
       /\ On(stream[k]) \subseteq ids
       /\ \A q \in Covers(stream[k]) :
            /\ bytes(q) \subseteq Bytes(stream[k].access)
            /\ \A r \in seen[q].reg :
                 Code[r[1]].op # "phi" => stream[At(r[2])].id \in reach[k]
       /\ Code[stream[k].inst].op = "store" =>
            \A a \in Bytes(stream[k].access) : stream[k].data[a] =
              Max({p \in Covers(stream[k]) : a \in bytes(p)})

=============================================================================
