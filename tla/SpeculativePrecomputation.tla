--------------------- MODULE SpeculativePrecomputation ---------------------
(***************************************************************************)
(* Speculative precomputation (speculative_precomputation/).  For a load   *)
(* known to be slow, what its address was computed from is cut out of the  *)
(* window of instructions when it executes again.  From then on each       *)
(* execution of the load puts a trigger into the instruction stream, ahead *)
(* of that computation, and sends the slice that the trigger starts to a   *)
(* stream of its own: the slice it had this time, if it is the one known,  *)
(* and otherwise the one known.                                            *)
(***************************************************************************)
EXTENDS LoopPass

CONSTANTS
  Critical,          \* the loads whose AverageLatency is above 40
  RIBSize,           \* RIB_SIZE, RIBMaxSize
  SliceClearPeriod   \* SLICE_CLEAR_PERIOD

ASSUME SliceAssumption == RIBSize \in Nat \ {0} /\ SliceClearPeriod \in Nat \ {0}

VARIABLES
  managers,          \* InstManagerMap: a CriticalLoadManager for each load
  slices             \* what SliceSerializer was given, for each load

precomputation == <<managers, slices>>

Manager ==
  [status |-> "Unknown", slice |-> <<>>, hits |-> 0, created |-> 0, triggered |-> 0, correct |-> 0]

PrecomputationOff ==
  /\ managers = [l \in Critical |-> Manager]
  /\ slices = [l \in Critical |-> <<>>]

PrecomputationInit == PassInit /\ stats = <<>> /\ PrecomputationOff

-----------------------------------------------------------------------------
IsTrigger(d) == d.pos = 0

(* Mutant: the walk goes on past the execution before. *)
IsPrevious_Never(d, load, s) == FALSE

IsPrevious(d, load, s) == d.inst = load /\ s.slice # <<>>

(* initializeSlice: backwards through the window, what the load and the     *)
(* instructions already found depend on through registers, up to the       *)
(* execution of the load before.  live says who needs which instruction.    *)
InitializeSlice(window, load) ==
  LET Step(d, s) ==
        IF ~s.over /\ ~IsTrigger(d) /\ IsPrevious(d, load, s) THEN [s EXCEPT !.over = TRUE]
        ELSE IF s.over \/ d.id \notin {n[1] : n \in s.live} THEN s
        ELSE [over  |-> FALSE,
              slice |-> <<d>> \o s.slice,
              live  |-> {n \in s.live : n[1] # d.id} \cup {<<r[2], d.id>> : r \in d.reg},
              base  |-> s.base \cup {<<n[2], d.id>> : n \in {n \in s.live : n[1] = d.id}}]
      cut == FoldRight(Step, window,
               [over |-> FALSE, slice |-> <<>>, live |-> {<<Last(window).id, 0>>}, base |-> {}])
      On(k) == {j \in DOMAIN cut.slice : <<cut.slice[k].id, cut.slice[j].id>> \in cut.base} IN
  [k \in DOMAIN cut.slice |-> [id |-> cut.slice[k].id, inst |-> cut.slice[k].inst, base |-> On(k)]]

StaticSlice(slice) == [k \in DOMAIN slice |-> slice[k].inst]
IsSame(a, b) == StaticSlice(a) = StaticSlice(b)

(* The instructions are given new ids, and the dependences among them.      *)
GenerateSlice(slice, id) ==
  [k \in DOMAIN slice |->
    [id |-> id + k, inst |-> slice[k].inst, reg |-> {id + j : j \in slice[k].base}]]

(* Mutant: the trigger goes to the front of the window. *)
InsertTrigger_Front(window, head, trigger) == <<trigger>> \o window

InsertTrigger(window, head, trigger) ==
  LET k == CHOOSE k \in DOMAIN window : window[k].id = head IN
  SubSeq(window, 1, k - 1) \o <<trigger>> \o SubSeq(window, k, Len(window))

-----------------------------------------------------------------------------
Excess == IF Len(list) > RIBSize THEN Len(list) - RIBSize ELSE 0
RIB == SubSeq(list, Excess + 1, Len(list))

(* Mutant: nothing is cleared. *)
Clear_Never(m) == m

Clear(m) == [m EXCEPT !.status = "Unknown", !.slice = <<>>]

(* A manager is hit, and all are cleared when it is time. *)
Managed(hit) ==
  LET after == [l \in Critical |-> IF l = Fresh.inst THEN hit ELSE managers[l]] IN
  managers' = IF Fresh.pos % SliceClearPeriod = 0
              THEN [l \in Critical |-> Clear(after[l])] ELSE after

(* transform, up to the managers: the cache warmer, and the window.         *)
Received ==
  /\ fresh
  /\ fresh' = FALSE
  /\ WarmCache
  /\ out' = out \o SubSeq(list, 1, Excess)
  /\ UNCHANGED <<program, pattern, frames, prevControlInstId, loadMap, storeMap, aborted,
                 state, currentLoop, loopIter, finished, stats>>

Miss ==
  /\ Received
  /\ Fresh.inst \notin Critical
  /\ Managed(Manager)
  /\ list' = RIB
  /\ UNCHANGED <<currentId, slices>>

(* The first two executions only tell that the load executes.               *)
Learn ==
  /\ Received
  /\ Fresh.inst \in Critical
  /\ LET m == managers[Fresh.inst] IN
     /\ m.status \in {"Unknown", "Idle"}
     /\ Managed([m EXCEPT !.hits = @ + 1,
                          !.status = IF @ = "Unknown" THEN "Idle" ELSE "Building"])
  /\ list' = RIB
  /\ UNCHANGED <<currentId, slices>>

(* The copies in the slice take ids as well. *)
Build ==
  /\ Received
  /\ Fresh.inst \in Critical
  /\ LET m     == managers[Fresh.inst]
         slice == InitializeSlice(RIB, Fresh.inst) IN
     /\ m.status = "Building"
     /\ Managed([m EXCEPT !.hits = @ + 1, !.created = @ + 1, !.status = "Built", !.slice = slice])
     /\ currentId' = currentId + Len(slice)
  /\ list' = RIB
  /\ UNCHANGED slices

(* pos and oldest, the execution of the load and the first instruction of   *)
(* the window, are for the properties.                                      *)
Trigger ==
  /\ Received
  /\ Fresh.inst \in Critical
  /\ LET load  == Fresh.inst
         m     == managers[load]
         slice == InitializeSlice(RIB, load)
         same  == IsSame(m.slice, slice)
         used  == IF same THEN slice ELSE m.slice
         first == currentId + Len(slice)
         id    == first + Len(used) + 1 IN
     /\ m.status = "Built"
     /\ Managed([m EXCEPT !.hits = @ + 1, !.triggered = @ + 1,
                          !.correct = IF same THEN @ + 1 ELSE @])
     /\ slices' = [slices EXCEPT ![load] = Append(@,
          [insts |-> GenerateSlice(used, first), real |-> same, trigger |-> id,
           pos |-> Fresh.pos, oldest |-> Min({d.pos : d \in {d \in ToSet(RIB) : ~IsTrigger(d)}})])]
     /\ list' = InsertTrigger(RIB, Head(slice).id,
          [id |-> id, pos |-> 0, token |-> "specpre-trigger", load |-> load])
     /\ currentId' = id

Drain ==
  /\ tracing = "over" /\ ~fresh /\ ~finished
  /\ finished' = TRUE
  /\ CommitRest
  /\ UNCHANGED <<program, frames, prevControlInstId, loadMap, storeMap, currentId, aborted,
                 snapshot, pattern, state, currentLoop, loopIter, fresh, stats, precomputation>>

PrecomputationNext == Miss \/ Learn \/ Build \/ Trigger \/ Drain

-----------------------------------------------------------------------------
(* What the execution of a load at pos needs: itself, and what that depends *)
(* on through registers in the program, induction and reduction variables  *)
(* apart, since the execution before and as far as the window goes.         *)
TrueSlice(load, pos, oldest) ==
  LET before == {p \in 1 .. pos - 1 : seen[p].inst = load}
      from   == Max({oldest} \cup {p + 1 : p \in before})
      Producers(p) ==
        {r[2] : r \in {r \in seen[p].reg :
           LET loop == LoopOf[Code[seen[p].inst].bb] IN
           r[2] >= from /\ (loop # NoLoop => ~IsInductionVariable(loop, r[1])
                                             /\ ~IsReductionVariable(loop, r[1]))}}
      Needs[p \in 1 .. pos] == {p} \cup UNION {Needs[r] : r \in Producers(p)} IN
  [insts |-> SelectSeq([p \in 1 .. pos |-> p], LAMBDA p : p \in Needs[pos]),
   producers |-> [p \in Needs[pos] |-> Producers(p)]]

(* The stream is the trace with the triggers in it.  Each trigger is just   *)
(* in front of the first instruction of the slice of its load, and starts  *)
(* that slice, with the dependences of the program, or else a slice of     *)
(* other instructions; the load has executed three times since the         *)
(* managers were cleared; and the counts agree.                             *)
SlicesExact ==
  LET stream == out \o list
      Traced(s) == SelectSeq(s, LAMBDA d : ~IsTrigger(d)) IN
  /\ [k \in DOMAIN Traced(stream) |-> Traced(stream)[k].pos] = [k \in DOMAIN seen |-> k]
  /\ {stream[k].id : k \in {k \in DOMAIN stream : IsTrigger(stream[k])}} =
       UNION {{s.trigger : s \in ToSet(slices[l])} : l \in Critical}
  /\ \A l \in Critical :
       /\ managers[l].triggered = Len(slices[l])
       /\ managers[l].correct = Len(SelectSeq(slices[l], LAMBDA s : s.real))
       /\ \A n \in DOMAIN slices[l] :
            LET s    == slices[l][n]
                true == TrueSlice(l, s.pos, s.oldest)
                at   == CHOOSE k \in DOMAIN stream : stream[k].id = s.trigger IN
            /\ Head(Traced(SubSeq(stream, at, Len(stream)))).pos = Head(true.insts)
            /\ s.real <=> StaticSlice(s.insts) = [k \in DOMAIN true.insts |-> seen[true.insts[k]].inst]
            /\ s.real => \A k \in DOMAIN s.insts :
                 s.insts[k].reg = {s.insts[j].id : j \in
                   {j \in DOMAIN s.insts : true.insts[j] \in true.producers[true.insts[k]]}}
            /\ Last(s.insts).inst = l
            /\ LET period == {p \in 1 .. s.pos - 1 : p > ((s.pos - 1) \div SliceClearPeriod) * SliceClearPeriod} IN
               Cardinality({p \in period : seen[p].inst = l}) >= 3
            /\ \A k \in DOMAIN s.insts : s.insts[k].reg \subseteq {s.insts[j].id : j \in 1 .. k - 1}

=============================================================================
