-------------------------- MODULE AbstractDataFlow --------------------------
(***************************************************************************)
(* The abstract data flow accelerator                                      *)
(* (adfa/AbstractDataFlowAcceleratorPass.cpp).  The iterations of a loop    *)
(* are buffered until they are worth a switch to the accelerator; they and *)
(* those that follow then go to a stream of their own, between a start     *)
(* token in the instruction stream and an end token in theirs, with the    *)
(* control dependences of their post-dominance frontier.                   *)
(***************************************************************************)
EXTENDS LoopPass

CONSTANTS BufferThreshold

ASSUME ThresholdAssumption == BufferThreshold \in Nat

VARIABLES
  dataFlow,          \* what DataFlowSerializer was given
  configured,        \* CurrentConfiguredDataFlow.Loop
  staticToDynamic    \* StaticToDynamicMap (0: not there)

accelerator == <<dataFlow, configured, staticToDynamic>>

NoStats == [dynamic |-> 0, dataFlowDynamic |-> 0, config |-> 0, dataFlow |-> 0]
NotSeen == [i \in Inst |-> 0]

AcceleratorOff ==
  /\ dataFlow = <<>>
  /\ configured = NoLoop
  /\ staticToDynamic = NotSeen

DataFlowInit ==
  /\ PassInit
  /\ stats = [l \in Loop |-> NoStats]
  /\ AcceleratorOff

IsLoopDataFlow(l) == IsLoopContinuous(l)

(* NewLoop and IsAtHeaderOfCandidate for the instruction just loaded. *)
NewLoop ==
  LET l == LoopOf[Code[Fresh.inst].bb] IN
  IF l # NoLoop /\ IsLoopDataFlow(l) THEN l ELSE NoLoop
IsAtHeaderOfCandidate == NewLoop # NoLoop /\ IsStaticInstLoopHead(NewLoop, Fresh.inst)

InCurrentLoop == LoopContains(currentLoop, NewLoop)

(* The loops around a candidate count its instructions too. *)
CountNew(s) ==
  [l \in Loop |-> IF LoopContains(l, NewLoop) THEN [s[l] EXCEPT !.dynamic = @ + 1] ELSE s[l]]

-----------------------------------------------------------------------------
(* Mutant: the oldest of the frontier's terminators is taken. *)
FixCtrDependence_Oldest(i, last) ==
  LET ids == {last[Terminator(b)] : b \in Frontier[Code[i].bb]} \ {0} IN
  {id \in ids : \A other \in ids : id <= other}

(* The newest terminator of the post-dominance frontier since the start:    *)
(* the ages of the entries grow with their ids.                             *)
FixCtrDependence(i, last) ==
  LET ids == {last[Terminator(b)] : b \in Frontier[Code[i].bb]} \ {0} IN
  {id \in ids : \A other \in ids : other <= id}

(* The instruction as the accelerator sees it.  What RegDeps still holds of *)
(* induction and reduction variables would be sorted out here; the data    *)
(* graph has put it in Deps of the instruction, which the wrapper hides.   *)
WrapWithAbsDataFlow(d, last) ==
  LET l    == LoopOf[Code[d.inst].bb]
      iv   == {r \in d.reg : IsInductionVariable(l, r[1])}
      rv   == {r \in d.reg \ iv : IsReductionVariable(l, r[1])}
      pdf  == FixCtrDependence(d.inst, last)
      back == {id \in pdf : \E t \in UnrollableTerminator(l) : last[t] = id} IN
  [id |-> d.id, pos |-> d.pos, inst |-> d.inst, access |-> d.access, bytes |-> d.bytes,
   reg |-> d.reg \ (iv \cup rv), iv |-> iv, rv |-> rv, ctr |-> {}, pdf |-> pdf \ back,
   mem |-> d.mem, unrollable |-> back]

(* The map after the first n of insts. *)
MapAfter(insts, n, last) ==
  [i \in Inst |-> LET at == {k \in 1 .. n : insts[k].inst = i} IN
                  IF at = {} THEN last[i] ELSE insts[Max(at)].id]

(* addDynamicInst for each of insts: what is serialized, and the map.       *)
AddDynamicInsts(insts, last) ==
  [stream |-> [k \in DOMAIN insts |->
                 WrapWithAbsDataFlow(insts[k], MapAfter(insts, k - 1, last))],
   last   |-> MapAfter(insts, Len(insts), last)]

(* Mutant: the map of the data flow before is kept. *)
Start_KeepsMap(last) == last

Start(last) == NotSeen

EndToken(l, id) == Token("df-end", l, id)

-----------------------------------------------------------------------------
NextSearching ==
  IF IsAtHeaderOfCandidate
  THEN state' = "BUFFERING" /\ loopIter' = 0 /\ currentLoop' = NewLoop
  ELSE state' = "SEARCHING" /\ UNCHANGED <<loopIter, currentLoop>>

Handled ==
  /\ fresh
  /\ fresh' = FALSE
  /\ WarmCache
  /\ UNCHANGED <<program, pattern, frames, prevControlInstId, loadMap, storeMap, finished>>

Search ==
  /\ Handled
  /\ state = "SEARCHING"
  /\ aborted' = (aborted \/ Len(list) > 2)
  /\ IF Len(list) = 2 THEN CommitButLast ELSE UNCHANGED <<list, out>>
  /\ NextSearching
  /\ stats' = CountNew(stats)
  /\ UNCHANGED <<currentId, accelerator>>

(* The instruction before goes to the data flow, which ends out of the loop.*)
FlowOn ==
  /\ Handled
  /\ state = "DATAFLOW"
  /\ aborted' = (aborted \/ Len(list) < 2)
  /\ LET added == AddDynamicInsts(Front(list), staticToDynamic) IN
     /\ staticToDynamic' = added.last
     /\ dataFlow' = dataFlow \o added.stream
          \o (IF InCurrentLoop THEN <<>> ELSE <<EndToken(configured, currentId + 1)>>)
  /\ list' = <<Fresh>>
  /\ stats' = [CountNew(stats) EXCEPT ![configured].dataFlowDynamic = @ + 1]
  /\ IF InCurrentLoop THEN UNCHANGED <<state, loopIter, currentLoop, currentId>>
     ELSE NextSearching /\ currentId' = currentId + 1
  /\ UNCHANGED <<configured, out>>

(* Mutant: only the header of the loop ends an iteration. *)
AtBoundary_Header == currentLoop = NewLoop /\ IsAtHeaderOfCandidate

(* One iteration ends here. *)
AtBoundary == ~InCurrentLoop \/ (currentLoop = NewLoop /\ IsAtHeaderOfCandidate)

Buffer ==
  /\ Handled
  /\ state = "BUFFERING"
  /\ ~AtBoundary
  /\ stats' = CountNew(stats)
  /\ UNCHANGED <<state, currentLoop, loopIter, out, list, currentId, aborted, accelerator>>

(* Too little was buffered: go on in the loop, or give up what there is. *)
BoundaryTooSoon ==
  /\ Handled
  /\ state = "BUFFERING"
  /\ AtBoundary
  /\ Len(list) <= BufferThreshold
  /\ IF InCurrentLoop
     THEN loopIter' = loopIter + 1 /\ UNCHANGED <<state, currentLoop, out, list>>
     ELSE /\ CommitButLast
          /\ IF IsAtHeaderOfCandidate
             THEN loopIter' = 0 /\ currentLoop' = NewLoop /\ UNCHANGED state
             ELSE state' = "SEARCHING" /\ loopIter' = loopIter + 1 /\ UNCHANGED currentLoop
  /\ stats' = CountNew(stats)
  /\ UNCHANGED <<currentId, aborted, accelerator>>

(* processBuffer: configure the accelerator unless it is, and start it.     *)
ProcessBuffer ==
  /\ Handled
  /\ state = "BUFFERING"
  /\ AtBoundary
  /\ Len(list) > BufferThreshold
  /\ aborted' = (aborted \/ Head(list).inst \notin LoopInsts[currentLoop])
  /\ configured' = currentLoop
  /\ LET config == IF currentLoop # configured
                   THEN <<Token("df-config", currentLoop, currentId + 1)>> ELSE <<>>
         start  == Token("df-start", currentLoop, currentId + Len(config) + 1)
         added  == AddDynamicInsts(Front(list), Start(staticToDynamic)) IN
     /\ out' = out \o config \o <<start>>
     /\ staticToDynamic' = added.last
     /\ dataFlow' = dataFlow \o added.stream
          \o (IF InCurrentLoop THEN <<>> ELSE <<EndToken(currentLoop, start.id + 1)>>)
     /\ currentId' = IF InCurrentLoop THEN start.id ELSE start.id + 1
     /\ stats' = [CountNew(stats) EXCEPT ![currentLoop].config = @ + Len(config),
                    ![currentLoop].dataFlow = @ + 1,
                    ![currentLoop].dataFlowDynamic = @ + Len(Front(list))]
  /\ list' = <<Fresh>>
  /\ IF InCurrentLoop
     THEN state' = "DATAFLOW" /\ loopIter' = 0 /\ UNCHANGED currentLoop
     ELSE /\ loopIter' = 0
          /\ IF IsAtHeaderOfCandidate THEN currentLoop' = NewLoop /\ UNCHANGED state
             ELSE state' = "SEARCHING" /\ UNCHANGED currentLoop

(* The end of the trace.  In a data flow the last instruction stays behind. *)
Finish ==
  /\ tracing = "over" /\ ~fresh /\ ~finished
  /\ finished' = TRUE
  /\ IF state = "DATAFLOW"
     THEN dataFlow' = Append(dataFlow, EndToken(configured, currentId + 1))
          /\ currentId' = currentId + 1
          /\ UNCHANGED <<out, list>>
     ELSE CommitRest /\ UNCHANGED <<dataFlow, currentId>>
  /\ UNCHANGED <<program, frames, prevControlInstId, loadMap, storeMap, aborted, snapshot,
                 pattern, state, currentLoop, loopIter, fresh, stats, configured,
                 staticToDynamic>>

DataFlowNext ==
  \/ Search \/ Buffer \/ BoundaryTooSoon \/ ProcessBuffer \/ FlowOn
  \/ Finish

-----------------------------------------------------------------------------
IsInst(e) == e.pos # 0
IsToken(e, name) == ~IsInst(e) /\ e.token = name

Ends == {j \in DOMAIN dataFlow : ~IsInst(dataFlow[j])}
Starts == {k \in DOMAIN out : IsToken(out[k], "df-start")}
UpTo(S, k) == Cardinality(S \cap 1 .. k)

(* The instructions that the start token at k of the stream stands for: the *)
(* k-th start token goes with what is before the k-th end token.            *)
Segment(k) == {j \in DOMAIN dataFlow \ Ends : UpTo(Ends, j) + 1 = UpTo(Starts, k)}

(* Put back in place of the start tokens, the segments of the data flow     *)
(* make the trace again: nothing is lost, doubled or out of order, but the *)
(* last instruction of a trace that ends in a data flow, which stays in    *)
(* the list (AbstractDataFlowAcceleratorPass.cpp:151-165, 262-300).         *)
StreamsMerge ==
  LET kept  == {k \in DOMAIN out : IsInst(out[k])}
      moved == DOMAIN dataFlow \ Ends
      given == Len(seen) - Len(list) IN
  /\ {out[k].pos : k \in kept} \cup {dataFlow[j].pos : j \in moved} = 1 .. given
  /\ \A k, l \in kept : k < l => out[k].pos < out[l].pos
  /\ \A j, l \in moved : j < l => dataFlow[j].pos < dataFlow[l].pos
  /\ \A k \in kept, j \in moved :
       IF UpTo(Starts, k) <= UpTo(Ends, j) THEN out[k].pos < dataFlow[j].pos
                                           ELSE dataFlow[j].pos < out[k].pos
  /\ \A j \in moved : \E k \in Starts : j \in Segment(k)
  /\ \A k \in DOMAIN list : list[k].pos = given + k
  /\ Cardinality(Starts) =
       Cardinality(Ends) + (IF state = "DATAFLOW" /\ ~finished THEN 1 ELSE 0)
  /\ finished /\ state # "DATAFLOW" => list = <<>>

(* Each segment is run by an accelerator configured for its loop.  It has   *)
(* at least BufferThreshold instructions, all of the loop, begins with an   *)
(* iteration, and ends only where the loop is left, or the trace.           *)
SegmentsWhole ==
  \A k \in Starts :
    LET loop  == out[k].loop
        first == {j \in Segment(k) : \A l \in Segment(k) : j <= l}
        last  == {j \in Segment(k) : \A l \in Segment(k) : l <= j} IN
    /\ \E c \in 1 .. k :
         /\ IsToken(out[c], "df-config") /\ out[c].loop = loop
         /\ \A l \in c + 1 .. k : ~IsToken(out[l], "df-config")
    /\ Segment(k) # {} /\ Cardinality(Segment(k)) >= BufferThreshold
    /\ \A j \in Segment(k) : dataFlow[j].inst \in LoopInsts[loop]
    /\ \A j \in first : IsStaticInstLoopHead(loop, dataFlow[j].inst)
    /\ \A j \in last :
         LET after == dataFlow[j].pos + 1 IN
         UpTo(Starts, k) <= Cardinality(Ends)
           /\ ~(finished /\ state = "DATAFLOW" /\ after = Len(seen)) =>
         seen[after].inst \notin LoopInsts[loop]

(* The statistics count what the streams hold. *)
StatsExact ==
  \A l \in Loop :
    LET Tokens(name) == {k \in DOMAIN out : IsToken(out[k], name) /\ out[k].loop = l} IN
    /\ stats[l].config = Cardinality(Tokens("df-config"))
    /\ stats[l].dataFlow = Cardinality(Tokens("df-start"))
    /\ stats[l].dataFlowDynamic = Cardinality(UNION {Segment(k) : k \in Tokens("df-start")})

StreamsSound == StreamsMerge /\ SegmentsWhole /\ StatsExact

(* "For register and memory dependence, I just leave them there"            *)
(* (AbstractDataFlowAcceleratorPass.h:66-69): an instruction of the data    *)
(* flow depends on the newest branch that decided on it, if that is in its *)
(* segment, and on the producers of its operands.  But what the data graph *)
(* holds of induction and reduction variables in Deps is not there.        *)
DataFlowDepsExact ==
  LET entries == out \o dataFlow \o list
      IdOf    == [p \in DOMAIN seen |->
                    entries[CHOOSE k \in DOMAIN entries : entries[k].pos = p].id] IN
  \A k \in Starts :
    LET inside == {dataFlow[j].pos : j \in Segment(k)} IN
    \A j \in Segment(k) :
      LET d     == dataFlow[j]
          loop  == LoopOf[Code[d.inst].bb]
          truth == seen[d.pos] IN
      /\ d.pdf \cup d.unrollable = {IdOf[p] : p \in truth.pdf \cap inside}
      /\ d.ctr = {}
      /\ d.reg = {<<r[1], IdOf[r[2]]>> : r \in
           {r \in truth.reg : ~IsInductionVariable(loop, r[1]) /\ ~IsReductionVariable(loop, r[1])}}

=============================================================================
