------------------------------- MODULE Replay -------------------------------
(***************************************************************************)
(* The replay pass with its default transformation (Replay.cpp:658-705): a *)
(* window slides over the data graph, and what leaves it is serialized and *)
(* shown to the cache warmer.                                              *)
(***************************************************************************)
EXTENDS CacheWarmer

CONSTANTS Window

ASSUME WindowAssumption == Window \in Nat

VARIABLES
  out             \* the serialized instructions

vars == <<program, graph, out, snapshot>>

Init == ProgramInit /\ GraphInit /\ WarmerInit /\ out = <<>>

(* One more instruction is read while at most Window wait in the list. *)
CanLoad == tracing = "on" => Len(list) <= Window

LoadOne == CanLoad /\ LoadOneDynamicInst(Accesses) /\ UNCHANGED <<out, snapshot>>

Serialize ==
  /\ ~aborted
  /\ Len(list) > Window \/ (tracing = "over" /\ list # <<>>)
  /\ out' = Append(out, Head(list))
  /\ AddAccess(Head(list))
  /\ CommitOneDynamicInst
  /\ UNCHANGED program

Next == LoadOne \/ Serialize

Spec == Init /\ [][Next]_vars

-----------------------------------------------------------------------------
All == out \o list

TypeOK ==
  /\ \A k \in DOMAIN frames :
       /\ frames[k].fn \in Instrumented
       /\ frames[k].dep \in [Inst -> SUBSET (1 .. currentId)]
       /\ frames[k].env \in [Inst -> {NoValue} \cup 0 .. currentId]
       /\ frames[k].prevCallInst \in {0} \cup Inst
  /\ currentId \in 0 .. MaxTime
  /\ prevControlInstId \in 0 .. currentId
  /\ loadMap \in [log : Seq([addr : Address, id : 1 .. currentId]), map : [Address -> 0 .. currentId]]
  /\ storeMap \in [log : Seq([addr : Address, id : 1 .. currentId]), map : [Address -> 0 .. currentId]]
  /\ Indexed(loadMap) /\ Indexed(storeMap)
  /\ Len(list) <= Window + 1
  /\ [k \in DOMAIN All |-> All[k].id] = [k \in 1 .. currentId |-> k]

(* An instruction depends through registers on the instructions that        *)
(* computed its operands, through phis, calls and returns, whether the      *)
(* trace saw the function from its beginning or not (DataGraph.cpp:486-637).*)
RegDepsExact ==
  LET trace == All IN
  \A k \in DOMAIN trace : trace[k].reg \cup trace[k].iv \cup trace[k].rv = seen[k].reg

(* It depends on the branch, switch, return or call before it, and on the   *)
(* newest branch of its own activation that decided whether its block runs *)
(* (DataGraph.cpp:811-823, 1039-1069).                                      *)
ControlDepsExact ==
  LET trace == All IN
  \A k \in DOMAIN trace : trace[k].ctr = seen[k].ctr /\ trace[k].pdf = seen[k].pdf

(* Both together: the dependences on values and on control of every         *)
(* instruction are those of the program.                                    *)
DepsExact == RegDepsExact /\ ControlDepsExact

Executions(trace, op) == {k \in DOMAIN trace : Code[trace[k].inst].op = op}

(* Everything that instruction k waits for through memory. *)
After(trace, k) ==
  LET Reach[j \in 0 .. k] ==
        IF j = 0 THEN {} ELSE trace[j].mem \cup UNION {Reach[d] : d \in trace[j].mem}
  IN  Reach[k]

(* "It assumes that the user will not care about long range memory          *)
(* dependence" (DataGraph.h:26-33): an access waits for every store before *)
(* it to one of its bytes, a store for the last load before it as well,    *)
(* unless the log has forgotten them; and it waits directly only for        *)
(* accesses that it really conflicts with.                                  *)
MemoryOrdered ==
  LET trace  == All
      loads  == Executions(trace, "load")
      stores == Executions(trace, "store")
      bytes  == [k \in DOMAIN trace |-> Bytes(trace[k].access)]
      Overlap(i, k) == bytes[i] \cap bytes[k] # {}
      Forgotten(kind, i, k) ==
        Cardinality(UNION {{j} \X bytes[j] : j \in kind \cap i .. k - 1}) > LogThreshold
      LastLoad(i, k) ==
        \E a \in bytes[i] \cap bytes[k] : \A j \in loads \cap i + 1 .. k : a \notin bytes[j] IN
  \A k \in loads \cup stores :
    /\ \A i \in trace[k].mem : i < k /\ Overlap(i, k) /\ {i, k} \cap stores # {}
    /\ \A i \in stores : i < k /\ Overlap(i, k) =>
         i \in After(trace, k) \/ Forgotten(stores, i, k)
    /\ k \in stores => \A i \in loads : i < k /\ LastLoad(i, k) =>
         i \in trace[k].mem \/ Forgotten(loads, i, k)

(* Has the reader seen the last event?  An exception shows only with the    *)
(* first entry of the block that it went to.                                *)
UpToDate ==
  /\ tracing = "on" /\ real # <<>>
  /\ Running.fn \in Instrumented => ~Landing(Current)

(* The place of activation k in the frames, if it is on them: an activation *)
(* of an instrumented function, with as many frames above it as there are  *)
(* activations of such functions.                                           *)
FrameOf(k) ==
  Len(frames) + 1 - Cardinality({j \in k .. Len(real) : real[j].fn \in Instrumented})
Framed == {k \in DOMAIN real : real[k].fn \in Instrumented /\ FrameOf(k) > 0}

(* The frames are the innermost activations of the program, through         *)
(* recursion, calls from uninstrumented code and exceptions, and the        *)
(* arguments of a call are found (DataGraph.cpp:735-736, 764-809).          *)
FramesExact ==
  /\ ~aborted
  /\ UpToDate => /\ {FrameOf(k) : k \in Framed} = DOMAIN frames
                 /\ \A k \in Framed : frames[FrameOf(k)].fn = real[k].fn

(* "Records the information of the dynamic value inter-frame"               *)
(* (DataGraph.h:230): a value in a frame is the one the instruction         *)
(* computed last in that activation.  (LoopCode uses no result of an        *)
(* uninstrumented function: such a one is not in the trace, and the         *)
(* environment keeps the first that an operand shows.)                     *)
EnvExact ==
  UpToDate => \A k \in Framed : \A u \in UsedValues \ {0} :
    frames[FrameOf(k)].env[u] \in {NoValue, real[k].val[u]}

(* The frames and the values in them follow the program through calls from  *)
(* and of uninstrumented code.                                              *)
CallsFollowed == FramesExact /\ EnvExact

(* "Check for the initial memory snapshot" (CacheWarmer.cpp:60): from the   *)
(* snapshot, the serialized stores give each serialized load what it read. *)
SnapshotReplays ==
  LET trace  == All
      stores == Executions(trace, "store") IN
  \A k \in Executions(out, "load") : \A a \in Bytes(out[k].access) :
    LET writers == {j \in stores : j < k /\ a \in Bytes(trace[j].access)} IN
    out[k].bytes[a] = IF writers = {} THEN snapshot[a] ELSE Max(writers)

-----------------------------------------------------------------------------
(* What the program has to stay clear of, for the properties above to hold: *)

(* a phi whose operand is an earlier phi of its block, since phis are        *)
(* resolved one after the other (DataGraph.cpp:629);                        *)
PhisApart ==
  \A i \in Inst : Code[i].op = "phi" => \A b \in DOMAIN Incoming[i] :
    LET u == Incoming[i][b] IN
    u \in Inst /\ Code[u].op = "phi" /\ Code[u].bb = Code[i].bb => u >= i

(* the result of a function that is not in the trace;                       *)
ResultsTraced ==
  \A u \in UsedValues \ {0} : Code[u].callees \subseteq Instrumented

(* and a callback with more parameters than the pending call has operands,  *)
(* if it has any (DataGraph.cpp:764-809).                                   *)
CallbacksFit ==
  \A i \in Inst : Code[i].callees \cap External # {} /\ Code[i].uses # <<>> =>
    \A f \in Instrumented : NumParams[f] <= Len(Code[i].uses)

=============================================================================
