----------------------------- MODULE DataGraph -----------------------------
(***************************************************************************)
(* The dynamic data graph (DataGraph.cpp) in its standalone mode, the      *)
(* default of the replay pass: for each instruction read from the trace,   *)
(* which earlier ones it depends on through registers, memory and control. *)
(*                                                                         *)
(* A frame is kept for each function entered since the trace began, the    *)
(* innermost last.  Its dep says for each instruction which dynamic        *)
(* instructions a use of it depends on, its env which value it had last.   *)
(* The trace is read as the program of module TracedProgram runs.          *)
(***************************************************************************)
EXTENDS LoopUtils, FiniteSetsExt

CONSTANTS NumParams       \* of each instrumented function

(* A function is called with as many arguments as it has parameters. *)
ASSUME ParamsAssumption ==
  /\ NumParams \in [Instrumented -> Nat]
  /\ \A i \in Inst : \A f \in Code[i].callees \cap Instrumented :
       NumParams[f] <= Len(Code[i].uses)

VARIABLES
  frames,                 \* DynamicFrameStack
  prevControlInstId,      \* PrevControlInstId
  loadMap, storeMap,      \* MemDepsComputer
  currentId,              \* last id given to a dynamic instruction
  list,                   \* DynamicInstructionList, with its dependences
  aborted                 \* has an assertion failed?

graph == <<frames, prevControlInstId, loadMap, storeMap, currentId, list, aborted>>

NoValue == -1

DynamicFrame(f) ==
  [fn |-> f, dep |-> [i \in Inst |-> {}], env |-> [i \in Inst |-> NoValue],
   prevBB |-> "none", prevCallInst |-> 0, callStack |-> 0]

GraphInit ==
  /\ frames = <<>>
  /\ prevControlInstId = InvalidId
  /\ loadMap = EmptyMap /\ storeMap = EmptyMap
  /\ currentId = 0
  /\ list = <<>>
  /\ aborted = FALSE

(* Only read the trace while it is being written. *)
WhenTracing(parse) == IF tracing = "on" /\ ~aborted THEN parse ELSE UNCHANGED graph

-----------------------------------------------------------------------------
(* An argument is looked up among the operands of the pending call, if any. *)
ParseFunctionEnter(f) ==
  IF /\ frames # <<>> /\ Last(frames).callStack # 0
     /\ NumParams[f] > Last(frames).callStack
  THEN aborted' = TRUE
       /\ UNCHANGED <<frames, prevControlInstId, loadMap, storeMap, currentId, list>>
  ELSE frames' = Append(frames, DynamicFrame(f))
       /\ UNCHANGED <<prevControlInstId, loadMap, storeMap, currentId, list, aborted>>

(* Mutant: every frame above the outermost one of the function is popped. *)
GetLLVMInstruction_Outermost(f) ==
  LET mine == {k \in DOMAIN frames : frames[k].fn = f} IN
  IF mine = {} THEN <<DynamicFrame(f)>> ELSE SubSeq(frames, 1, Min(mine))

(* Frames are popped until the function of the instruction is found. *)
GetLLVMInstruction(f) ==
  LET mine == {k \in DOMAIN frames : frames[k].fn = f} IN
  IF mine = {} THEN <<DynamicFrame(f)>> ELSE SubSeq(frames, 1, Max(mine))

(* Mutant: a phi that takes the value of a phi depends on nothing. *)
HandlePhiNode_SkipsPhis(frame, i, result) ==
  LET u == IF frame.prevBB = "none" THEN 0 ELSE Incoming[i][frame.prevBB] IN
  [frame EXCEPT
     !.env[i] = IF u # 0 /\ frame.env[u] # NoValue THEN frame.env[u] ELSE result,
     !.dep[i] = IF u # 0 /\ Code[u].op # "phi" THEN frame.dep[u] ELSE {}]

(* The block that was left last says which operand the phi takes. *)
HandlePhiNode(frame, i, result) ==
  LET u == IF frame.prevBB = "none" THEN 0 ELSE Incoming[i][frame.prevBB] IN
  [frame EXCEPT
     !.env[i] = IF u # 0 /\ frame.env[u] # NoValue THEN frame.env[u] ELSE result,
     !.dep[i] = IF u # 0 THEN frame.dep[u] ELSE {}]

ParsePhi(i, result) ==
  LET stack == GetLLVMInstruction(Code[i].fn) IN
  /\ frames' = Append(Front(stack), HandlePhiNode(Last(stack), i, result))
  /\ UNCHANGED <<prevControlInstId, loadMap, storeMap, currentId, list, aborted>>

-----------------------------------------------------------------------------
(* RegDeps: the operand, and an instruction that computed it.  What is due  *)
(* to induction and reduction variables of the loop is kept apart.         *)
HandleRegisterDependence(frame, i) ==
  LET loop  == LoopOf[Code[i].bb]
      used  == ToSet(Code[i].uses) \ {0}
      ivs   == {u \in used : loop # NoLoop /\ IsInductionVariable(loop, u)}
      rvs   == {u \in used \ ivs : loop # NoLoop /\ IsReductionVariable(loop, u)}
      On(S) == UNION {{u} \X frame.dep[u] : u \in S} IN
  [reg |-> On(used \ (ivs \cup rvs)), iv |-> On(ivs), rv |-> On(rvs)]

(* Mutant: the oldest one is taken, as the name of the variable says. *)
HandlePostDominance_Oldest(frame, i) ==
  LET terminators == UNION {frame.dep[Terminator(b)] : b \in Frontier[Code[i].bb]} IN
  {id \in terminators : \A other \in terminators : id <= other}

(* The newest terminator in the post-dominance frontier, which the code     *)
(* calls the oldest.                                                        *)
HandlePostDominance(frame, i) ==
  LET terminators == UNION {frame.dep[Terminator(b)] : b \in Frontier[Code[i].bb]} IN
  {id \in terminators : \A other \in terminators : other <= id}

(* Mutant: a value already there is not replaced by the result. *)
UpdateEnv_KeepsFirst(frame, i, operands, result) ==
  LET Given(u) == {operands[k] : k \in {k \in DOMAIN operands : Code[i].uses[k] = u}} IN
  [frame EXCEPT !.env = [u \in Inst |->
     CASE u = i /\ @[u] = NoValue                  -> result
       [] u # i /\ @[u] = NoValue /\ Given(u) # {} -> CHOOSE v \in Given(u) : TRUE
       [] OTHER                                     -> @[u]]]

(* Operands enter the environment where it has no value yet, the result     *)
(* always.                                                                  *)
UpdateEnv(frame, i, operands, result) ==
  LET Given(u) == {operands[k] : k \in {k \in DOMAIN operands : Code[i].uses[k] = u}} IN
  [frame EXCEPT !.env = [u \in Inst |->
     CASE u = i /\ result # NoValue                 -> result
       [] u # i /\ @[u] = NoValue /\ Given(u) # {} -> CHOOSE v \in Given(u) : TRUE
       [] OTHER                                     -> @[u]]]

(* The frame after its instruction i, and before a return is popped. *)
UpdateFrame(frame, i, operands, result, id) ==
  [UpdateEnv(frame, i, operands, result) EXCEPT
     !.dep[i] = {id},
     !.prevBB = Code[i].bb]

(* The value returned belongs to the call that is pending in the caller. *)
PopFrame(stack, operands) ==
  LET callers == Front(stack)
      caller  == Last(callers) IN
  IF operands = <<>> \/ callers = <<>> \/ caller.prevCallInst = 0 THEN callers
  ELSE Append(Front(callers),
         [caller EXCEPT !.env[caller.prevCallInst] = operands[1],
                        !.prevCallInst = 0, !.callStack = 0])

SetUpCall(frame, i) ==
  IF Code[i].op \in {"call", "invoke"}
  THEN [frame EXCEPT !.prevCallInst = i, !.callStack = Len(Code[i].uses)]
  ELSE frame

(* parseDynamicInstruction: instruction i with the values of its operands,  *)
(* its result (NoValue: none in the trace) and the bytes it accesses.  pos, *)
(* its position in the trace, is for the properties.                        *)
ParseInst(i, operands, result, access, bytes) ==
  LET stack == GetLLVMInstruction(Code[i].fn)
      frame == Last(stack)
      id    == currentId + 1
      after == UpdateFrame(frame, i, operands, result, id)
      deps  == HandleRegisterDependence(frame, i)
      isLoad == Code[i].op = "load" IN
  /\ currentId' = id
  /\ list' = Append(list,
       [id |-> id, pos |-> Len(seen) + 1, inst |-> i, access |-> access, bytes |-> bytes,
        reg |-> deps.reg, iv |-> deps.iv, rv |-> deps.rv,
        ctr |-> {prevControlInstId} \ {InvalidId},
        pdf |-> HandlePostDominance(frame, i),
        mem |-> GetMemoryDependence(loadMap, storeMap, access, isLoad)])
  /\ loadMap' = IF isLoad THEN UpdateBytes(loadMap, access, id) ELSE loadMap
  /\ storeMap' = IF isLoad THEN storeMap ELSE UpdateBytes(storeMap, access, id)
  /\ prevControlInstId' =
       IF Code[i].op \in {"br", "ret", "call"} THEN id ELSE prevControlInstId
  /\ frames' = IF Code[i].op = "ret" THEN PopFrame(Append(Front(stack), after), operands)
               ELSE Append(Front(stack), SetUpCall(after, i))
  /\ UNCHANGED aborted

CommitOneDynamicInst ==
  /\ list' = Tail(list)
  /\ UNCHANGED <<frames, prevControlInstId, loadMap, storeMap, currentId, aborted>>

=============================================================================
