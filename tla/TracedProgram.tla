--------------------------- MODULE TracedProgram ---------------------------
(***************************************************************************)
(* A program in LLVM's SSA form, as far as its trace shows it: the          *)
(* instrumented functions given by Code, uninstrumented ones that may call *)
(* back and throw, and what each traced instruction really depends on.     *)
(*                                                                         *)
(* An instruction is a record of its operation, function, basic block,     *)
(* operands (0 for a constant or an argument), successor blocks (of an      *)
(* invoke: the normal and the exceptional one) and possible callees.  A    *)
(* value is known by the position in the trace of the instruction that     *)
(* computed it, 0 if it is older than the trace.                           *)
(***************************************************************************)
EXTENDS MemoryDependence, SequencesExt      \* Address, Bytes

CONSTANTS
  Code,                          \* the instructions, block after block
  Incoming,                      \* of a phi: its operand for each predecessor
  Frontier,                      \* post-dominance frontier of each block
  Instrumented, External, Main,  \* functions
  Accesses,                      \* what a load or store may access
  MaxDepth, MaxTime              \* bounds: activations, traced instructions

VARIABLES
  real,      \* the activations of the functions running
  pc,        \* "run", "call" (waits for the callee to begin) or "end"
  memory,    \* which store wrote each byte
  tracing,   \* "before", "on" or "over"
  seen       \* the traced instructions, phis left out, as they really were

program == <<real, pc, memory, tracing, seen>>

Inst  == DOMAIN Code
Block == {Code[i].bb : i \in Inst}

Entry(f) ==
  CHOOSE i \in Inst : Code[i].fn = f /\ \A j \in Inst : Code[j].fn = f => i <= j
First(b) ==
  CHOOSE i \in Inst : Code[i].bb = b /\ \A j \in Inst : Code[j].bb = b => i <= j
Terminator(b) ==
  CHOOSE i \in Inst : Code[i].bb = b /\ \A j \in Inst : Code[j].bb = b => j <= i

Instruction ==
  [op : {"op", "load", "store", "phi", "br", "call", "invoke", "landingpad", "ret"},
   fn : Instrumented, bb : Block, uses : Seq({0} \cup Inst), to : Seq(Block),
   callees : SUBSET (Instrumented \cup External)]

(* A block that an exception enters, at its beginning. *)
Landing(i) ==
  /\ i = First(Code[i].bb)
  /\ \E j \in Inst : Code[j].bb = Code[i].bb /\ Code[j].op = "landingpad"

Predecessors(b) == {i \in Inst : b \in ToSet(Code[i].to)}

(* The values that are used, which are the results of instructions.         *)
UsedValues ==
  (UNION {ToSet(Code[i].uses) : i \in Inst})
    \cup (UNION {{Incoming[i][b] : b \in DOMAIN Incoming[i]} : i \in DOMAIN Incoming})

(* The rules of LLVM's IR: functions are made of blocks, blocks of phis and *)
(* other instructions up to a branch, invoke or return;                     *)
ASSUME CodeAssumption ==
  /\ Main \in Instrumented /\ Instrumented \cap External = {}
  /\ Code \in Seq(Instruction) /\ "none" \notin Block
  /\ \A f \in Instrumented :
       (\E i \in Inst : Code[i].fn = f) /\ Code[Entry(f)].op # "phi"
  /\ \A i \in Inst :
       /\ Code[i].op \notin {"br", "invoke", "ret"} =>
            i + 1 \in Inst /\ Code[i + 1].bb = Code[i].bb /\ Code[i + 1].fn = Code[i].fn
       /\ Code[i].op = "phi" =>
            i = First(Code[i].bb) \/ (Code[i - 1].op = "phi" /\ Code[i - 1].bb = Code[i].bb)
       /\ \A b \in ToSet(Code[i].to) : Code[First(b)].fn = Code[i].fn
       /\ Code[i].op = "invoke" =>
            Len(Code[i].to) = 2 /\ Landing(First(Code[i].to[2]))

(* a phi has an operand for each predecessor; what is used has been         *)
(* computed, by a call if its callees return something; and post-dominance *)
(* is a relation of blocks.                                                 *)
ASSUME ValueAssumption ==
  /\ \A i \in Inst : Code[i].op = "phi" =>
       /\ i \in DOMAIN Incoming
       /\ \A j \in Predecessors(Code[i].bb) : Code[j].bb \in DOMAIN Incoming[i]
  /\ \A u \in UsedValues \ {0} :
       /\ u \in Inst /\ Code[u].op \notin {"store", "br", "ret"}
       /\ \A i \in Inst : Code[i].op = "ret" /\ Code[i].fn \in Code[u].callees =>
            Code[i].uses # <<>>
  /\ \A b \in Block : b \in DOMAIN Frontier /\ Frontier[b] \subseteq Block

ASSUME AccessAssumption ==
  \A a \in Accesses : a.addr \in Nat /\ a.size \in Nat /\ Bytes(a) \subseteq Address

ASSUME BoundAssumption == MaxDepth \in Nat /\ MaxTime \in Nat

NoAccess == [addr |-> 0, size |-> 0]

(* by: the last execution of each instruction, val: what it computed.  from *)
(* is the block left last and exit what by and val were then.               *)
Activation(f) ==
  LET none == [by |-> [i \in Inst |-> 0], val |-> [i \in Inst |-> 0]] IN
  [fn |-> f, at |-> IF f \in Instrumented THEN Entry(f) ELSE 0,
   by |-> none.by, val |-> none.val, from |-> "none", exit |-> none]

ProgramInit ==
  /\ real = <<Activation(Main)>>
  /\ pc = "run"
  /\ memory = [a \in Address |-> 0]
  /\ tracing = "before"
  /\ seen = <<>>

Running == Last(real)
Current == Running.at
InCode(ops) ==
  /\ tracing # "over" /\ pc = "run" /\ real # <<>>
  /\ Running.fn \in Instrumented /\ Code[Current].op \in ops

(* The position in the trace of the instruction that executes now. *)
Now == IF tracing = "on" THEN Len(seen) + 1 ELSE 0

Value(u) == IF u = 0 THEN 0 ELSE Running.val[u]
Operands == [k \in DOMAIN Code[Current].uses |-> Value(Code[Current].uses[k])]

-----------------------------------------------------------------------------
Leave(act, b) ==
  [act EXCEPT !.at = First(b), !.from = Code[act.at].bb,
              !.exit = [by |-> act.by, val |-> act.val]]

(* A call or invoke is over, with result v. *)
Resume(act, v) ==
  LET done == [act EXCEPT !.val[act.at] = v] IN
  IF Code[act.at].op = "invoke" THEN Leave(done, Code[act.at].to[1])
  ELSE [done EXCEPT !.at = @ + 1]

(* Phis read their operands as they were at the end of the block before.    *)
Phi ==
  /\ InCode({"phi"})
  /\ LET u == Incoming[Current][Running.from]
         v(values) == IF u = 0 THEN 0 ELSE values[u] IN
     real' = Append(Front(real),
       [Running EXCEPT !.by[Current] = v(Running.exit.by),
                       !.val[Current] = v(Running.exit.val), !.at = @ + 1])
  /\ UNCHANGED <<pc, memory, tracing, seen>>

(* The last execution of a branch (br or switch), return or call. *)
LastControl ==
  LET controls == {k \in DOMAIN seen : Code[seen[k].inst].op \in {"br", "ret", "call"}} IN
  IF controls = {} THEN {} ELSE {CHOOSE k \in controls : \A j \in controls : j <= k}

(* The instruction that executes now, and what it really depends on: the    *)
(* instructions that computed its operands, the last control transfer, and *)
(* the newest branch that could have led elsewhere.                         *)
Truth(access) ==
  LET branches == {Running.by[Terminator(b)] : b \in Frontier[Code[Current].bb]} \ {0} IN
  [inst   |-> Current,
   access |-> access,
   reg    |-> {<<u, Running.by[u]>> : u \in
                 {u \in ToSet(Code[Current].uses) \ {0} : Running.by[u] # 0}},
   ctr    |-> LastControl,
   pdf    |-> {k \in branches : \A j \in branches : j <= k}]

Execute(access) ==
  IF tracing = "on" THEN Len(seen) < MaxTime /\ seen' = Append(seen, Truth(access))
  ELSE UNCHANGED seen

(* The instruction runs and the next one follows. *)
Compute ==
  [Running EXCEPT !.by[Current] = Now, !.val[Current] = Now, !.at = @ + 1]

Operation ==
  /\ InCode({"op", "landingpad"}) /\ Execute(NoAccess)
  /\ real' = Append(Front(real), Compute)
  /\ UNCHANGED <<pc, memory, tracing>>

Load(access) ==
  /\ InCode({"load"}) /\ Execute(access)
  /\ real' = Append(Front(real), Compute)
  /\ UNCHANGED <<pc, memory, tracing>>

Store(access) ==
  /\ InCode({"store"}) /\ Execute(access)
  /\ real' = Append(Front(real), Compute)
  /\ memory' = [a \in Address |-> IF a \in Bytes(access) THEN Now ELSE memory[a]]
  /\ UNCHANGED <<pc, tracing>>

Branch(b) ==
  /\ InCode({"br"}) /\ b \in ToSet(Code[Current].to) /\ Execute(NoAccess)
  /\ real' = Append(Front(real), Leave([Running EXCEPT !.by[Current] = Now], b))
  /\ UNCHANGED <<pc, memory, tracing>>

Call ==
  /\ InCode({"call", "invoke"}) /\ Execute(NoAccess)
  /\ real' = Append(Front(real), [Running EXCEPT !.by[Current] = Now])
  /\ pc' = "call"
  /\ UNCHANGED <<memory, tracing>>

Return ==
  /\ InCode({"ret"}) /\ Execute(NoAccess)
  /\ LET callers == Front(real)
         v == IF Operands = <<>> THEN 0 ELSE Operands[1] IN
     real' = IF callers = <<>> \/ Last(callers).fn \in External THEN callers
             ELSE Append(Front(callers), Resume(Last(callers), v))
  /\ pc' = IF real' = <<>> THEN "end" ELSE "run"
  /\ UNCHANGED <<memory, tracing>>

(* The callee begins, or uninstrumented code calls back. *)
Enter(f) ==
  /\ tracing # "over" /\ Len(real) < MaxDepth
  /\ \/ pc = "call" /\ f \in Code[Current].callees
     \/ pc = "run" /\ real # <<>> /\ Running.fn \in External /\ f \in Instrumented
  /\ real' = Append(real, Activation(f))
  /\ pc' = "run"
  /\ UNCHANGED <<memory, tracing, seen>>

InExternal == tracing # "over" /\ pc = "run" /\ real # <<>> /\ Running.fn \in External

(* What uninstrumented code returns is new to the program. *)
ReturnExternal ==
  /\ InExternal
  /\ LET caller == Last(Front(real)) IN
     real' = Append(Front(Front(real)), Resume(caller, caller.by[caller.at]))
  /\ UNCHANGED <<pc, memory, tracing, seen>>

(* Uninstrumented code throws to the invoke of activation k.  An exception  *)
(* does not pass a second activation of the function that catches it.       *)
Throw(k) ==
  /\ InExternal
  /\ k \in 1 .. Len(real) - 1
  /\ real[k].fn \in Instrumented /\ Code[real[k].at].op = "invoke"
  /\ \A j \in k + 1 .. Len(real) : real[j].fn # real[k].fn
  /\ real' = Append(SubSeq(real, 1, k - 1), Leave(real[k], Code[real[k].at].to[2]))
  /\ UNCHANGED <<pc, memory, tracing, seen>>

(* The trace may begin and end anywhere. *)
StartTrace ==
  /\ tracing = "before" /\ pc # "end"
  /\ tracing' = "on"
  /\ UNCHANGED <<real, pc, memory, seen>>

StopTrace ==
  /\ tracing = "on"
  /\ tracing' = "over"
  /\ UNCHANGED <<real, pc, memory, seen>>

=============================================================================
