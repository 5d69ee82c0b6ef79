----------------------------- MODULE LoopUtils -----------------------------
(***************************************************************************)
(* The loops of the traced program, and what the data graph and the passes *)
(* on loops ask of them (LoopUtils.cpp, LoopUnroller.cpp).                 *)
(***************************************************************************)
EXTENDS TracedProgram

CONSTANTS
  LoopOf,          \* the innermost loop of each block, or NoLoop
  Parent,          \* the loop around each loop, or NoLoop
  Header,          \* the header of each loop
  Ignored,         \* LoopContinuityIgnoredFunctions: sqrt and the like
  Inductions,      \* phis for which LLVM finds an induction, or a reduction,
  Reductions       \* in the loop that they head

NoLoop == "none"
Loop == DOMAIN Header

(* Loops are nested: each is made of blocks of the program, and the loops   *)
(* around it contain it.                                                    *)
ASSUME LoopNestAssumption ==
  /\ NoLoop \notin Loop
  /\ Block \subseteq DOMAIN LoopOf /\ \A b \in DOMAIN LoopOf : LoopOf[b] \in Loop \cup {NoLoop}
  /\ Parent \in [Loop -> Loop \cup {NoLoop}]

(* The loop, the one around it, and so on. *)
Enclosing == [l \in Loop |->
  {m \in Loop : \A S \in SUBSET Loop :
     l \in S /\ (\A n \in S : Parent[n] \in S \cup {NoLoop}) => m \in S}]

(* Is loop m, which may be none, in loop l? *)
LoopContains(l, m) == m # NoLoop /\ l \in Enclosing[m]

LoopBlocks == [l \in Loop |-> {b \in DOMAIN LoopOf : LoopContains(l, LoopOf[b])}]
LoopInsts == [l \in Loop |-> {i \in Inst : Code[i].bb \in LoopBlocks[l]}]
IsInnerMost(l) == \A m \in Loop : Parent[m] # l

FirstNonPHI(b) ==
  CHOOSE i \in Inst : /\ Code[i].bb = b /\ Code[i].op # "phi"
                      /\ \A j \in Inst : Code[j].bb = b /\ Code[j].op # "phi" => i <= j

IsStaticInstLoopHead(l, i) == i = FirstNonPHI(Header[l])

(* No call in it but of one known function that is ignored. *)
IsLoopContinuous(l) ==
  \A i \in LoopInsts[l] : Code[i].op \in {"call", "invoke"} =>
    Cardinality(Code[i].callees) = 1 /\ Code[i].callees \subseteq Ignored

NumStaticInst(l) == Cardinality({i \in LoopInsts[l] : Code[i].op # "phi"})

(* The branch of the only latch, if it either goes back or leaves the loop. *)
Latches(l) ==
  {b \in LoopBlocks[l] : Header[l] \in ToSet(Code[Terminator(b)].to)}
UnrollableTerminator(l) ==
  {Terminator(b) : b \in {b \in Latches(l) :
    /\ Latches(l) = {b}
    /\ \E out \in ToSet(Code[Terminator(b)].to) :
         out \notin LoopBlocks[l] /\ ToSet(Code[Terminator(b)].to) = {Header[l], out}}}

(* The unroller of a loop knows the phis of its header only. *)
IsInductionVariable(l, u) == u \in Inductions /\ Code[u].bb = Header[l]
IsReductionVariable(l, u) == u \in Reductions /\ Code[u].bb = Header[l]

=============================================================================
