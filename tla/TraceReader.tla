---------------------------- MODULE TraceReader ----------------------------
(***************************************************************************)
(* The trace meets its reader: each step of the program that leaves an     *)
(* entry in the trace is read into the data graph at once, the others      *)
(* leave the graph alone.  A pass decides when it reads on.                *)
(***************************************************************************)
EXTENDS DataGraph

Reads(step, parse) == step /\ WhenTracing(parse)

(* A traced instruction with result, or without. *)
ParseCurrent(result, access) ==
  ParseInst(Current, Operands, result, access,
            [a \in Bytes(access) |-> memory[a]])

TracePhi       == Reads(Phi, ParsePhi(Current, real'[Len(real)].val[Current]))
TraceOperation == Reads(Operation, ParseCurrent(Now, NoAccess))
TraceLoad(accesses)  == \E a \in accesses : Reads(Load(a), ParseCurrent(Now, a))
TraceStore(accesses) == \E a \in accesses : Reads(Store(a), ParseCurrent(NoValue, a))
TraceBranch    == \E i \in Inst : Reads(Branch(Code[i].bb), ParseCurrent(NoValue, NoAccess))
TraceCall      == Reads(Call, ParseCurrent(NoValue, NoAccess))
TraceReturn    == Reads(Return, ParseCurrent(NoValue, NoAccess))
TraceEnter     == \E f \in Instrumented : Reads(Enter(f), ParseFunctionEnter(f))

Untraced ==
  /\ \/ \E f \in External : Enter(f)
     \/ ReturnExternal
     \/ \E k \in 1 .. MaxDepth : Throw(k)
     \/ StartTrace
     \/ StopTrace
  /\ UNCHANGED graph

(* loadOneDynamicInst: entries are read until one is an instruction.  What  *)
(* a load or store may access now is given.                                 *)
LoadOneDynamicInst(accesses) ==
  \/ TracePhi \/ TraceOperation \/ TraceLoad(accesses) \/ TraceStore(accesses) \/ TraceBranch
  \/ TraceCall \/ TraceReturn \/ TraceEnter \/ Untraced

=============================================================================
