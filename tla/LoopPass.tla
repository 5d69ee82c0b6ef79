------------------------------ MODULE LoopPass ------------------------------
(***************************************************************************)
(* What the passes that look at stretches of the trace share: they read    *)
(* one instruction at a time, keep in the list what they have not decided  *)
(* on yet, and either serialize it as it is or make something else of it.  *)
(* AbstractDataFlow, SIMDTransform and SpeculativePrecomputation are such  *)
(* passes, each derived from the replay pass.                              *)
(*                                                                         *)
(* Each load and store of the program walks over the addresses of its      *)
(* pattern.                                                                *)
(***************************************************************************)
EXTENDS CacheWarmer

CONSTANTS Patterns

VARIABLES
  pattern,        \* the addresses of each load and store in turn, its size, and
                  \* whether LLVM knows that the address is affine
  state,          \* State: "SEARCHING", "BUFFERING" or "DATAFLOW"
  currentLoop,    \* CurrentLoop, CurrentStaticLoop
  loopIter,       \* LoopIter
  fresh,          \* has the last instruction of the list just been loaded?
  finished,
  out,            \* the serialized instruction stream
  stats

pass == <<state, currentLoop, loopIter, fresh, finished, out, stats>>

(* An entry of a stream that is no traced instruction. *)
Token(name, loop, id) == [id |-> id, pos |-> 0, token |-> name, loop |-> loop]

PassInit ==
  /\ ProgramInit /\ GraphInit /\ WarmerInit
  /\ pattern \in Patterns
  /\ state = "SEARCHING"
  /\ currentLoop = NoLoop
  /\ loopIter = 0
  /\ fresh = FALSE /\ finished = FALSE
  /\ out = <<>>

Times(trace, i) == Cardinality({k \in DOMAIN trace : trace[k].inst = i})

(* What the load or store that executes now accesses. *)
NextAccess ==
  [addr |-> pattern[Current].walk[Times(seen, Current) + 1], size |-> pattern[Current].size]

(* The traced instructions out of inner loops, for the bounds. *)
OutOfInnerLoops(trace) ==
  {k \in DOMAIN trace :
    LET l == LoopOf[Code[trace[k].inst].bb] IN l = NoLoop \/ ~IsInnerMost(l)}

LoadOne ==
  /\ ~fresh /\ ~finished
  /\ LoadOneDynamicInst(IF InCode({"load", "store"}) THEN {NextAccess} ELSE {})
  /\ fresh' = (currentId' # currentId)
  /\ UNCHANGED <<snapshot, pattern, state, currentLoop, loopIter, finished, out, stats>>

Fresh == Last(list)

WarmCache ==
  IF Code[Fresh.inst].op \in {"load", "store"} THEN AddAccess(Fresh) ELSE UNCHANGED snapshot

(* Serialize all instructions but the last, or all of them. *)
CommitButLast ==
  /\ out' = out \o Front(list)
  /\ list' = <<Last(list)>>
CommitRest ==
  /\ out' = out \o list
  /\ list' = <<>>

=============================================================================
