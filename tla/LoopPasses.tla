----------------------------- MODULE LoopPasses -----------------------------
(***************************************************************************)
(* One of the passes on loops runs on a program.                           *)
(***************************************************************************)
EXTENDS AbstractDataFlow, SIMDTransform, SpeculativePrecomputation

CONSTANTS
  DataFlowTime,      \* bound: traced instructions for the accelerator
  SIMDOutside,       \* bound: those out of inner loops for the SIMD pass
  SliceTime          \* bound: traced instructions for the precomputation

VARIABLE running      \* which pass was asked for

vars == <<program, graph, snapshot, pattern, pass, accelerator, precomputation, running>>

(* Addresses matter to the SIMD pass only: for the others one pattern is    *)
(* enough.                                                                  *)
Init ==
  \/ /\ running = "adfa" /\ DataFlowInit /\ PrecomputationOff
     /\ pattern = CHOOSE p \in Patterns : TRUE
  \/ running = "simd" /\ SIMDInit /\ AcceleratorOff /\ PrecomputationOff
  \/ /\ running = "specpre" /\ PrecomputationInit /\ AcceleratorOff
     /\ pattern = CHOOSE p \in Patterns : TRUE

Next ==
  \/ /\ running = "adfa"
     /\ DataFlowNext \/ (LoadOne /\ Len(seen') <= DataFlowTime /\ UNCHANGED accelerator)
     /\ UNCHANGED <<precomputation, running>>
  \/ /\ running = "simd"
     /\ SIMDNext \/ (LoadOne /\ Cardinality(OutOfInnerLoops(seen')) <= SIMDOutside)
     /\ UNCHANGED <<accelerator, precomputation, running>>
  \/ /\ running = "specpre"
     /\ \/ PrecomputationNext
        \/ LoadOne /\ Len(seen') <= SliceTime /\ UNCHANGED precomputation
     /\ UNCHANGED <<accelerator, running>>

Spec == Init /\ [][Next]_vars

-----------------------------------------------------------------------------
(* The accelerator's stream and the instruction stream make the trace: see  *)
(* AbstractDataFlow.                                                        *)
DataFlowSound == running = "adfa" /\ ~aborted => StreamsSound

(* Every traced instruction is in the stream once, and a vector does what   *)
(* the instructions did that it stands for: see SIMDTransform.             *)
VectorsSound == running = "simd" => ScalarsCovered /\ VectorsExact

(* What the accelerator says that an instruction waits for is what the      *)
(* program waits for; and each trigger starts what the next execution of    *)
(* its load needs, ahead of it: see AbstractDataFlow and                    *)
(* SpeculativePrecomputation.  No assertion of the former fails.            *)
NeedsSound ==
  /\ running = "adfa" => ~aborted /\ DataFlowDepsExact
  /\ running = "specpre" => SlicesExact

=============================================================================
