---------------------------- MODULE TraceWindow ----------------------------
(***************************************************************************)
(* The recording side of the tracer runtime: what Tracer.cpp does with the *)
(* events of instrumented code (function entries, instructions and their   *)
(* values) and what TracerProtobuf.cpp writes to the trace files.          *)
(*                                                                         *)
(* Each thread owns its slot (module TracerThreads), so a handler is one   *)
(* step between two accesses to `intervals', the only variable the threads *)
(* share: printInstEnd, which reads it up to three times and may pop it,   *)
(* takes up to four.                                                       *)
(***************************************************************************)
EXTENDS Integers, Sequences, SequencesExt, FiniteSets

CONSTANTS
  Thread,
  Setups,                                   \* ways to set up a traced program
  NumValues,                                \* values of an event
  MaxCount, MaxDepth                        \* bounds: instructions, frames

ASSUME WindowAssumption ==
  /\ NumValues \in Nat
  /\ \A s \in Setups :
       /\ s.threads \subseteq Thread
       /\ s.roi \in {"All", "SpecifiedFunction"}
       /\ s.mode \in {"Profile", "TraceAll", "TraceUniformInterval",
                     "TraceSpecifiedInterval"}
       /\ {s.startInst, s.skipInst, s.endInst, s.hardExitCount} \subseteq Nat
       /\ s.maxInst \in Nat \ {0}
       /\ s.traced \subseteq s.instrumented /\ s.instrumented \cap s.external = {}
       /\ s.nameless \subseteq s.external
       /\ s.intervals \in Seq([lhs : Nat, rhs : Nat])
       /\ \A i \in DOMAIN s.intervals : s.intervals[i].lhs < s.intervals[i].rhs
       /\ \A i, j \in DOMAIN s.intervals : i < j => s.intervals[i].rhs <= s.intervals[j].lhs

VARIABLES
  setup,                     \* chosen by the environment, then fixed
  real,                      \* call stack of each thread of the program
  pc,                        \* where each thread is between two events
  left,                      \* values the current event still has to log
  op,                        \* currentInstOpName, or "none"
  intervals,                 \* the shared list of intervals still to trace
  count, countInTraceFunc,
  stack,                     \* stackName, and stack: is a name in Traced?
  tracedFunctionsInStack,
  entry,                     \* protobufTraceEntry
  file, samples,             \* open trace file (0: none), files opened so far
  out,                       \* what each thread has serialized
  exited                     \* "no", "done" or "mismatch"

(* The environment of the tracer: LLVM_TDG_TRACE_ROI, LLVM_TDG_TRACE_MODE,  *)
(* the uniform windows, the intervals to trace and the hard limit.          *)
ROI == setup.roi
Mode == setup.mode
StartInst == setup.startInst
MaxInst == setup.maxInst
SkipInst == setup.skipInst
EndInst == setup.endInst
Intervals == setup.intervals
HardExitCount == setup.hardExitCount
(* The functions of the program. *)
Instrumented == setup.instrumented
Traced == setup.traced
External == setup.external
(* Those for which the unwinder finds no name, or one too long for its buffer. *)
Nameless == setup.nameless

counters == <<count, countInTraceFunc>>
frames   == <<stack, tracedFunctionsInStack>>
output   == <<file, samples, out>>
vars == <<setup, real, pc, left, op, intervals, counters, frames, entry, output, exited>>

Init ==
  /\ setup \in Setups
  /\ real = [t \in Thread |-> <<>>]
  /\ pc = [t \in Thread |-> "run"]
  /\ left = [t \in Thread |-> 0]
  /\ op = [t \in Thread |-> "none"]
  /\ intervals = Intervals
  /\ count = [t \in Thread |-> 0]
  /\ countInTraceFunc = [t \in Thread |-> 0]
  /\ stack = [t \in Thread |-> <<>>]
  /\ tracedFunctionsInStack = [t \in Thread |-> 0]
  /\ entry = [t \in Thread |-> [kind |-> "none", at |-> 0, vals |-> 0]]
  /\ file = [t \in Thread |-> 0]
  /\ samples = [t \in Thread |-> 0]
  /\ out = [t \in Thread |-> <<>>]
  /\ exited = "no"

At(t, label) == exited = "no" /\ pc[t] = label
Goto(t, label) == pc' = [pc EXCEPT ![t] = label]

-----------------------------------------------------------------------------
(* When to log, in terms of the counters of a thread *)

InstCount(c, cf) == IF ROI = "SpecifiedFunction" THEN cf ELSE c

InROI(traced) == ROI = "All" \/ traced > 0

(* Mutant: the window is short of its last instruction. *)
InUniformWindow_Short(n) ==
  n >= StartInst /\ (n - StartInst) % (MaxInst + SkipInst) < MaxInst - 1

InUniformWindow(n) ==
  n >= StartInst /\ (n - StartInst) % (MaxInst + SkipInst) < MaxInst

(* Mutant: the lower bound is not tested. *)
InFrontInterval_NoLowerBound(n) == intervals # <<>> /\ n < Head(intervals).rhs

InFrontInterval(n) ==
  intervals # <<>> /\ Head(intervals).lhs <= n /\ n < Head(intervals).rhs

Open(n) ==
  \/ Mode = "TraceAll"
  \/ Mode = "TraceUniformInterval" /\ InUniformWindow(n)
  \/ Mode = "TraceSpecifiedInterval" /\ InFrontInterval(n)

ShouldLog(traced, n) == InROI(traced) /\ Open(n)

Logs(t) == ShouldLog(tracedFunctionsInStack[t],
                     InstCount(count[t], countInTraceFunc[t]))

(* Mutant: END_INST is compared with the instructions of all functions. *)
ShouldExit_ComparesCount(t) ==
  \/ count[t] = HardExitCount
  \/ Mode = "TraceUniformInterval" /\ count[t] = EndInst
  \/ Mode = "TraceSpecifiedInterval" /\ intervals = <<>>

ShouldExit(t) ==
  \/ count[t] = HardExitCount
  \/ Mode = "TraceUniformInterval"
     /\ InstCount(count[t], countInTraceFunc[t]) = EndInst
  \/ Mode = "TraceSpecifiedInterval" /\ intervals = <<>>

-----------------------------------------------------------------------------
(* The trace entry and the trace file of a thread *)

(* A func_enter message already there is reused with its parameters. *)
OpenFuncEnter(e, n) ==
  [kind |-> "func", at |-> n, vals |-> IF e.kind = "func" THEN e.vals ELSE 0]

(* Mutant: the parameters of the previous instruction are not cleared. *)
OpenInst_KeepsParams(e, n) ==
  [kind |-> "inst", at |-> n, vals |-> IF e.kind = "inst" THEN e.vals ELSE 0]

OpenInst(e, n) == [kind |-> "inst", at |-> n, vals |-> 0]

(* A value without an entry creates an unnamed func_enter message. *)
AddValue(e) ==
  [kind |-> IF e.kind = "none" THEN "func" ELSE e.kind, at |-> e.at, vals |-> e.vals + 1]

(* Mutant: the number of the sample is not advanced. *)
Serialize_SameSample(t, kind, n) ==
  LET f == IF file[t] = 0 THEN samples[t] + 1 ELSE file[t] IN
  /\ file' = [file EXCEPT ![t] = f]
  /\ UNCHANGED samples
  /\ out' = [out EXCEPT ![t] =
       Append(@, [event |-> kind, n |-> n, file |-> f, entry |-> entry[t]])]

(* Write the entry for the event `kind' at instruction n, opening the next *)
(* file if none is open.                                                   *)
Serialize(t, kind, n) ==
  LET f == IF file[t] = 0 THEN samples[t] + 1 ELSE file[t] IN
  /\ file' = [file EXCEPT ![t] = f]
  /\ samples' = [samples EXCEPT ![t] = IF file[t] = 0 THEN f ELSE @]
  /\ out' = [out EXCEPT ![t] =
       Append(@, [event |-> kind, n |-> n, file |-> f, entry |-> entry[t]])]

-----------------------------------------------------------------------------
(* Function entry: printFuncEnter, printValue, printFuncEnterEnd *)

(* A function is entered first of all, after the call instruction of an     *)
(* instrumented caller, or whenever uninstrumented code likes.              *)
CanEnter(t) ==
  /\ exited = "no" /\ Len(real[t]) < MaxDepth
  /\ \/ pc[t] = "run" /\ real[t] = <<>> /\ count[t] = 0
     \/ pc[t] = "call"
     \/ pc[t] = "run" /\ real[t] # <<>> /\ Last(real[t]) \in External

PrintFuncEnter(t, f) ==
  /\ CanEnter(t) /\ f \in Instrumented
  /\ real' = [real EXCEPT ![t] = Append(@, f)]
  /\ IF ROI = "SpecifiedFunction"
     THEN /\ stack' = [stack EXCEPT ![t] = Append(@, f)]
          /\ tracedFunctionsInStack' =
               [tracedFunctionsInStack EXCEPT ![t] = IF f \in Traced THEN @ + 1 ELSE @]
     ELSE UNCHANGED frames
  /\ LET n == InstCount(count[t], countInTraceFunc[t]) IN
     entry' = [entry EXCEPT ![t] =
       IF ShouldLog(tracedFunctionsInStack'[t], n) THEN OpenFuncEnter(@, n) ELSE @]
  /\ left' = [left EXCEPT ![t] = NumValues]
  /\ Goto(t, "args")
  /\ UNCHANGED <<op, intervals, counters, output, exited>>

(* printValue for an argument, printInstValue for an operand or a result *)
PrintValue(t) ==
  /\ exited = "no" /\ pc[t] \in {"args", "values"} /\ left[t] > 0
  /\ left' = [left EXCEPT ![t] = @ - 1]
  /\ entry' = [entry EXCEPT ![t] = IF Logs(t) THEN AddValue(@) ELSE @]
  /\ UNCHANGED <<real, pc, op, intervals, counters, frames, output, exited>>

PrintFuncEnterEnd(t) ==
  /\ At(t, "args") /\ left[t] = 0
  /\ IF Logs(t)
     THEN Serialize(t, "func", InstCount(count[t], countInTraceFunc[t]))
     ELSE UNCHANGED output
  /\ Goto(t, "run")
  /\ UNCHANGED <<real, left, op, intervals, counters, frames, entry, exited>>

(* Uninstrumented code calls and returns without telling the tracer. *)
EnterExternal(t, f) ==
  /\ CanEnter(t) /\ real[t] # <<>> /\ f \in External
  /\ real' = [real EXCEPT ![t] = Append(@, f)]
  /\ Goto(t, "run")
  /\ UNCHANGED <<left, op, intervals, counters, frames, entry, output, exited>>

ReturnExternal(t) ==
  /\ At(t, "run") /\ real[t] # <<>> /\ Last(real[t]) \in External
  /\ real' = [real EXCEPT ![t] = Front(@)]
  /\ UNCHANGED <<pc, left, op, intervals, counters, frames, entry, output, exited>>

-----------------------------------------------------------------------------
(* Instructions: printInst, printInstValue, printInstEnd *)

(* Mutant: the inner frame is looked for from the top again. *)
Boundary_Unordered(names, unwound) ==
  CHOOSE b \in 0 .. Len(names) :
    /\ \A i \in 1 .. b : \E j \in DOMAIN unwound :
         names[i] = unwound[j] /\ unwound[j] \notin Nameless
    /\ b < Len(names) => \A j \in DOMAIN unwound : names[b + 1] # unwound[j]

(* The boundary of unwind(): how many of our frames, outermost first, are   *)
(* found in order in the unwound frames, those without a name left aside.   *)
Boundary(names, unwound) ==
  LET Matched[i \in 0 .. Len(unwound)] ==
        IF i = 0 THEN 0
        ELSE LET b == Matched[i - 1] IN
             IF /\ unwound[i] \notin Nameless
                /\ b < Len(names) /\ names[b + 1] = unwound[i]
             THEN b + 1 ELSE b
  IN  Matched[Len(unwound)]

(* The body of printInst for an instruction of function f, with the frames  *)
(* as a landingpad left them.                                               *)
BeginInst(t, f, o, frame) ==
  /\ count[t] < MaxCount
  /\ stack' = [stack EXCEPT ![t] = frame]
  /\ IF ROI = "SpecifiedFunction" /\ (frame = <<>> \/ Last(frame) # f)
     THEN /\ exited' = "mismatch"
          /\ UNCHANGED <<pc, left, op, counters, entry>>
     ELSE /\ op' = [op EXCEPT ![t] = o]
          /\ count' = [count EXCEPT ![t] = @ + 1]
          /\ countInTraceFunc' = [countInTraceFunc EXCEPT ![t] =
               IF ROI = "SpecifiedFunction" /\ tracedFunctionsInStack[t] > 0
               THEN @ + 1 ELSE @]
          /\ LET n == InstCount(count'[t], countInTraceFunc'[t]) IN
             entry' = [entry EXCEPT ![t] =
               IF ShouldLog(tracedFunctionsInStack[t], n) THEN OpenInst(@, n) ELSE @]
          /\ left' = [left EXCEPT ![t] = NumValues]
          /\ Goto(t, "values")
          /\ UNCHANGED exited
  /\ UNCHANGED <<intervals, tracedFunctionsInStack, output>>

PrintInst(t, o) ==
  /\ At(t, "run") /\ real[t] # <<>> /\ Last(real[t]) \in Instrumented
  /\ BeginInst(t, Last(real[t]), o, stack[t])
  /\ UNCHANGED real

(* What the runtime library throws is caught in frame k: its landingpad     *)
(* unwinds our stack.                                                       *)
PrintLandingpad(t, k) ==
  /\ At(t, "run") /\ real[t] # <<>> /\ Last(real[t]) \in External
  /\ k \in DOMAIN real[t] /\ real[t][k] \in Instrumented
  /\ real' = [real EXCEPT ![t] = SubSeq(@, 1, k)]
  /\ BeginInst(t, real[t][k], "landingpad",
               IF ROI = "SpecifiedFunction"
               THEN SubSeq(stack[t], 1, Boundary(stack[t], real'[t]))
               ELSE stack[t])

InstEndLog(t) ==
  /\ At(t, "values") /\ left[t] = 0
  /\ IF Logs(t)
     THEN /\ Serialize(t, "inst", InstCount(count[t], countInTraceFunc[t]))
          /\ Goto(t, "switch")
     ELSE /\ UNCHANGED output
          /\ Goto(t, "finish")
  /\ UNCHANGED <<real, left, op, intervals, counters, frames, entry, exited>>

(* shouldSwitchTraceFile: is this the last instruction of its window? *)
InstEndCheckSwitch(t) ==
  LET n == InstCount(count[t], countInTraceFunc[t]) IN
  /\ At(t, "switch")
  /\ Goto(t,
       IF \/ /\ Mode = "TraceUniformInterval"
             /\ (n - StartInst) % (MaxInst + SkipInst) = MaxInst - 1
          \/ /\ Mode = "TraceSpecifiedInterval"
             /\ intervals # <<>> /\ n = Head(intervals).rhs - 1
       THEN "pop" ELSE "finish")
  /\ UNCHANGED <<real, left, op, intervals, counters, frames, entry, output, exited>>

(* Mutant: the old file stays open. *)
InstEndSwitch_KeepsFile(t) ==
  /\ At(t, "pop")
  /\ intervals' = IF Mode = "TraceSpecifiedInterval" /\ intervals # <<>>
                  THEN Tail(intervals) ELSE intervals
  /\ Goto(t, "finish")
  /\ UNCHANGED <<real, left, op, counters, frames, entry, output, exited>>

(* The pop is unprotected: the list may have changed since the check, and   *)
(* popping an empty list is undefined; the outcome kept here is that it     *)
(* stays empty.                                                             *)
InstEndSwitch(t) ==
  /\ At(t, "pop")
  /\ intervals' = IF Mode = "TraceSpecifiedInterval" /\ intervals # <<>>
                  THEN Tail(intervals) ELSE intervals
  /\ file' = [file EXCEPT ![t] = 0]
  /\ Goto(t, "finish")
  /\ UNCHANGED <<real, left, op, counters, frames, entry, samples, out, exited>>

(* Mutant: a return from a traced function leaves the region for good.       *)
InstEndFinish_LeavesROI(t) ==
  /\ At(t, "finish")
  /\ real' = [real EXCEPT ![t] = IF op[t] = "ret" THEN Front(@) ELSE @]
  /\ IF ROI = "SpecifiedFunction" /\ op[t] = "ret"
     THEN /\ stack' = [stack EXCEPT ![t] = Front(@)]
          /\ tracedFunctionsInStack' = [tracedFunctionsInStack EXCEPT ![t] =
               IF Last(stack[t]) \in Traced THEN 0 ELSE @]
     ELSE UNCHANGED frames
  /\ op' = [op EXCEPT ![t] = "none"]
  /\ exited' = IF ShouldExit(t) THEN "done" ELSE exited
  /\ Goto(t, IF op[t] = "call" THEN "call" ELSE "run")
  /\ UNCHANGED <<left, intervals, counters, entry, output>>

InstEndFinish(t) ==
  /\ At(t, "finish")
  /\ real' = [real EXCEPT ![t] = IF op[t] = "ret" THEN Front(@) ELSE @]
  /\ IF ROI = "SpecifiedFunction" /\ op[t] = "ret"
     THEN /\ stack' = [stack EXCEPT ![t] = Front(@)]
          /\ tracedFunctionsInStack' = [tracedFunctionsInStack EXCEPT ![t] =
               IF Last(stack[t]) \in Traced THEN @ - 1 ELSE @]
     ELSE UNCHANGED frames
  /\ op' = [op EXCEPT ![t] = "none"]
  /\ exited' = IF ShouldExit(t) THEN "done" ELSE exited
  /\ Goto(t, IF op[t] = "call" THEN "call" ELSE "run")
  /\ UNCHANGED <<left, intervals, counters, entry, output>>

-----------------------------------------------------------------------------
Step(t) ==
  \/ \E f \in Instrumented : PrintFuncEnter(t, f)
  \/ PrintValue(t)
  \/ PrintFuncEnterEnd(t)
  \/ \E f \in External : EnterExternal(t, f)
  \/ ReturnExternal(t)
  \/ \E o \in {"op", "call", "ret"} : PrintInst(t, o)
  \/ \E k \in 1 .. MaxDepth : PrintLandingpad(t, k)
  \/ InstEndLog(t) \/ InstEndCheckSwitch(t) \/ InstEndSwitch(t) \/ InstEndFinish(t)

Next == (\E t \in setup.threads : Step(t)) /\ UNCHANGED setup

Spec == Init /\ [][Next]_vars

-----------------------------------------------------------------------------
(* The intervals taken off the list. *)
Popped == Len(Intervals) - Len(intervals)

Entry == [kind : {"none", "func", "inst"}, at : Nat, vals : Nat]

Record == [event : {"func", "inst"}, n : Nat, file : Nat, entry : Entry]

TypeOK ==
  /\ setup \in Setups
  /\ real \in [Thread -> Seq(Instrumented \cup External)]
  /\ pc \in [Thread -> {"run", "call", "args", "values", "switch", "pop", "finish"}]
  /\ left \in [Thread -> 0 .. NumValues]
  /\ op \in [Thread -> {"none", "op", "call", "ret", "landingpad"}]
  /\ Popped \in 0 .. Len(Intervals)
  /\ intervals = SubSeq(Intervals, Popped + 1, Len(Intervals))
  /\ count \in [Thread -> Nat] /\ countInTraceFunc \in [Thread -> Nat]
  /\ stack \in [Thread -> Seq(Instrumented)]
  /\ tracedFunctionsInStack \in [Thread -> Nat]
  /\ entry \in [Thread -> Entry]
  /\ file \in [Thread -> Nat] /\ samples \in [Thread -> Nat]
  /\ \A t \in Thread : file[t] \in {0, samples[t]}
  /\ out \in [Thread -> Seq(Record)]
  /\ exited \in {"no", "done", "mismatch"}

(* The window of the trace that instruction n belongs to, 0 for none: the   *)
(* uniform windows as documented at Tracer.cpp:106-112, or the intervals.   *)
InWindow(i, n) ==
  LET first == StartInst + i * (MaxInst + SkipInst) IN first <= n /\ n < first + MaxInst
InInterval(i, n) == Intervals[i].lhs <= n /\ n < Intervals[i].rhs
WindowOf(n) ==
  CASE Mode = "TraceAll" -> 1
    [] Mode = "TraceUniformInterval" /\ \E i \in 0 .. n : InWindow(i, n) ->
         1 + (CHOOSE i \in 0 .. n : InWindow(i, n))
    [] Mode = "TraceSpecifiedInterval" /\ \E i \in DOMAIN Intervals : InInterval(i, n) ->
         CHOOSE i \in DOMAIN Intervals : InInterval(i, n)
    [] OTHER -> 0

Executed(t) == InstCount(count[t], countInTraceFunc[t])

(* The entries of instructions: where they are in the output. *)
Insts(t) == {i \in DOMAIN out[t] : out[t][i].event = "inst"}

(* "Should not contain func enter for inst", "Should not contain inst for   *)
(* func enter" (TracerProtobuf.cpp:160, 170), and more: an entry is written *)
(* by the event that opened it, with all its values and no other's.  The    *)
(* window may close between two calls of one event, but it never opens.     *)
SerializedWhole ==
  \A t \in Thread : \A i \in DOMAIN out[t] :
    LET r == out[t][i] IN r.entry = [kind |-> r.event, at |-> r.n, vals |-> NumValues]

(* Only instructions of a window are traced, each once, in program order.   *)
OnlyWindowsTraced ==
  \A t \in Thread :
    /\ \A i \in Insts(t) : WindowOf(out[t][i].n) # 0
    /\ \A i, j \in Insts(t) : i < j => out[t][i].n < out[t][j].n

(* No other thread has executed an instruction. *)
Alone(t) == \A u \in Thread \ {t} : count[u] = 0

MissesNone(t) ==
  pc[t] \in {"run", "call"} =>
    \A n \in 1 .. Executed(t) : WindowOf(n) # 0 =>
      \E i \in Insts(t) : out[t][i].n = n

Sampled(t) == IF Mode = "TraceUniformInterval" THEN Insts(t) ELSE DOMAIN out[t]

FilesAreSamples(t) ==
  \A i, j \in Sampled(t) :
    out[t][i].file = out[t][j].file <=> WindowOf(out[t][i].n) = WindowOf(out[t][j].n)

(* "ROI Instructions in user-specified intervals are traced", "in uniformly *)
(* spaced intervals" (Tracer.cpp:83-85): no instruction of a window that    *)
(* has been executed is missing, as long as no other thread has executed    *)
(* anything.  (Two threads share the list of intervals, and the first to    *)
(* finish one takes it from the other.)                                     *)
AloneWindowsTraced == \A t \in Thread : Alone(t) => MissesNone(t)

(* "We create a new trace file for different sample" (TracerImpl.h:40): as   *)
(* long as no other thread has executed anything, two entries share a file *)
(* exactly if they belong to the same window.  Of uniform windows this is   *)
(* said of the instructions only: a call that ends one closes the file, but *)
(* the entry of the callee is still in the window and opens the next file.  *)
AloneOneSamplePerFile == \A t \in Thread : Alone(t) => FilesAreSamples(t)

(* The trace files are whole: every entry is complete when it is written,   *)
(* and goes to the file of its sample.                                      *)
FilesWhole == SerializedWhole /\ AloneOneSamplePerFile

(* The process exits with the instruction that ends the last interval or    *)
(* that is END_INST, and not before END_INST (Tracer.cpp:535-560).          *)
StopsOnTime ==
  /\ \A t \in Thread : pc[t] \in {"run", "call"} /\ exited = "no" /\ count[t] > 0 =>
       /\ count[t] # HardExitCount
       /\ Mode = "TraceUniformInterval" => Executed(t) # EndInst
       /\ Mode = "TraceSpecifiedInterval" => Executed(t) < Last(Intervals).rhs - 1
  /\ Mode = "TraceUniformInterval" /\ exited = "done" =>
       \E t \in Thread : count[t] = HardExitCount \/ Executed(t) = EndInst

(* A thread that runs alone traces the instructions of the windows and no   *)
(* others, each once and in order; others never add one of theirs to it;    *)
(* and the process ends with the last window, or where it is told to.       *)
WindowsExact == OnlyWindowsTraced /\ AloneWindowsTraced /\ StopsOnTime

(* How many of the first i frames are of functions in S. *)
Frames(S, called, i) == Cardinality({j \in 1 .. i : called[j] \in S})

(* st is the part of r that is in S. *)
IsPart(S, st, r) ==
  /\ Len(st) = Frames(S, r, Len(r))
  /\ \A i \in DOMAIN r : r[i] \in S => st[Frames(S, r, i)] = r[i]

(* Our stack is the instrumented part of the program's, through calls from  *)
(* uninstrumented code, recursion and exceptions (Tracer.cpp:589-645).      *)
StackExact ==
  ROI = "SpecifiedFunction" =>
    /\ exited # "mismatch"
    /\ \A t \in Thread : IsPart(Instrumented, stack[t], real[t])

(* Nothing a traced function or its callees do is missed, not even after an *)
(* exception: while one is on its stack a thread is in the region of        *)
(* interest (Tracer.cpp:68, 569-587, 643-644).                              *)
NoCalleeMissed ==
  \A t \in Thread :
    /\ ROI = "SpecifiedFunction" /\ pc[t] \in {"run", "call"}
    /\ \E i \in DOMAIN real[t] : real[t][i] \in Traced
    => tracedFunctionsInStack[t] > 0

(* The region of interest is not lost through calls from uninstrumented     *)
(* code, recursion and exceptions.                                          *)
ROITracked == StackExact /\ NoCalleeMissed

(* "Only specified functions and their callee are considered by the tracer" *)
(* (Tracer.cpp:68): a thread is in the region of interest exactly while a   *)
(* traced function is on its stack.                                         *)
InROIExact ==
  \A t \in Thread : pc[t] \in {"run", "call"} =>
    (tracedFunctionsInStack[t] > 0
       <=> ROI = "SpecifiedFunction" /\ \E i \in DOMAIN real[t] : real[t][i] \in Traced)

-----------------------------------------------------------------------------
(* The inductive invariant behind these properties. *)

(* The current instruction of t has been counted but not logged yet. *)
Pending(t) == pc[t] = "values" /\ InROI(tracedFunctionsInStack[t])

ControlInv(t) ==
  /\ pc[t] \in {"args", "values", "switch", "pop", "finish"} =>
       real[t] # <<>> /\ Last(real[t]) \in Instrumented
  /\ pc[t] \in {"values", "switch", "pop", "finish", "call"} => count[t] > 0

(* Exceptions may leave too many traced functions counted, never too few. *)
FramesInv ==
  /\ exited # "mismatch"
  /\ StackExact
  /\ ROI = "SpecifiedFunction" => \A t \in Thread :
       tracedFunctionsInStack[t] >= Frames(Traced, real[t], Len(real[t]))

(* No thread is past the interval at the front: whoever is at its last     *)
(* instruction takes it off the list before the next.                      *)
FrontInv(t) ==
  Mode = "TraceSpecifiedInterval" /\ intervals # <<>> =>
    /\ Executed(t) < Head(intervals).rhs
    /\ \/ Executed(t) < Head(intervals).rhs - 1
       \/ pc[t] \in {"switch", "pop"} \/ Pending(t)

(* An entry that is going to be written belongs to the current event; a     *)
(* func_enter that was not used is out of reach of the next one.            *)
EntryInv(t) ==
  /\ pc[t] \in {"args", "values"} /\ Logs(t) =>
       entry[t] = [kind |-> IF pc[t] = "args" THEN "func" ELSE "inst",
                   at |-> Executed(t), vals |-> NumValues - left[t]]
  /\ entry[t].kind = "func" =>
       \/ ~Open(Executed(t))
       \/ /\ pc[t] \in {"args", "run"} /\ InROI(tracedFunctionsInStack[t])
          /\ real[t] # <<>> /\ Last(real[t]) \in Instrumented

(* The last instruction that is behind t. *)
Done(t) == IF Pending(t) THEN Executed(t) - 1 ELSE Executed(t)

(* The entries written so far are in program order. *)
OutInv(t) ==
  /\ \A i \in DOMAIN out[t] :
       LET r == out[t][i] IN
       /\ r.event \in {"func", "inst"}
       /\ r.entry = [kind |-> r.event, at |-> r.n, vals |-> NumValues]
       /\ r.n \in 0 .. Done(t) /\ WindowOf(r.n) # 0
       /\ r.file \in 1 .. samples[t]
  /\ \A i, j \in DOMAIN out[t] : i < j =>
       /\ out[t][i].n <= out[t][j].n
       /\ out[t][i].event = "inst" /\ out[t][j].event = "inst" => out[t][i].n < out[t][j].n

ExitInv(t) ==
  /\ pc[t] \in {"run", "call", "args"} /\ exited = "no" /\ count[t] > 0 =>
       /\ count[t] # HardExitCount
       /\ Mode = "TraceUniformInterval" => Executed(t) # EndInst
       /\ Mode = "TraceSpecifiedInterval" =>
            Intervals # <<>> /\ Executed(t) < Last(Intervals).rhs - 1

LastOfWindow(n) ==
  \/ Mode = "TraceUniformInterval" /\ (n - StartInst) % (MaxInst + SkipInst) = MaxInst - 1
  \/ Mode = "TraceSpecifiedInterval" /\ \E i \in DOMAIN Intervals : n = Intervals[i].rhs - 1

(* Of a thread that runs alone: it took off only intervals that are over, *)
(* one after the instruction that is the last of its window,               *)
PoppedInv(t) ==
  \A i \in 1 .. Popped :
    Intervals[i].rhs <= (IF pc[t] \in {"switch", "pop"} THEN Executed(t) ELSE Done(t) + 1)

SwitchInv(t) ==
  /\ pc[t] \in {"switch", "pop"} => Logs(t)
  /\ pc[t] = "pop" => LastOfWindow(Executed(t))

(* its windows are complete so far,                                        *)
CompleteInv(t) ==
  \A n \in 1 .. Done(t) : WindowOf(n) # 0 => \E i \in Insts(t) : out[t][i].n = n

(* and its file is that of its last entry until the window is over.        *)
FileInv(t) ==
  \A m \in Sampled(t) : (\A i \in Sampled(t) : i <= m) =>
    /\ pc[t] \in {"switch", "pop"} => file[t] = out[t][m].file
    /\ IF file[t] = out[t][m].file
       THEN /\ out[t][m].n = Done(t)
            /\ pc[t] \in {"switch", "pop"} \/ ~LastOfWindow(out[t][m].n)
       ELSE /\ LastOfWindow(out[t][m].n)
            /\ \A i \in Sampled(t) : out[t][i].file # file[t]

AloneInv(t) ==
  PoppedInv(t) /\ SwitchInv(t) /\ CompleteInv(t) /\ FilesAreSamples(t) /\ FileInv(t)

(* Every interval holds an instruction; they are numbered from 1. *)
IntervalsNotEmpty == \A s \in Setups : \A i \in DOMAIN s.intervals : s.intervals[i].rhs > 1

BaseInv == TypeOK /\ FramesInv /\ \A t \in Thread : ControlInv(t)

IInv ==
  /\ BaseInv
  /\ \A t \in Thread : FrontInv(t) /\ EntryInv(t) /\ OutInv(t) /\ ExitInv(t)
  /\ \A t \in Thread : Alone(t) => AloneInv(t)
  /\ Mode = "TraceUniformInterval" /\ exited = "done" =>
       \E t \in Thread : count[t] = HardExitCount \/ Executed(t) = EndInst

=============================================================================
