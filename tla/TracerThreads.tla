--------------------------- MODULE TracerThreads ---------------------------
(***************************************************************************)
(* The thread side of the tracer runtime (src/src/trace/Tracer.cpp): how a *)
(* thread of the traced program finds or claims its slot of threadStates,  *)
(* how the insideMyself flag keeps the runtime from tracing itself, and    *)
(* how the first calls initialize the runtime and the slot.                *)
(*                                                                         *)
(* One action per shared-memory access.  The scan of the slots is lock     *)
(* free: `initialized' and `tid' are read without the allocation lock, and *)
(* the stores of the claiming thread may become visible in either order.   *)
(***************************************************************************)
EXTENDS Integers, Sequences

CONSTANTS Thread, N, NoThread,
          Main,        \* the thread that runs main()
          Early        \* threads that static constructors started before main()

ASSUME ThreadsAssumption ==
  /\ N \in Nat \ {0}
  /\ NoThread \notin Thread
  /\ Main \in Thread
  /\ Early \subseteq Thread \ {Main}

Slot == 0 .. N - 1

VARIABLES
  alive,               \* running threads
  entered,             \* threads inside an instrumented function
  hasSeenMain,
  tracerInitialized,   \* the static flag of initialize()
  loads,               \* times initialize() has read the configuration
  initialized, tid,    \* of each slot, read without the lock
  insideMyself,        \* of each slot
  secondInitialized,   \* of each slot
  lock,                \* threadStatesAllocationLock: its holder or NoThread
  pc, call, scan,      \* of each thread: where it is, in which call, slot looked at
  tts,                 \* of each thread: the slot its handler works on
  ret,                 \* of each thread: the frames its call interrupted, last first
  exited               \* exit() was called

slots   == <<initialized, tid>>
config  == <<tracerInitialized, loads>>
program == <<alive, entered, hasSeenMain>>
vars == <<program, config, slots, insideMyself, secondInitialized, lock,
          pc, call, scan, tts, ret, exited>>

Calls  == {"main", "funcEnter", "inst", "dataBuffer"}
ScanPC == {"scan", "compare", "wait", "locked", "claim"}
BodyPC == {"checkInit", "load", "setInit", "second", "work"}
Labels == {"idle", "got"} \cup ScanPC \cup BodyPC

(* Runtime code interrupted by a call of the library code it runs. *)
Frame == [pc : BodyPC \cup {"claim"}, call : Calls, scan : Slot]

Interrupted(t) == {ret[t][k].pc : k \in DOMAIN ret[t]}

(* t is inside handlers that library calls of theirs have interrupted. *)
Reentering(t) == Interrupted(t) \cap BodyPC # {}

(* A handler is running for t, possibly with a recursive call in progress. *)
InBody(t) == pc[t] \in BodyPC \/ Reentering(t)

Init ==
  /\ alive = {Main} \cup Early
  /\ entered = {Main} \cup Early
  /\ hasSeenMain = FALSE
  /\ tracerInitialized = FALSE
  /\ loads = 0
  /\ initialized = [i \in Slot |-> FALSE]
  /\ tid = [i \in Slot |-> NoThread]
  /\ insideMyself = [i \in Slot |-> FALSE]
  /\ secondInitialized = [i \in Slot |-> FALSE]
  /\ lock = NoThread
  /\ pc = [t \in Thread |-> "idle"]
  /\ call = [t \in Thread |-> "inst"]
  /\ scan = [t \in Thread |-> 0]
  /\ tts = [t \in Thread |-> 0]
  /\ ret = [t \in Thread |-> <<>>]
  /\ exited = FALSE

Goto(t, label) == pc' = [pc EXCEPT ![t] = label]

At(t, label) == ~exited /\ pc[t] = label

-----------------------------------------------------------------------------
(* The traced program: threads come and go between calls. *)

Spawn(t, u) ==
  /\ At(t, "idle") /\ t \in alive \cap entered /\ hasSeenMain
  /\ u \notin alive
  /\ alive' = alive \cup {u}
  /\ UNCHANGED <<entered, hasSeenMain, config, slots, insideMyself,
                 secondInitialized, lock, pc, call, scan, tts, ret, exited>>

(* The slot outlives its thread, and a later thread may get the same id. *)
Die(t) ==
  /\ At(t, "idle") /\ t \in alive \ {Main}
  /\ alive' = alive \ {t}
  /\ entered' = entered \ {t}
  /\ UNCHANGED <<hasSeenMain, config, slots, insideMyself, secondInitialized,
                 lock, pc, call, scan, tts, ret, exited>>

(* Instrumented code calls the runtime.  Calls other than dataBuffer are    *)
(* dropped until main() is entered; a thread started after that begins with *)
(* the printFuncEnter of its start routine.                                 *)
Call(t, c) ==
  /\ At(t, "idle") /\ t \in alive
  /\ c = "main" => t = Main /\ ~hasSeenMain
  /\ c \in {"inst", "dataBuffer"} => t \in entered
  /\ hasSeenMain' = (hasSeenMain \/ c = "main")
  /\ hasSeenMain' \/ c = "dataBuffer"
  /\ call' = [call EXCEPT ![t] = c]
  /\ scan' = [scan EXCEPT ![t] = 0]
  /\ Goto(t, "scan")
  /\ UNCHANGED <<alive, entered, config, slots, insideMyself,
                 secondInitialized, lock, tts, ret, exited>>

(* The runtime runs library code, which may be instrumented and then calls   *)
(* the runtime: in a handler, and in the claim of a slot, where getUint64Env *)
(* makes a std::string while the slot is stored and insideMyself is clear.   *)
(* That code starts with a printFuncEnter of its own, which only a claim     *)
(* begun before main() drops.                                                *)
Recurse(t, c) ==
  /\ ~exited /\ c # "main"
  /\ hasSeenMain \/ c = "dataBuffer"
  /\ \/ pc[t] \in BodyPC
     \/ /\ pc[t] = "claim" /\ tid[scan[t]] = t /\ initialized[scan[t]]
        /\ c = "inst" => \/ secondInitialized[scan[t]]
                         \/ t \in Early /\ call[t] = "dataBuffer"
  /\ ret' = [ret EXCEPT ![t] =
               <<[pc |-> pc[t], call |-> call[t], scan |-> scan[t]]>> \o @]
  /\ call' = [call EXCEPT ![t] = c]
  /\ scan' = [scan EXCEPT ![t] = 0]
  /\ Goto(t, "scan")
  /\ UNCHANGED <<program, config, slots, insideMyself, secondInitialized,
                 lock, tts, exited>>

-----------------------------------------------------------------------------
(* getOrInitializeThreadState() *)

(* Move on to the next slot; after the last one the process exits. *)
NextSlot(t) ==
  \/ /\ scan[t] + 1 \in Slot
     /\ scan' = [scan EXCEPT ![t] = scan[t] + 1]
     /\ Goto(t, "scan")
     /\ UNCHANGED exited
  \/ /\ scan[t] + 1 \notin Slot
     /\ exited' = TRUE
     /\ UNCHANGED <<scan, pc>>

ReadInitialized(t) ==
  /\ At(t, "scan")
  /\ Goto(t, IF initialized[scan[t]] THEN "compare" ELSE "wait")
  /\ UNCHANGED <<program, config, slots, insideMyself, secondInitialized,
                 lock, call, scan, tts, ret, exited>>

CompareTid(t) ==
  /\ At(t, "compare")
  /\ \/ /\ tid[scan[t]] = t
        /\ Goto(t, "got")
        /\ UNCHANGED <<scan, exited>>
     \/ /\ tid[scan[t]] # t
        /\ NextSlot(t)
  /\ UNCHANGED <<program, config, slots, insideMyself, secondInitialized,
                 lock, call, tts, ret>>

AcquireLock(t) ==
  /\ At(t, "wait")
  /\ lock = NoThread
  /\ lock' = t
  /\ Goto(t, "locked")
  /\ UNCHANGED <<program, config, slots, insideMyself, secondInitialized,
                 call, scan, tts, ret, exited>>

(* Mutant: the slot is claimed without a second look under the lock. *)
Recheck_Dropped(t) ==
  /\ At(t, "locked")
  /\ Goto(t, "claim")
  /\ UNCHANGED <<program, config, slots, insideMyself, secondInitialized,
                 lock, call, scan, tts, ret, exited>>

(* Mutant: the lock is kept when the slot turns out to be taken. *)
Recheck_KeepsLock(t) ==
  /\ At(t, "locked")
  /\ \/ ~initialized[scan[t]] /\ Goto(t, "claim") /\ UNCHANGED <<scan, exited>>
     \/ initialized[scan[t]] /\ NextSlot(t)
  /\ UNCHANGED <<program, config, slots, insideMyself, secondInitialized,
                 lock, call, tts, ret>>

RecheckInitialized(t) ==
  /\ At(t, "locked")
  /\ \/ /\ ~initialized[scan[t]]
        /\ Goto(t, "claim")
        /\ UNCHANGED <<scan, lock, exited>>
     \/ /\ initialized[scan[t]]
        /\ lock' = NoThread
        /\ NextSlot(t)
  /\ UNCHANGED <<program, config, slots, insideMyself, secondInitialized,
                 call, tts, ret>>

StoreTid(t) ==
  /\ At(t, "claim") /\ tid[scan[t]] # t
  /\ tid' = [tid EXCEPT ![scan[t]] = t]
  /\ UNCHANGED <<program, config, initialized, insideMyself,
                 secondInitialized, lock, pc, call, scan, tts, ret, exited>>

StoreInitialized(t) ==
  /\ At(t, "claim") /\ ~initialized[scan[t]]
  /\ initialized' = [initialized EXCEPT ![scan[t]] = TRUE]
  /\ UNCHANGED <<program, config, tid, insideMyself, secondInitialized, lock,
                 pc, call, scan, tts, ret, exited>>

ReleaseLock(t) ==
  /\ At(t, "claim") /\ tid[scan[t]] = t /\ initialized[scan[t]]
  /\ lock' = NoThread
  /\ Goto(t, "got")
  /\ UNCHANGED <<program, config, slots, insideMyself, secondInitialized,
                 call, scan, tts, ret, exited>>

-----------------------------------------------------------------------------
(* The handlers, between TracerLibEnter and TracerLibExit *)

Return(t) ==
  \/ /\ ret[t] = <<>>
     /\ Goto(t, "idle")
     /\ UNCHANGED <<call, scan, ret>>
  \/ /\ ret[t] # <<>>
     /\ LET f == Head(ret[t])
        IN  /\ Goto(t, f.pc)
            /\ call' = [call EXCEPT ![t] = f.call]
            /\ scan' = [scan EXCEPT ![t] = f.scan]
     /\ ret' = [ret EXCEPT ![t] = Tail(@)]

DataBufferReturn(t) ==
  /\ At(t, "got") /\ call[t] = "dataBuffer"
  /\ Return(t)
  /\ UNCHANGED <<program, config, slots, insideMyself, secondInitialized,
                 lock, tts, exited>>

(* insideMyself is set: the call comes from the runtime itself, drop it. *)
TracerLibSkip(t) ==
  /\ At(t, "got") /\ call[t] # "dataBuffer"
  /\ insideMyself[scan[t]]
  /\ Return(t)
  /\ UNCHANGED <<program, config, slots, insideMyself, secondInitialized,
                 lock, tts, exited>>

(* Mutant: the recursion guard is not looked at. *)
TracerLibEnter_NoGuard(t) ==
  /\ At(t, "got") /\ call[t] # "dataBuffer"
  /\ insideMyself' = [insideMyself EXCEPT ![scan[t]] = TRUE]
  /\ tts' = [tts EXCEPT ![t] = scan[t]]
  /\ Goto(t, IF call[t] = "inst" THEN "work" ELSE "checkInit")
  /\ UNCHANGED <<program, config, slots, secondInitialized, lock, call, scan,
                 ret, exited>>

(* Mutant: printFuncEnter does not call initialize(). *)
TracerLibEnter_NoInit(t) ==
  /\ At(t, "got") /\ call[t] # "dataBuffer"
  /\ ~insideMyself[scan[t]]
  /\ insideMyself' = [insideMyself EXCEPT ![scan[t]] = TRUE]
  /\ tts' = [tts EXCEPT ![t] = scan[t]]
  /\ Goto(t, IF call[t] = "inst" THEN "work" ELSE "second")
  /\ UNCHANGED <<program, config, slots, secondInitialized, lock, call, scan,
                 ret, exited>>

TracerLibEnter(t) ==
  /\ At(t, "got") /\ call[t] # "dataBuffer"
  /\ ~insideMyself[scan[t]]
  /\ insideMyself' = [insideMyself EXCEPT ![scan[t]] = TRUE]
  /\ tts' = [tts EXCEPT ![t] = scan[t]]
  /\ Goto(t, IF call[t] = "inst" THEN "work" ELSE "checkInit")
  /\ UNCHANGED <<program, config, slots, secondInitialized, lock, call, scan,
                 ret, exited>>

CheckInitialize(t) ==
  /\ At(t, "checkInit")
  /\ Goto(t, IF tracerInitialized THEN "second" ELSE "load")
  /\ UNCHANGED <<program, config, slots, insideMyself, secondInitialized,
                 lock, call, scan, tts, ret, exited>>

LoadConfig(t) ==
  /\ At(t, "load")
  /\ loads' = loads + 1
  /\ Goto(t, "setInit")
  /\ UNCHANGED <<program, tracerInitialized, slots, insideMyself,
                 secondInitialized, lock, call, scan, tts, ret, exited>>

(* Mutant: initialize() does not set its flag. *)
SetInitialized_Forgotten(t) ==
  /\ At(t, "setInit")
  /\ Goto(t, "second")
  /\ UNCHANGED <<program, config, slots, insideMyself, secondInitialized,
                 lock, call, scan, tts, ret, exited>>

SetInitialized(t) ==
  /\ At(t, "setInit")
  /\ tracerInitialized' = TRUE
  /\ Goto(t, "second")
  /\ UNCHANGED <<program, loads, slots, insideMyself, secondInitialized,
                 lock, call, scan, tts, ret, exited>>

SecondInitialize(t) ==
  /\ At(t, "second")
  /\ secondInitialized' = [secondInitialized EXCEPT ![tts[t]] = TRUE]
  /\ entered' = entered \cup {t}
  /\ Goto(t, "work")
  /\ UNCHANGED <<alive, hasSeenMain, config, slots, insideMyself, lock, call,
                 scan, tts, ret, exited>>

(* Mutant: the handler returns with insideMyself still set. *)
TracerLibExit_Stuck(t) ==
  /\ At(t, "work")
  /\ Return(t)
  /\ UNCHANGED <<program, config, slots, insideMyself, secondInitialized,
                 lock, tts, exited>>

(* The rest of the handler works on the slot alone (module TraceWindow). *)
TracerLibExit(t) ==
  /\ At(t, "work")
  /\ insideMyself' = [insideMyself EXCEPT ![tts[t]] = FALSE]
  /\ Return(t)
  /\ UNCHANGED <<program, config, slots, secondInitialized, lock, tts, exited>>

-----------------------------------------------------------------------------
Lookup(t) ==
  \/ ReadInitialized(t) \/ CompareTid(t) \/ AcquireLock(t)
  \/ RecheckInitialized(t) \/ StoreTid(t) \/ StoreInitialized(t)
  \/ ReleaseLock(t)

Body(t) ==
  \/ CheckInitialize(t) \/ LoadConfig(t) \/ SetInitialized(t)
  \/ SecondInitialize(t) \/ TracerLibExit(t)

Handle(t) ==
  \/ DataBufferReturn(t) \/ TracerLibSkip(t) \/ TracerLibEnter(t)
  \/ Body(t)

Next ==
  \E t \in Thread :
    \/ \E u \in Thread : Spawn(t, u)
    \/ Die(t)
    \/ \E c \in Calls : Call(t, c) \/ Recurse(t, c)
    \/ Lookup(t)
    \/ Handle(t)

Spec == Init /\ [][Next]_vars

(* The scheduler runs every thread, and a handler or a claim makes finitely *)
(* many library calls of its own: it gets past them in the end.             *)
Fairness ==
  \A t \in Thread :
    /\ WF_vars(Lookup(t)) /\ WF_vars(Handle(t))
    /\ SF_vars(Body(t)) /\ SF_vars(ReleaseLock(t))

FairSpec == Spec /\ Fairness

-----------------------------------------------------------------------------
TypeOK ==
  /\ alive \subseteq Thread /\ entered \subseteq Thread
  /\ hasSeenMain \in BOOLEAN /\ tracerInitialized \in BOOLEAN
  /\ loads \in Nat
  /\ initialized \in [Slot -> BOOLEAN]
  /\ tid \in [Slot -> Thread \cup {NoThread}]
  /\ insideMyself \in [Slot -> BOOLEAN]
  /\ secondInitialized \in [Slot -> BOOLEAN]
  /\ lock \in Thread \cup {NoThread}
  /\ pc \in [Thread -> Labels]
  /\ call \in [Thread -> Calls]
  /\ scan \in [Thread -> Slot]
  /\ tts \in [Thread -> Slot]
  /\ ret \in [Thread -> Seq(Frame)]
  /\ exited \in BOOLEAN

(* "Accessing this array does not require a lock" (TracerProtobuf.cpp:18):  *)
(* no two threads are ever inside a handler on the same slot, and each      *)
(* works on the slot that carries its own id.                               *)
BodiesDisjoint ==
  \A t \in Thread : InBody(t) =>
    /\ tid[tts[t]] = t
    /\ \A u \in Thread \ {t} : InBody(u) => tts[u] # tts[t]

(* Handlers do not nest (Tracer.cpp:647-656): a call of library code that a *)
(* handler runs never gets past TracerLibEnter, also when the handler was   *)
(* itself called from within a claim, whose library calls do get past it.   *)
NoReentry ==
  \A t \in Thread : pc[t] \in BodyPC => ~Reentering(t)

(* The contract of getOrInitializeThreadState (Tracer.cpp:336-337): "Must    *)
(* contain no code that may trigger recursive call chain, e.g. std::string", *)
(* so that no handler runs while its thread is still claiming its slot.      *)
ClaimUntraced ==
  \A t \in Thread : pc[t] \in BodyPC => "claim" \notin Interrupted(t)

(* A call of the traced program itself, or of a claim, is never dropped for *)
(* recursion: insideMyself of a slot found set tells of a handler that its  *)
(* thread is in.                                                            *)
NoLostCall ==
  \A t \in Thread : pc[t] = "got" /\ insideMyself[scan[t]] => Reentering(t)

(* "UIDMap is not empty when try to parse from some file"                   *)
(* (InstructionUIDMapReader.cpp:6-7): initialize() parses the map once.     *)
ParsesEmptyMap == \A t \in Thread : pc[t] = "load" => loads = 0

(* "Unrecognized UID" (InstructionUIDMapReader.cpp:17): a handler that looks *)
(* up an instruction finds the map of initialize() in place.                *)
DescriptorsReady == \A t \in Thread : pc[t] = "work" => loads > 0

(* The start-up is done once, and before any handler needs what it loads,   *)
(* however the first calls of the threads overlap.                          *)
StartUpOrdered == ParsesEmptyMap /\ DescriptorsReady

(* The slots implement ThreadSlots: claimed in order, one per thread, kept. *)
Slots == INSTANCE ThreadSlots WITH owner <- tid
RefinesSlots == Slots!Spec

(* Every call into the runtime returns, unless the process exits: the       *)
(* allocation lock is never held for ever and the scan ends.                *)
CallsReturn ==
  \A t \in Thread : pc[t] # "idle" ~> (pc[t] = "idle" \/ exited)

-----------------------------------------------------------------------------
(* The inductive invariant behind the slot properties. *)

Untouched(i) == tid[i] = NoThread /\ ~initialized[i]

(* Only the holder of the lock is between the recheck and the release. *)
LockInv == \A t \in Thread : pc[t] = "locked" => lock = t \/ exited

(* What holds while t claims slot i: every lower slot is taken, no higher *)
(* one is touched, and nobody else is claiming.                           *)
Claiming(t, i) ==
  /\ lock = t
  /\ tid[i] \in {t, NoThread}
  /\ \A j \in Slot : j < i => tid[j] # NoThread
  /\ \A j \in Slot : j > i => Untouched(j)

(* The two words of a slot agree, except in the one being claimed. *)
SettledInv ==
  \A i \in Slot :
    \/ initialized[i] <=> tid[i] # NoThread
    \/ \E t \in Thread : pc[t] = "claim" /\ scan[t] = i

OrderInv ==
  \A i \in Slot : ~Untouched(i) =>
    \A j \in Slot : j < i => initialized[j] /\ tid[j] # NoThread

UniqueInv ==
  \A i, j \in Slot : tid[i] = tid[j] /\ tid[i] # NoThread => i = j

(* What a thread knows of the slots it has passed and of the one it is at. *)
ScanInv ==
  \A t \in Thread :
    /\ pc[t] \in ScanPC =>
         \A j \in Slot : j < scan[t] => initialized[j] /\ tid[j] # t
    /\ pc[t] = "compare" => initialized[scan[t]]
    /\ pc[t] \in {"wait", "locked"} => tid[scan[t]] # t
    /\ pc[t] = "claim" => Claiming(t, scan[t])
    /\ pc[t] = "got" => tid[scan[t]] = t /\ initialized[scan[t]]

SlotInv == LockInv /\ SettledInv /\ OrderInv /\ UniqueInv /\ ScanInv

(* A frame is a handler, or a claim with both its stores done. *)
FrameInv(t, f) ==
  f.pc = "claim" =>
    Claiming(t, f.scan) /\ tid[f.scan] = t /\ initialized[f.scan]

(* Recursion is at most two deep, a claim and a handler called from it: a    *)
(* recursive call finds the slot of its thread, so it neither waits for the  *)
(* lock, which its thread may hold, nor runs out of slots.                   *)
StackOf(t) ==
  \/ ret[t] = <<>>
  \/ /\ pc[t] \in {"scan", "compare", "got"} \cup BodyPC
     /\ \E i \in Slot : tid[i] = t /\ initialized[i]
     /\ \E f \in Frame :
          /\ FrameInv(t, f)
          /\ \/ ret[t] = <<f>> /\ (f.pc = "claim" \/ pc[t] \notin BodyPC)
             \/ /\ f.pc = "claim" /\ pc[t] \notin BodyPC
                /\ \E g \in Frame : ret[t] = <<g, f>> /\ g.pc # "claim"

StackInv == \A t \in Thread : StackOf(t)

(* insideMyself of a slot is set exactly while its thread is in a handler. *)
BodyInv ==
  /\ \A t \in Thread : InBody(t) =>
       tid[tts[t]] = t /\ initialized[tts[t]] /\ insideMyself[tts[t]]
  /\ \A i \in Slot : insideMyself[i] =>
       \E t \in Thread : tid[i] = t /\ InBody(t) /\ tts[t] = i

(* Where t is in the runtime, and the call of the traced program it is in. *)
Places(t) == {pc[t]} \cup Interrupted(t)
Outermost(t) == IF ret[t] = <<>> THEN call[t] ELSE ret[t][Len(ret[t])].call
InterruptedCalls(t) == {ret[t][k].call : k \in DOMAIN ret[t]}

(* Until initialize() is done the main thread is alone, and its first        *)
(* traced call, the one for main(), is still under way; it is that call or a *)
(* function entered from its claim that runs initialize().                   *)
StartedByMain ==
  /\ \A t \in Thread \ alive : pc[t] = "idle"
  /\ tracerInitialized =>
       /\ loads > 0
       /\ \A t \in Thread : Places(t) \cap {"load", "setInit"} = {}
  /\ ~tracerInitialized =>
       /\ alive = {Main}
       /\ \A i \in Slot : ~secondInitialized[i]
       /\ Places(Main) \cap {"second", "work"} = {}
       /\ loads = IF "setInit" \in Places(Main) THEN 1 ELSE 0
       /\ hasSeenMain =>
            /\ pc[Main] # "idle" /\ Outermost(Main) = "main"
            /\ call[Main] = "inst" => Reentering(Main)
            /\ "inst" \notin InterruptedCalls(Main)
       /\ ~hasSeenMain =>
            /\ ~InBody(Main)
            /\ pc[Main] # "idle" => /\ call[Main] = "dataBuffer"
                                    /\ Outermost(Main) = "dataBuffer"

(* Only a program whose static constructors start no thread is that orderly. *)
StartInv == Early = {} => StartedByMain

IInv == TypeOK /\ SlotInv /\ StackInv /\ BodyInv /\ StartInv

=============================================================================
