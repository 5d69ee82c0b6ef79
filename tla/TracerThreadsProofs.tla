------------------------ MODULE TracerThreadsProofs ------------------------
(***************************************************************************)
(* Proofs about TracerThreads, for every number of threads and slots.      *)
(***************************************************************************)
EXTENDS TracerThreads, SequenceTheorems, TLAPS

LEMMA FirstSlot == 0 \in Slot
  BY ThreadsAssumption DEF ThreadsAssumption, Slot

-----------------------------------------------------------------------------
(* The frames of interrupted calls: sequences of at most two. *)

LEMMA OneFrame ==
  ASSUME NEW f \in Frame
  PROVE  /\ <<f>> # <<>> /\ Len(<<f>>) = 1 /\ <<f>>[1] = f
         /\ DOMAIN <<f>> = {1}
         /\ Head(<<f>>) = f /\ Tail(<<f>>) = <<>>
         /\ <<f>> \o <<>> = <<f>>
  OBVIOUS

LEMMA PairOfFrames ==
  ASSUME NEW f \in Frame, NEW g \in Frame
  PROVE  /\ <<g, f>> # <<>> /\ Len(<<g, f>>) = 2
         /\ <<g, f>>[1] = g /\ <<g, f>>[2] = f
         /\ DOMAIN <<g, f>> = {1, 2}
         /\ Head(<<g, f>>) = g /\ Tail(<<g, f>>) = <<f>>
         /\ <<g>> \o <<f>> = <<g, f>>
<1>1. /\ <<g, f>> # <<>> /\ Len(<<g, f>>) = 2
      /\ <<g, f>>[1] = g /\ <<g, f>>[2] = f
  OBVIOUS
<1>2. DOMAIN <<g, f>> = {1, 2}
  OBVIOUS
<1>3. Head(<<g, f>>) = g /\ Tail(<<g, f>>) = <<f>>
  OBVIOUS
<1>4. <<g>> \o <<f>> = <<g, f>>
  <2>1. <<g, f>> \in Seq(Frame)
    OBVIOUS
  <2>2. /\ <<g>> \o <<f>> \in Seq(Frame) /\ Len(<<g>> \o <<f>>) = 2
    OBVIOUS
  <2>3. (<<g>> \o <<f>>)[1] = g /\ (<<g>> \o <<f>>)[2] = f
    OBVIOUS
  <2>4. \A i \in 1 .. 2 : (<<g>> \o <<f>>)[i] = <<g, f>>[i]
    BY <1>1, <2>3
  <2>5. QED
    BY <1>1, <2>1, <2>2, <2>4, SeqEqual
<1>5. QED
  BY <1>1, <1>2, <1>3, <1>4

LEMMA PushType ==
  ASSUME NEW s \in Seq(Frame), NEW f \in Frame
  PROVE  <<f>> \o s \in Seq(Frame)
  OBVIOUS

LEMMA PopType ==
  ASSUME NEW s \in Seq(Frame), s # <<>>
  PROVE  Head(s) \in Frame /\ Tail(s) \in Seq(Frame)
  OBVIOUS

(* Moving on to the next slot stays inside threadStates. *)
LEMMA NextSlotType ==
  ASSUME TypeOK, NEW t \in Thread, NextSlot(t)
  PROVE  /\ scan' \in [Thread -> Slot]
         /\ pc' \in [Thread -> Labels]
         /\ exited' \in BOOLEAN
<1>1. CASE scan[t] + 1 \in Slot /\ scan' = [scan EXCEPT ![t] = scan[t] + 1]
           /\ pc' = [pc EXCEPT ![t] = "scan"] /\ UNCHANGED exited
  BY <1>1 DEF TypeOK, Labels, ScanPC
<1>2. CASE exited' = TRUE /\ UNCHANGED <<scan, pc>>
  BY <1>2 DEF TypeOK
<1>3. QED
  BY <1>1, <1>2 DEF NextSlot, Goto

LEMMA TypeInit == Init => TypeOK
<1> SUFFICES ASSUME Init PROVE TypeOK
  OBVIOUS
<1>1. /\ alive \subseteq Thread /\ entered \subseteq Thread
      /\ lock \in Thread \cup {NoThread}
  BY ThreadsAssumption DEF ThreadsAssumption, Init
<1>2. /\ scan \in [Thread -> Slot] /\ tts \in [Thread -> Slot]
  BY FirstSlot DEF Init
<1>3. QED
  BY <1>1, <1>2 DEF Init, TypeOK, Labels, Calls, ScanPC, BodyPC

(* Returning leaves a thread where a frame of its own was, or idle. *)
LEMMA ReturnType ==
  ASSUME TypeOK, NEW t \in Thread, Return(t)
  PROVE  /\ pc' \in [Thread -> Labels] /\ call' \in [Thread -> Calls]
         /\ scan' \in [Thread -> Slot] /\ ret' \in [Thread -> Seq(Frame)]
<1>1. CASE ret[t] = <<>>
  BY <1>1 DEF Return, TypeOK, Goto, Labels
<1>2. CASE ret[t] # <<>>
  <2>1. Head(ret[t]) \in Frame /\ Tail(ret[t]) \in Seq(Frame)
    BY <1>2, PopType DEF TypeOK
  <2>2. /\ Head(ret[t]).pc \in Labels /\ Head(ret[t]).call \in Calls
        /\ Head(ret[t]).scan \in Slot
    BY <2>1 DEF Frame, Labels, ScanPC
  <2>3. /\ pc' = [pc EXCEPT ![t] = Head(ret[t]).pc]
        /\ call' = [call EXCEPT ![t] = Head(ret[t]).call]
        /\ scan' = [scan EXCEPT ![t] = Head(ret[t]).scan]
        /\ ret' = [ret EXCEPT ![t] = Tail(ret[t])]
    BY <1>2 DEF Return, Goto
  <2>4. QED
    BY <2>1, <2>2, <2>3 DEF TypeOK
<1>3. QED
  BY <1>1, <1>2

LEMMA TypeStep == TypeOK /\ [Next]_vars => TypeOK'
<1> SUFFICES ASSUME TypeOK, [Next]_vars
             PROVE  TypeOK'
  OBVIOUS
<1> USE ThreadsAssumption
    DEF TypeOK, Labels, ScanPC, BodyPC, program, config, slots, At, Goto
<1>1. ASSUME NEW t \in Thread, NEW u \in Thread, Spawn(t, u)
      PROVE  TypeOK'
  BY <1>1 DEF Spawn
<1>2. ASSUME NEW t \in Thread, Die(t)
      PROVE  TypeOK'
  BY <1>2 DEF Die
<1>3. ASSUME NEW t \in Thread, NEW c \in Calls, Call(t, c)
      PROVE  TypeOK'
  BY <1>3 DEF Call, Slot
<1>4. ASSUME NEW t \in Thread, NEW c \in Calls, Recurse(t, c)
      PROVE  TypeOK'
  <2>1. /\ ret[t] \in Seq(Frame)
        /\ [pc |-> pc[t], call |-> call[t], scan |-> scan[t]] \in Frame
    BY <1>4 DEF Recurse, Frame
  <2>2. ret' \in [Thread -> Seq(Frame)]
    BY <1>4, <2>1, PushType DEF Recurse
  <2>3. QED
    BY <1>4, <2>2, FirstSlot DEF Recurse
<1>5. ASSUME NEW t \in Thread, ReadInitialized(t)
      PROVE  TypeOK'
  BY <1>5 DEF ReadInitialized
<1>6. ASSUME NEW t \in Thread, CompareTid(t)
      PROVE  TypeOK'
  BY <1>6, NextSlotType DEF CompareTid
<1>7. ASSUME NEW t \in Thread, AcquireLock(t)
      PROVE  TypeOK'
  BY <1>7 DEF AcquireLock
<1>8. ASSUME NEW t \in Thread, RecheckInitialized(t)
      PROVE  TypeOK'
  BY <1>8, NextSlotType DEF RecheckInitialized
<1>9. ASSUME NEW t \in Thread, StoreTid(t)
      PROVE  TypeOK'
  BY <1>9 DEF StoreTid
<1>10. ASSUME NEW t \in Thread, StoreInitialized(t)
       PROVE  TypeOK'
  BY <1>10 DEF StoreInitialized
<1>11. ASSUME NEW t \in Thread, ReleaseLock(t)
       PROVE  TypeOK'
  BY <1>11 DEF ReleaseLock
<1>12. ASSUME NEW t \in Thread, Handle(t)
       PROVE  TypeOK'
  <2>1. CASE DataBufferReturn(t)
    BY <2>1, ReturnType DEF DataBufferReturn
  <2>2. CASE TracerLibSkip(t)
    BY <2>2, ReturnType DEF TracerLibSkip
  <2>3. CASE TracerLibEnter(t)
    BY <2>3 DEF TracerLibEnter
  <2>4. CASE CheckInitialize(t)
    BY <2>4 DEF CheckInitialize
  <2>5. CASE LoadConfig(t)
    BY <2>5 DEF LoadConfig
  <2>6. CASE SetInitialized(t)
    BY <2>6 DEF SetInitialized
  <2>7. CASE SecondInitialize(t)
    BY <2>7 DEF SecondInitialize
  <2>8. CASE TracerLibExit(t)
    BY <2>8, ReturnType DEF TracerLibExit
  <2>9. QED
    BY <1>12, <2>1, <2>2, <2>3, <2>4, <2>5, <2>6, <2>7, <2>8 DEF Handle, Body
<1>13. CASE UNCHANGED vars
  BY <1>13 DEF vars
<1>14. QED
  BY <1>1, <1>2, <1>3, <1>4, <1>5, <1>6, <1>7, <1>8, <1>9, <1>10, <1>11,
     <1>12, <1>13 DEF Next, Lookup

-----------------------------------------------------------------------------
(* What a recursive call and its return do to the frames of a thread. *)

(* The labels and the calls in a stack of one frame, or of two. *)
LEMMA Labelled ==
  ASSUME NEW f \in Frame, NEW g \in Frame
  PROVE  /\ {<<f>>[k].pc : k \in DOMAIN <<f>>} = {f.pc}
         /\ {<<g, f>>[k].pc : k \in DOMAIN <<g, f>>} = {g.pc, f.pc}
         /\ {<<f>>[k].call : k \in DOMAIN <<f>>} = {f.call}
         /\ {<<g, f>>[k].call : k \in DOMAIN <<g, f>>} = {g.call, f.call}
<1>1. {<<f>>[k].pc : k \in DOMAIN <<f>>} = {f.pc}
  BY OneFrame
<1>2. {<<g, f>>[k].pc : k \in DOMAIN <<g, f>>} = {g.pc, f.pc}
  BY PairOfFrames
<1>3. {<<f>>[k].call : k \in DOMAIN <<f>>} = {f.call}
  BY OneFrame
<1>4. {<<g, f>>[k].call : k \in DOMAIN <<g, f>>} = {g.call, f.call}
  BY PairOfFrames
<1>5. QED
  BY <1>1, <1>2, <1>3, <1>4

(* The three shapes of a stack. *)
LEMMA Shapes ==
  ASSUME TypeOK, StackInv, NEW t \in Thread
  PROVE  \/ ret[t] = <<>> /\ Interrupted(t) = {}
         \/ /\ pc[t] \in {"scan", "compare", "got"} \cup BodyPC
            /\ \E i \in Slot : tid[i] = t /\ initialized[i]
            /\ \E f \in Frame :
                 /\ FrameInv(t, f)
                 /\ \/ /\ ret[t] = <<f>> /\ Interrupted(t) = {f.pc}
                       /\ f.pc = "claim" \/ pc[t] \notin BodyPC
                    \/ /\ f.pc = "claim" /\ pc[t] \notin BodyPC
                       /\ \E g \in Frame : /\ g.pc # "claim" /\ ret[t] = <<g, f>>
                                           /\ Interrupted(t) = {g.pc, "claim"}
<1>1. CASE ret[t] = <<>>
  <2>1. DOMAIN ret[t] = {}
    BY <1>1
  <2>2. Interrupted(t) = {}
    BY <2>1 DEF Interrupted
  <2>3. QED
    BY <1>1, <2>2
<1>2. CASE ret[t] # <<>>
  <2>1. PICK f \in Frame :
          /\ FrameInv(t, f)
          /\ \/ ret[t] = <<f>> /\ (f.pc = "claim" \/ pc[t] \notin BodyPC)
             \/ /\ f.pc = "claim" /\ pc[t] \notin BodyPC
                /\ \E g \in Frame : ret[t] = <<g, f>> /\ g.pc # "claim"
    BY <1>2 DEF StackInv, StackOf
  <2>2. ASSUME ret[t] = <<f>>
        PROVE  Interrupted(t) = {f.pc}
    BY <2>2, Labelled DEF Interrupted
  <2>3. ASSUME f.pc = "claim", NEW g \in Frame, ret[t] = <<g, f>>
        PROVE  Interrupted(t) = {g.pc, "claim"}
    BY <2>3, Labelled DEF Interrupted
  <2>4. /\ pc[t] \in {"scan", "compare", "got"} \cup BodyPC
        /\ \E i \in Slot : tid[i] = t /\ initialized[i]
    BY <1>2 DEF StackInv, StackOf
  <2>5. QED
    BY <2>1, <2>2, <2>3, <2>4
<1>3. QED
  BY <1>1, <1>2

(* Labels are strings, and those of handlers differ from "claim". *)
LEMMA ClaimNoBody == "claim" \notin BodyPC /\ "got" \notin BodyPC
  BY DEF BodyPC

(* A call interrupted by another adds its label. *)
LEMMA Push ==
  ASSUME TypeOK, StackInv, NEW t \in Thread, NEW c \in Calls, Recurse(t, c)
  PROVE  \E f \in Frame :
    /\ f = [pc |-> pc[t], call |-> call[t], scan |-> scan[t]]
    /\ Interrupted(t)' = {pc[t]} \cup Interrupted(t)
    /\ InterruptedCalls(t)' = {call[t]} \cup InterruptedCalls(t)
    /\ Outermost(t)' = Outermost(t)
    /\ \/ /\ ret[t] = <<>> /\ ret' = [ret EXCEPT ![t] = <<f>>]
       \/ /\ pc[t] \in BodyPC
          /\ \E e \in Frame : /\ e.pc = "claim" /\ FrameInv(t, e)
                              /\ ret[t] = <<e>>
                              /\ ret' = [ret EXCEPT ![t] = <<f, e>>]
<1> DEFINE f == [pc |-> pc[t], call |-> call[t], scan |-> scan[t]]
<1>1. f \in Frame /\ f.pc = pc[t] /\ f.call = call[t]
  BY DEF Frame, Recurse, TypeOK
<1>2. ret' = [ret EXCEPT ![t] = <<f>> \o ret[t]] /\ pc[t] \in BodyPC \cup {"claim"}
  BY DEF Recurse
<1>3. ret'[t] = <<f>> \o ret[t]
  BY <1>2 DEF TypeOK
<1> HIDE DEF f
<1>4. CASE ret[t] = <<>> /\ Interrupted(t) = {}
  <2>1. <<f>> \o ret[t] = <<f>>
    BY <1>1, <1>4, OneFrame
  <2>2. ret'[t] = <<f>>
    BY <1>3, <2>1
  <2>3. Interrupted(t)' = {pc[t]} \cup Interrupted(t)
    BY <1>1, <1>4, <2>2, Labelled DEF Interrupted
  <2>4. Outermost(t)' = Outermost(t)
    BY <1>1, <1>4, <2>2, OneFrame DEF Outermost
  <2>5. InterruptedCalls(t)' = {call[t]} \cup InterruptedCalls(t)
    <3>1. DOMAIN ret[t] = {}
      BY <1>4
    <3>2. QED
      BY <1>1, <2>2, <3>1, Labelled DEF InterruptedCalls
  <2>6. QED
    BY <1>1, <1>2, <1>4, <2>1, <2>3, <2>4, <2>5 DEF f
<1>5. ASSUME NEW e \in Frame, FrameInv(t, e), ret[t] = <<e>>,
             Interrupted(t) = {e.pc}, e.pc = "claim" \/ pc[t] \notin BodyPC,
             pc[t] # "claim"
      PROVE  /\ pc[t] \in BodyPC /\ e.pc = "claim"
             /\ ret' = [ret EXCEPT ![t] = <<f, e>>]
             /\ Interrupted(t)' = {pc[t]} \cup Interrupted(t)
             /\ InterruptedCalls(t)' = {call[t]} \cup InterruptedCalls(t)
             /\ Outermost(t)' = Outermost(t)
  <2>1. <<f>> \o ret[t] = <<f, e>>
    BY <1>1, <1>5, PairOfFrames
  <2>2. ret'[t] = <<f, e>>
    BY <1>3, <2>1
  <2>3. Interrupted(t)' = {pc[t]} \cup Interrupted(t)
    BY <1>1, <1>5, <2>2, Labelled DEF Interrupted
  <2>4. Outermost(t)' = e.call
    BY <1>1, <1>5, <2>2, PairOfFrames DEF Outermost
  <2>5. Outermost(t) = e.call
    BY <1>5, OneFrame DEF Outermost
  <2>6. InterruptedCalls(t)' = {call[t]} \cup InterruptedCalls(t)
    BY <1>1, <1>5, <2>2, Labelled DEF InterruptedCalls
  <2>7. QED
    BY <1>2, <1>5, <2>1, <2>3, <2>4, <2>5, <2>6
<1>6. QED
  <2>1. "claim" \notin {"scan", "compare", "got"} \cup BodyPC
    BY DEF BodyPC
  <2>2. \/ ret[t] = <<>> /\ Interrupted(t) = {}
        \/ /\ pc[t] # "claim"
           /\ \E e \in Frame :
                /\ FrameInv(t, e) /\ ret[t] = <<e>> /\ Interrupted(t) = {e.pc}
                /\ e.pc = "claim" \/ pc[t] \notin BodyPC
    BY <1>2, <2>1, Shapes
  <2>3. CASE \E e \in Frame :
               /\ FrameInv(t, e) /\ ret[t] = <<e>> /\ Interrupted(t) = {e.pc}
               /\ e.pc = "claim" \/ pc[t] \notin BodyPC
               /\ pc[t] # "claim"
    BY <1>1, <1>5, <2>3 DEF f
  <2>4. QED
    BY <1>4, <2>2, <2>3

(* A return takes the label of the interrupted call away again. *)
LEMMA Pop ==
  ASSUME TypeOK, StackInv, NEW t \in Thread, Return(t)
  PROVE  \/ /\ ret[t] = <<>> /\ pc' = [pc EXCEPT ![t] = "idle"]
            /\ UNCHANGED <<call, scan, ret>>
         \/ \E f \in Frame :
              /\ ret[t] # <<>> /\ FrameInv(t, f)
              /\ pc' = [pc EXCEPT ![t] = f.pc]
              /\ call' = [call EXCEPT ![t] = f.call]
              /\ scan' = [scan EXCEPT ![t] = f.scan]
              /\ f.pc \in BodyPC => pc[t] \notin BodyPC
              /\ Interrupted(t) = {f.pc} \cup Interrupted(t)'
              /\ InterruptedCalls(t) = {f.call} \cup InterruptedCalls(t)'
              /\ InterruptedCalls(t) = {f.call} \cup InterruptedCalls(t)'
             /\ Outermost(t)' = Outermost(t)
              /\ \/ /\ ret' = [ret EXCEPT ![t] = <<>>]
                    /\ Interrupted(t)' = {}
                 \/ /\ f.pc # "claim" /\ Interrupted(t)' = {"claim"}
                    /\ \E e \in Frame : /\ e.pc = "claim" /\ FrameInv(t, e)
                                        /\ ret' = [ret EXCEPT ![t] = <<e>>]
<1>1. CASE ret[t] = <<>>
  BY <1>1 DEF Return, Goto
<1>2. ASSUME ret[t] # <<>>, NEW f \in Frame, Head(ret[t]) = f,
             NEW s \in Seq(Frame), Tail(ret[t]) = s
      PROVE  /\ pc' = [pc EXCEPT ![t] = f.pc]
             /\ call' = [call EXCEPT ![t] = f.call] /\ call'[t] = f.call
             /\ scan' = [scan EXCEPT ![t] = f.scan]
             /\ ret' = [ret EXCEPT ![t] = s] /\ ret'[t] = s
  BY <1>2 DEF Return, Goto, TypeOK
<1>3. ASSUME NEW f \in Frame, FrameInv(t, f), ret[t] = <<f>>,
             Interrupted(t) = {f.pc}, f.pc = "claim" \/ pc[t] \notin BodyPC
      PROVE  /\ ret[t] # <<>>
             /\ pc' = [pc EXCEPT ![t] = f.pc]
             /\ call' = [call EXCEPT ![t] = f.call]
             /\ scan' = [scan EXCEPT ![t] = f.scan]
             /\ f.pc \in BodyPC => pc[t] \notin BodyPC
             /\ Interrupted(t) = {f.pc} \cup Interrupted(t)'
             /\ InterruptedCalls(t) = {f.call} \cup InterruptedCalls(t)'
             /\ Outermost(t)' = Outermost(t)
             /\ ret' = [ret EXCEPT ![t] = <<>>]
             /\ Interrupted(t)' = {}
  <2>1. ret[t] # <<>> /\ Head(ret[t]) = f /\ Tail(ret[t]) = <<>>
    BY <1>3, OneFrame
  <2>2. <<>> \in Seq(Frame)
    OBVIOUS
  <2>3. /\ pc' = [pc EXCEPT ![t] = f.pc]
        /\ call' = [call EXCEPT ![t] = f.call] /\ call'[t] = f.call
        /\ scan' = [scan EXCEPT ![t] = f.scan]
        /\ ret' = [ret EXCEPT ![t] = <<>>] /\ ret'[t] = <<>>
    BY <1>2, <2>1, <2>2
  <2>4. DOMAIN ret'[t] = {}
    BY <2>3
  <2>5. Interrupted(t)' = {}
    BY <2>4 DEF Interrupted
  <2>6. Outermost(t)' = f.call /\ Outermost(t) = f.call
    BY <1>3, <2>3, OneFrame DEF Outermost
  <2>7. InterruptedCalls(t)' = {}
    BY <2>4 DEF InterruptedCalls
  <2>8. InterruptedCalls(t) = {f.call}
    BY <1>3, Labelled DEF InterruptedCalls
  <2>9. QED
    BY <1>3, <2>1, <2>3, <2>5, <2>6, <2>7, <2>8, ClaimNoBody
<1>4. ASSUME NEW e \in Frame, e.pc = "claim", FrameInv(t, e), pc[t] \notin BodyPC,
             NEW f \in Frame, f.pc # "claim", ret[t] = <<f, e>>,
             Interrupted(t) = {f.pc, "claim"}
      PROVE  /\ ret[t] # <<>> /\ FrameInv(t, f)
             /\ pc' = [pc EXCEPT ![t] = f.pc]
             /\ call' = [call EXCEPT ![t] = f.call]
             /\ scan' = [scan EXCEPT ![t] = f.scan]
             /\ Interrupted(t) = {f.pc} \cup Interrupted(t)'
             /\ InterruptedCalls(t) = {f.call} \cup InterruptedCalls(t)'
             /\ Outermost(t)' = Outermost(t)
             /\ ret' = [ret EXCEPT ![t] = <<e>>]
             /\ Interrupted(t)' = {"claim"}
  <2>1. /\ ret[t] # <<>> /\ Head(ret[t]) = f /\ Tail(ret[t]) = <<e>>
        /\ Len(ret[t]) = 2 /\ ret[t][2] = e
    BY <1>4, PairOfFrames
  <2>2. <<e>> \in Seq(Frame)
    OBVIOUS
  <2>3. /\ pc' = [pc EXCEPT ![t] = f.pc]
        /\ call' = [call EXCEPT ![t] = f.call] /\ call'[t] = f.call
        /\ scan' = [scan EXCEPT ![t] = f.scan]
        /\ ret' = [ret EXCEPT ![t] = <<e>>] /\ ret'[t] = <<e>>
    BY <1>2, <2>1, <2>2
  <2>4. Interrupted(t)' = {"claim"}
    BY <1>4, <2>3, Labelled DEF Interrupted
  <2>5. Outermost(t)' = e.call
    BY <2>3, OneFrame DEF Outermost
  <2>6. Outermost(t) = e.call
    BY <2>1 DEF Outermost
  <2>7. FrameInv(t, f)
    BY <1>4 DEF FrameInv
  <2>8. InterruptedCalls(t)' = {e.call}
    BY <1>4, <2>3, Labelled DEF InterruptedCalls
  <2>9. InterruptedCalls(t) = {f.call, e.call}
    BY <1>4, Labelled DEF InterruptedCalls
  <2>10. QED
    BY <1>4, <2>1, <2>3, <2>4, <2>5, <2>6, <2>7, <2>8, <2>9
<1>5. QED
  <2>1. CASE \E f \in Frame : /\ FrameInv(t, f) /\ ret[t] = <<f>>
                              /\ Interrupted(t) = {f.pc}
                              /\ f.pc = "claim" \/ pc[t] \notin BodyPC
    BY <1>3, <2>1
  <2>2. CASE \E e \in Frame :
               /\ e.pc = "claim" /\ FrameInv(t, e) /\ pc[t] \notin BodyPC
               /\ \E f \in Frame : /\ f.pc # "claim" /\ ret[t] = <<f, e>>
                                   /\ Interrupted(t) = {f.pc, "claim"}
    <3>1. PICK e \in Frame :
               /\ e.pc = "claim" /\ FrameInv(t, e) /\ pc[t] \notin BodyPC
               /\ \E f \in Frame : /\ f.pc # "claim" /\ ret[t] = <<f, e>>
                                   /\ Interrupted(t) = {f.pc, "claim"}
      BY <2>2
    <3>2. PICK f \in Frame : /\ f.pc # "claim" /\ ret[t] = <<f, e>>
                             /\ Interrupted(t) = {f.pc, "claim"}
      BY <3>1
    <3>3. QED
      BY <1>4, <3>1, <3>2
  <2>3. QED
    BY <1>1, <2>1, <2>2, Shapes

-----------------------------------------------------------------------------
(* Slots are claimed in order, once per thread, under the lock. *)

(* A thread that moves between labels outside the scan disturbs no slot. *)
LEMMA SlotFrame ==
  ASSUME TypeOK, SlotInv, NEW t \in Thread, pc[t] # "claim",
         NEW l \in {"idle"} \cup BodyPC, pc' = [pc EXCEPT ![t] = l],
         NEW i \in Slot, scan' = [scan EXCEPT ![t] = i],
         UNCHANGED <<tid, initialized, lock, exited>>
  PROVE  SlotInv'
<1> USE DEF TypeOK, SlotInv, Labels, ScanPC, BodyPC
<1>1. LockInv' /\ OrderInv' /\ UniqueInv'
  BY DEF LockInv, OrderInv, UniqueInv, Untouched
<1>2. SettledInv'
  BY DEF SettledInv
<1>3. ScanInv'
  BY DEF ScanInv, Claiming, Untouched
<1>4. QED
  BY <1>1, <1>2, <1>3

(* A claim goes on after a recursive call as it was left. *)
LEMMA SlotResume ==
  ASSUME TypeOK, SlotInv, NEW t \in Thread, pc[t] # "claim",
         NEW f \in Frame, FrameInv(t, f), f.pc = "claim",
         pc' = [pc EXCEPT ![t] = "claim"], scan' = [scan EXCEPT ![t] = f.scan],
         UNCHANGED <<tid, initialized, lock, exited>>
  PROVE  SlotInv'
<1> USE DEF TypeOK, SlotInv, Labels, ScanPC, BodyPC
<1>1. f.scan \in Slot
  BY DEF Frame
<1>2. /\ Claiming(t, f.scan) /\ tid[f.scan] = t /\ initialized[f.scan]
  BY DEF FrameInv
<1>3. LockInv' /\ OrderInv' /\ UniqueInv'
  BY DEF LockInv, OrderInv, UniqueInv, Untouched
<1>4. SettledInv'
  BY DEF SettledInv
<1>5. \A j \in Slot : j < f.scan => initialized[j] /\ tid[j] # t
  <2>1. \A j \in Slot : j < f.scan => initialized[j]
    BY <1>1, <1>2 DEF OrderInv, Untouched
  <2>2. \A j \in Slot : j < f.scan => j # f.scan
    BY <1>1, ThreadsAssumption DEF ThreadsAssumption, Slot
  <2>3. t # NoThread
    BY ThreadsAssumption DEF ThreadsAssumption
  <2>4. QED
    BY <1>1, <1>2, <2>1, <2>2, <2>3 DEF UniqueInv
<1>6. ScanInv'
  BY <1>1, <1>2, <1>5 DEF ScanInv, Claiming, Untouched
<1>7. QED
  BY <1>3, <1>4, <1>6

LEMMA SlotReturn ==
  ASSUME TypeOK, SlotInv, StackInv, NEW t \in Thread, pc[t] # "claim",
         Return(t), UNCHANGED <<tid, initialized, lock, exited>>
  PROVE  SlotInv'
<1>1. CASE /\ pc' = [pc EXCEPT ![t] = "idle"] /\ UNCHANGED scan
  <2>1. scan[t] \in Slot /\ scan' = [scan EXCEPT ![t] = scan[t]]
    BY <1>1 DEF TypeOK
  <2>2. QED
    BY <1>1, <2>1, SlotFrame
<1>2. ASSUME NEW f \in Frame, FrameInv(t, f),
             pc' = [pc EXCEPT ![t] = f.pc], scan' = [scan EXCEPT ![t] = f.scan]
      PROVE  SlotInv'
  <2>1. f.pc \in BodyPC \cup {"claim"} /\ f.scan \in Slot
    BY DEF Frame
  <2>2. CASE f.pc = "claim"
    BY <1>2, <2>2, SlotResume
  <2>3. CASE f.pc \in BodyPC
    BY <1>2, <2>1, <2>3, SlotFrame
  <2>4. QED
    BY <2>1, <2>2, <2>3
<1>3. QED
  BY <1>1, <1>2, Pop

(* Passing a slot that another thread has claimed. *)
LEMMA SlotAdvance ==
  ASSUME TypeOK, SlotInv, NEW t \in Thread, pc[t] \in {"compare", "locked"},
         initialized[scan[t]], tid[scan[t]] # t, NextSlot(t),
         UNCHANGED <<tid, initialized>>,
         lock' = lock \/ (pc[t] = "locked" /\ lock = t /\ lock' = NoThread)
  PROVE  SlotInv'
<1> USE DEF TypeOK, SlotInv, Labels, ScanPC, BodyPC
<1>1. OrderInv' /\ UniqueInv'
  BY DEF OrderInv, UniqueInv, Untouched
<1>2. CASE scan[t] + 1 \in Slot /\ scan' = [scan EXCEPT ![t] = scan[t] + 1]
           /\ pc' = [pc EXCEPT ![t] = "scan"] /\ UNCHANGED exited
  <2>1. LockInv'
    BY <1>2 DEF LockInv
  <2>2. SettledInv'
    BY <1>2 DEF SettledInv
  <2>3. \A j \in Slot : j < scan'[t] => initialized[j] /\ tid[j] # t
    <3>1. \A j \in Slot : j < scan'[t] => j < scan[t] \/ j = scan[t]
      BY <1>2, ThreadsAssumption DEF ThreadsAssumption, Slot
    <3>2. QED
      BY <1>2, <3>1 DEF ScanInv
  <2>4. ScanInv'
    BY <1>2, <2>3 DEF ScanInv, Claiming, Untouched
  <2>5. QED
    BY <1>1, <2>1, <2>2, <2>4
<1>3. CASE exited' = TRUE /\ UNCHANGED <<scan, pc>>
  BY <1>1, <1>3 DEF LockInv, SettledInv, ScanInv, Claiming, Untouched
<1>4. QED
  BY <1>2, <1>3 DEF NextSlot, Goto

(* The recheck under the lock leads to a slot nobody else is claiming, with *)
(* every lower slot taken and every higher one untouched.                   *)
LEMMA SlotClaim ==
  ASSUME TypeOK, SlotInv, NEW t \in Thread, pc[t] = "locked", ~exited,
         ~initialized[scan[t]], pc' = [pc EXCEPT ![t] = "claim"],
         UNCHANGED <<tid, initialized, lock, scan, exited>>
  PROVE  SlotInv'
<1> USE DEF TypeOK, SlotInv, Labels, ScanPC, BodyPC
<1>1. lock = t
  BY DEF LockInv
<1>2. \A u \in Thread : pc[u] # "claim"
  BY <1>1 DEF ScanInv, Claiming
<1>3. \A i \in Slot : initialized[i] <=> tid[i] # NoThread
  BY <1>2 DEF SettledInv
<1>4. tid[scan[t]] = NoThread
  BY <1>3
<1>5. \A j \in Slot : j < scan[t] => tid[j] # NoThread
  BY <1>3 DEF ScanInv
<1>6. \A j \in Slot : j > scan[t] => Untouched(j)
  <2> SUFFICES ASSUME NEW j \in Slot, j > scan[t], ~Untouched(j)
               PROVE  FALSE
    OBVIOUS
  <2>1. scan[t] < j
    BY ThreadsAssumption DEF ThreadsAssumption, Slot
  <2>2. QED
    BY <2>1 DEF OrderInv
<1>7. LockInv' /\ SettledInv' /\ OrderInv' /\ UniqueInv'
  BY <1>1, <1>3 DEF LockInv, SettledInv, OrderInv, UniqueInv, Untouched
<1>8. ScanInv'
  BY <1>1, <1>2, <1>4, <1>5, <1>6 DEF ScanInv, Claiming, Untouched
<1>9. QED
  BY <1>7, <1>8

(* A recursive call leaves the search, or a claim whose stores are done. *)
LEMMA SlotRecurse ==
  ASSUME TypeOK, SlotInv, NEW t \in Thread, NEW c \in Calls, Recurse(t, c)
  PROVE  SlotInv'
<1>1. /\ pc' = [pc EXCEPT ![t] = "scan"] /\ scan' = [scan EXCEPT ![t] = 0]
      /\ UNCHANGED <<tid, initialized, lock, exited>>
      /\ pc[t] = "claim" => tid[scan[t]] = t /\ initialized[scan[t]]
  BY DEF Recurse, Goto, slots, BodyPC
<1>2. LockInv' /\ OrderInv' /\ UniqueInv'
  BY <1>1 DEF TypeOK, SlotInv, LockInv, OrderInv, UniqueInv, Untouched
<1>3. SettledInv'
  <2> SUFFICES ASSUME NEW i \in Slot, ~(initialized[i] <=> tid[i] # NoThread)
               PROVE  \E u \in Thread : pc'[u] = "claim" /\ scan'[u] = i
    BY <1>1 DEF SettledInv
  <2>1. PICK u \in Thread : pc[u] = "claim" /\ scan[u] = i
    BY DEF SlotInv, SettledInv
  <2>2. u # t
    BY <1>1, <2>1, ThreadsAssumption DEF ThreadsAssumption
  <2>3. QED
    BY <1>1, <2>1, <2>2 DEF TypeOK
<1>4. ScanInv'
  <2> SUFFICES ASSUME NEW u \in Thread
               PROVE
    /\ pc'[u] \in ScanPC =>
         \A j \in Slot : j < scan'[u] => initialized[j] /\ tid[j] # u
    /\ pc'[u] = "compare" => initialized[scan'[u]]
    /\ pc'[u] \in {"wait", "locked"} => tid[scan'[u]] # u
    /\ pc'[u] = "claim" => Claiming(u, scan'[u])
    /\ pc'[u] = "got" => tid[scan'[u]] = u /\ initialized[scan'[u]]
    BY <1>1 DEF ScanInv, Claiming, Untouched
  <2>1. CASE u = t
    <3>1. pc'[u] = "scan" /\ scan'[u] = 0
      BY <1>1, <2>1 DEF TypeOK
    <3>2. \A j \in Slot : ~(j < 0)
      BY DEF Slot
    <3>3. QED
      BY <3>1, <3>2
  <2>2. CASE u # t
    <3>1. pc'[u] = pc[u] /\ scan'[u] = scan[u]
      BY <1>1, <2>2 DEF TypeOK
    <3>2. QED
      BY <3>1 DEF SlotInv, ScanInv
  <2>3. QED
    BY <2>1, <2>2
<1>5. QED
  BY <1>2, <1>3, <1>4 DEF SlotInv

(* The first store of a claim is to a slot that carries no id yet. *)
LEMMA SlotStoreTid ==
  ASSUME TypeOK, SlotInv, NEW t \in Thread, StoreTid(t)
  PROVE  SlotInv'
<1>1. /\ ~exited /\ pc[t] = "claim" /\ scan[t] \in Slot
      /\ tid[scan[t]] # t /\ tid' = [tid EXCEPT ![scan[t]] = t]
      /\ UNCHANGED <<initialized, lock, pc, scan, exited>>
  BY DEF StoreTid, At, TypeOK
<1>2. /\ Claiming(t, scan[t])
      /\ \A j \in Slot : j < scan[t] => initialized[j] /\ tid[j] # t
  BY <1>1 DEF SlotInv, ScanInv, ScanPC
<1>3. \A u \in Thread : pc[u] \in {"locked", "claim"} => u = t
  BY <1>1, <1>2 DEF SlotInv, LockInv, ScanInv, Claiming
<1>4. \A j \in Slot : j # scan[t] => tid[j] # t
  <2>1. \A j \in Slot : j < scan[t] \/ j > scan[t] \/ j = scan[t]
    BY <1>1, ThreadsAssumption DEF ThreadsAssumption, Slot
  <2>2. QED
    BY <1>2, <2>1, ThreadsAssumption DEF ThreadsAssumption, Claiming, Untouched
<1>5. \A j \in Slot : /\ j # scan[t] => tid'[j] = tid[j]
                      /\ tid[j] # NoThread => tid'[j] # NoThread
  BY <1>1, ThreadsAssumption DEF ThreadsAssumption, TypeOK
<1>6. LockInv' /\ SettledInv'
  BY <1>1, <1>5 DEF SlotInv, LockInv, SettledInv
<1>7. OrderInv'
  <2>1. \A j \in Slot : j < scan[t] => initialized[j] /\ tid'[j] # NoThread
    BY <1>2, <1>5 DEF Claiming
  <2>2. QED
    BY <1>1, <1>5, <2>1 DEF SlotInv, OrderInv, Untouched
<1>8. UniqueInv'
  BY <1>1, <1>4, <1>5 DEF SlotInv, UniqueInv, TypeOK
<1>9. ScanInv'
  <2>1. tid'[scan[t]] = t
    BY <1>1 DEF TypeOK
  <2> SUFFICES ASSUME NEW u \in Thread
               PROVE
    /\ pc[u] \in ScanPC =>
         \A j \in Slot : j < scan[u] => initialized[j] /\ tid'[j] # u
    /\ pc[u] = "compare" => initialized[scan[u]]
    /\ pc[u] \in {"wait", "locked"} => tid'[scan[u]] # u
    /\ pc[u] = "claim" => Claiming(u, scan[u])'
    /\ pc[u] = "got" => tid'[scan[u]] = u /\ initialized[scan[u]]
    BY <1>1 DEF ScanInv, Claiming, Untouched
  <2>2. CASE u = t
    <3>1. \A j \in Slot : j < scan[t] => j # scan[t]
      BY <1>1, ThreadsAssumption DEF ThreadsAssumption, Slot
    <3>2. \A j \in Slot : j > scan[t] => j # scan[t]
      BY <1>1, ThreadsAssumption DEF ThreadsAssumption, Slot
    <3>3. Claiming(t, scan[t])'
      BY <1>1, <1>2, <1>5, <2>1, <3>1, <3>2 DEF Claiming, Untouched
    <3>4. QED
      BY <1>1, <1>2, <1>5, <2>2, <3>1, <3>3
  <2>3. CASE u # t
    <3>1. pc[u] # "claim" /\ scan[u] \in Slot /\ u # NoThread
      BY <1>3, <2>3, ThreadsAssumption DEF ThreadsAssumption, TypeOK
    <3>2. \A j \in Slot : (tid'[j] = u) <=> (tid[j] = u)
      <4>1. tid[scan[t]] # u
        BY <1>2, <2>3, <3>1 DEF Claiming
      <4>2. QED
        BY <1>5, <2>1, <2>3, <4>1
    <3>3. QED
      BY <3>1, <3>2 DEF SlotInv, ScanInv
  <2>4. QED
    BY <2>2, <2>3
<1>10. QED
  BY <1>6, <1>7, <1>8, <1>9 DEF SlotInv

(* The second store touches no higher slot, and leaves the lower ones taken. *)
LEMMA SlotStoreInitialized ==
  ASSUME TypeOK, SlotInv, NEW t \in Thread, StoreInitialized(t)
  PROVE  SlotInv'
<1>1. /\ ~exited /\ pc[t] = "claim" /\ scan[t] \in Slot
      /\ initialized' = [initialized EXCEPT ![scan[t]] = TRUE]
      /\ UNCHANGED <<tid, lock, pc, scan, exited>>
  BY DEF StoreInitialized, At, TypeOK
<1>2. /\ Claiming(t, scan[t])
      /\ \A j \in Slot : j < scan[t] => initialized[j]
  BY <1>1 DEF SlotInv, ScanInv, ScanPC
<1>3. \A u \in Thread : pc[u] = "claim" => u = t
  BY <1>1, <1>2 DEF SlotInv, ScanInv, Claiming
<1>4. \A j \in Slot : /\ j # scan[t] => initialized'[j] = initialized[j]
                      /\ initialized[j] => initialized'[j]
  BY <1>1 DEF TypeOK
<1>5. LockInv' /\ SettledInv' /\ UniqueInv'
  BY <1>1, <1>4 DEF SlotInv, LockInv, SettledInv, UniqueInv
<1>6. OrderInv'
  BY <1>1, <1>2, <1>4 DEF SlotInv, OrderInv, Untouched, Claiming
<1>7. ScanInv'
  <2> SUFFICES ASSUME NEW u \in Thread
               PROVE
    /\ pc[u] \in ScanPC =>
         \A j \in Slot : j < scan[u] => initialized'[j] /\ tid[j] # u
    /\ pc[u] = "compare" => initialized'[scan[u]]
    /\ pc[u] \in {"wait", "locked"} => tid[scan[u]] # u
    /\ pc[u] = "claim" => Claiming(u, scan[u])'
    /\ pc[u] = "got" => tid[scan[u]] = u /\ initialized'[scan[u]]
    BY <1>1 DEF ScanInv, Claiming, Untouched
  <2>1. scan[u] \in Slot
    BY DEF TypeOK
  <2>2. pc[u] = "claim" => Claiming(u, scan[u])'
    <3>1. \A j \in Slot : j > scan[t] => j # scan[t]
      BY <1>1, ThreadsAssumption DEF ThreadsAssumption, Slot
    <3>2. QED
      BY <1>1, <1>2, <1>3, <1>4, <3>1 DEF Claiming, Untouched
  <2>3. QED
    BY <1>4, <2>1, <2>2 DEF SlotInv, ScanInv
<1>8. QED
  BY <1>5, <1>6, <1>7 DEF SlotInv

LEMMA SlotStep == TypeOK /\ SlotInv /\ StackInv /\ [Next]_vars => SlotInv'
<1> SUFFICES ASSUME TypeOK, SlotInv, StackInv, [Next]_vars
             PROVE  SlotInv'
  OBVIOUS
<1>1. ASSUME NEW t \in Thread, NEW c \in Calls, Recurse(t, c)
      PROVE  SlotInv'
  BY <1>1, SlotRecurse
<1>2. ASSUME NEW t \in Thread, StoreTid(t)
      PROVE  SlotInv'
  BY <1>2, SlotStoreTid
<1>3. ASSUME NEW t \in Thread, StoreInitialized(t)
       PROVE  SlotInv'
  BY <1>3, SlotStoreInitialized
<1> USE ThreadsAssumption DEF TypeOK, SlotInv, LockInv, SettledInv, OrderInv, UniqueInv,
    ScanInv, Claiming, Untouched, Labels, ScanPC, BodyPC, program, config, slots, At, Goto, Slot
<1>4. ASSUME NEW t \in Thread, NEW u \in Thread, Spawn(t, u)
     PROVE  SlotInv'
  BY <1>4 DEF Spawn
<1>5. ASSUME NEW t \in Thread, Die(t)
     PROVE  SlotInv'
  BY <1>5 DEF Die
<1>6. ASSUME NEW t \in Thread, NEW c \in Calls, Call(t, c)
     PROVE  SlotInv'
  BY <1>6 DEF Call
<1>7. ASSUME NEW t \in Thread, ReadInitialized(t)
     PROVE  SlotInv'
  BY <1>7 DEF ReadInitialized
<1>8. ASSUME NEW t \in Thread, CompareTid(t)
     PROVE  SlotInv'
  <2>1. CASE tid[scan[t]] = t
    BY <1>8, <2>1 DEF CompareTid
  <2>2. CASE tid[scan[t]] # t
    BY <1>8, <2>2, SlotAdvance DEF CompareTid
  <2>3. QED
    BY <2>1, <2>2
<1>9. ASSUME NEW t \in Thread, AcquireLock(t)
     PROVE  SlotInv'
  BY <1>9 DEF AcquireLock
<1>10. ASSUME NEW t \in Thread, RecheckInitialized(t)
     PROVE  SlotInv'
  <2>1. CASE ~initialized[scan[t]]
    BY <1>10, <2>1, SlotClaim DEF RecheckInitialized
  <2>2. CASE initialized[scan[t]]
    BY <1>10, <2>2, SlotAdvance DEF RecheckInitialized
  <2>3. QED
    BY <2>1, <2>2
<1>11. ASSUME NEW t \in Thread, ReleaseLock(t)
     PROVE  SlotInv'
  BY <1>11 DEF ReleaseLock
<1>12. ASSUME NEW t \in Thread, Handle(t)
      PROVE  SlotInv'
  <2>1. CASE DataBufferReturn(t)
    BY <2>1, SlotReturn DEF DataBufferReturn
  <2>2. CASE TracerLibSkip(t)
    BY <2>2, SlotReturn DEF TracerLibSkip
  <2>3. CASE TracerLibEnter(t)
    BY <2>3 DEF TracerLibEnter
  <2>4. CASE CheckInitialize(t)
    BY <2>4 DEF CheckInitialize
  <2>5. CASE LoadConfig(t)
    BY <2>5 DEF LoadConfig
  <2>6. CASE SetInitialized(t)
    BY <2>6 DEF SetInitialized
  <2>7. CASE SecondInitialize(t)
    BY <2>7 DEF SecondInitialize
  <2>8. CASE TracerLibExit(t)
    BY <2>8, SlotReturn DEF TracerLibExit
  <2>9. QED
    BY <1>12, <2>1, <2>2, <2>3, <2>4, <2>5, <2>6, <2>7, <2>8 DEF Handle, Body
<1>13. CASE UNCHANGED vars
  BY <1>13 DEF vars
<1>14. QED
  BY <1>1, <1>2, <1>3, <1>4, <1>5, <1>6, <1>7, <1>8, <1>9, <1>10, <1>11,
     <1>12, <1>13 DEF Next, Lookup

-----------------------------------------------------------------------------
(* Recursion is two deep at most, and finds the slot of its thread. *)

(* Only the holder of the lock changes it or stores to a slot. *)
LEMMA LockGuards ==
  ASSUME TypeOK, SlotInv, NEW t \in Thread, lock = t,
         NEW u \in Thread, u # t, Lookup(u) \/ Handle(u)
  PROVE  UNCHANGED <<lock, tid, initialized>>
<1>1. t # NoThread
  BY ThreadsAssumption DEF ThreadsAssumption
<1>2. CASE Handle(u)
  BY <1>2 DEF Handle, Body, DataBufferReturn, TracerLibSkip, TracerLibEnter,
     CheckInitialize, LoadConfig, SetInitialized, SecondInitialize,
     TracerLibExit, slots
<1>3. CASE ReadInitialized(u) \/ CompareTid(u)
  BY <1>3 DEF ReadInitialized, CompareTid, slots
<1>4. CASE AcquireLock(u)
  BY <1>1, <1>4 DEF AcquireLock
<1>5. CASE RecheckInitialized(u)
  BY <1>5 DEF RecheckInitialized, At, slots, SlotInv, LockInv
<1>6. CASE StoreTid(u) \/ StoreInitialized(u) \/ ReleaseLock(u)
  <2>1. pc[u] = "claim"
    BY <1>6 DEF StoreTid, StoreInitialized, ReleaseLock, At
  <2>2. QED
    BY <2>1 DEF SlotInv, ScanInv, Claiming
<1>7. QED
  BY <1>2, <1>3, <1>4, <1>5, <1>6 DEF Lookup

(* A slot with its own id set is never taken from a thread. *)
LEMMA SlotKept ==
  ASSUME TypeOK, SlotInv, NEW t \in Thread, NEW i \in Slot,
         tid[i] = t, initialized[i],
         NEW u \in Thread, Lookup(u) \/ Handle(u)
  PROVE  tid'[i] = t /\ initialized'[i]
<1>1. t # NoThread
  BY ThreadsAssumption DEF ThreadsAssumption
<1>2. CASE StoreTid(u)
  <2>1. /\ pc[u] = "claim" /\ tid[scan[u]] # u /\ scan[u] \in Slot
        /\ tid' = [tid EXCEPT ![scan[u]] = u] /\ UNCHANGED initialized
    BY <1>2 DEF StoreTid, At, TypeOK
  <2>2. tid[scan[u]] = NoThread
    BY <2>1 DEF SlotInv, ScanInv, Claiming
  <2>3. QED
    BY <1>1, <2>1, <2>2 DEF TypeOK
<1>3. CASE StoreInitialized(u)
  BY <1>3 DEF StoreInitialized, TypeOK
<1>4. CASE Handle(u)
  BY <1>4 DEF Handle, Body, DataBufferReturn, TracerLibSkip, TracerLibEnter,
     CheckInitialize, LoadConfig, SetInitialized, SecondInitialize,
     TracerLibExit, slots
<1>5. QED
  BY <1>2, <1>3, <1>4 DEF Lookup, ReadInitialized, CompareTid, AcquireLock,
     RecheckInitialized, ReleaseLock, slots

(* A step of one thread leaves the stack of another as StackInv wants it. *)
LEMMA StackOther ==
  ASSUME TypeOK, SlotInv, NEW t \in Thread, NEW u \in Thread, u # t,
         Lookup(u) \/ Handle(u), NEW f \in Frame, FrameInv(t, f)
  PROVE  FrameInv(t, f)'
<1>1. CASE f.pc = "claim"
  <2>1. Claiming(t, f.scan) /\ tid[f.scan] = t /\ initialized[f.scan]
    BY <1>1 DEF FrameInv
  <2>2. UNCHANGED <<lock, tid, initialized>>
    BY <2>1, LockGuards DEF Claiming
  <2>3. QED
    BY <2>1, <2>2 DEF FrameInv, Claiming, Untouched
<1>2. CASE f.pc # "claim"
  BY <1>2 DEF FrameInv
<1>3. QED
  BY <1>1, <1>2

(* A thread moves on inside a recursive call, and stores to no slot. *)
LEMMA StackMove ==
  ASSUME NEW t \in Thread, StackOf(t), UNCHANGED <<tid, initialized, lock>>,
         ret'[t] = ret[t],
         \/ ret[t] = <<>>
         \/ pc'[t] \in {"scan", "compare", "got"}
         \/ pc[t] \in BodyPC /\ pc'[t] \in BodyPC
  PROVE  StackOf(t)'
<1>1. CASE ret[t] = <<>>
  BY <1>1 DEF StackOf
<1>2. ASSUME NEW f \in Frame, FrameInv(t, f)
      PROVE  FrameInv(t, f)'
  BY <1>2 DEF FrameInv, Claiming, Untouched
<1>3. {"scan", "compare", "got"} \cap BodyPC = {}
  BY DEF BodyPC
<1>4. QED
  BY <1>1, <1>2, <1>3 DEF StackOf

(* A recursive look-up stops at the slot of its thread at the latest. *)
LEMMA StackLookup ==
  ASSUME TypeOK, SlotInv, NEW t \in Thread, StackOf(t), Lookup(t)
  PROVE  StackOf(t)'
<1>1. ret' = ret
  BY DEF Lookup, ReadInitialized, CompareTid, AcquireLock,
     RecheckInitialized, StoreTid, StoreInitialized, ReleaseLock
<1>2. CASE ret[t] = <<>>
  BY <1>1, <1>2 DEF StackOf
<1>3. CASE ret[t] # <<>>
  <2>1. PICK i \in Slot : tid[i] = t /\ initialized[i]
    BY <1>3 DEF StackOf
  <2>2. pc[t] \in {"scan", "compare", "got"} \cup BodyPC
    BY <1>3 DEF StackOf
  <2>3. pc[t] \notin {"wait", "locked", "claim"}
    BY <2>2 DEF BodyPC
  <2>4. ReadInitialized(t) \/ CompareTid(t)
    BY <2>3 DEF Lookup, AcquireLock, RecheckInitialized, StoreTid,
       StoreInitialized, ReleaseLock, At
  <2>5. /\ scan[t] \in Slot /\ pc[t] \in {"scan", "compare"}
        /\ ~(i < scan[t])
    <3>1. scan[t] \in Slot /\ pc[t] \in {"scan", "compare"}
      BY <2>4 DEF ReadInitialized, CompareTid, At, TypeOK
    <3>2. QED
      BY <2>1, <3>1 DEF SlotInv, ScanInv, ScanPC
  <2>6. CASE ReadInitialized(t)
    <3>1. initialized[scan[t]]
      <4>1. CASE i = scan[t]
        BY <2>1, <4>1
      <4>2. CASE scan[t] < i
        BY <2>1, <2>5, <4>2 DEF SlotInv, OrderInv, Untouched
      <4>3. i = scan[t] \/ scan[t] < i
        BY <2>5, ThreadsAssumption DEF ThreadsAssumption, Slot
      <4>4. QED
        BY <4>1, <4>2, <4>3
    <3>2. pc'[t] = "compare" /\ UNCHANGED <<tid, initialized, lock>>
      BY <2>6, <3>1 DEF ReadInitialized, Goto, TypeOK, slots
    <3>3. QED
      BY <1>1, <3>2, StackMove
  <2>7. CASE CompareTid(t)
    <3>1. pc'[t] \in {"got", "scan"}
      <4>1. CASE tid[scan[t]] = t
        BY <2>7, <4>1 DEF CompareTid, Goto, TypeOK
      <4>2. CASE tid[scan[t]] # t
        <5>1. scan[t] + 1 \in Slot
          BY <2>1, <2>5, <4>2, ThreadsAssumption DEF ThreadsAssumption, Slot
        <5>2. QED
          BY <2>7, <4>2, <5>1 DEF CompareTid, NextSlot, Goto, TypeOK
      <4>3. QED
        BY <4>1, <4>2
    <3>2. UNCHANGED <<tid, initialized, lock>>
      BY <2>7 DEF CompareTid, slots
    <3>3. QED
      BY <1>1, <3>1, <3>2, StackMove
  <2>8. QED
    BY <2>4, <2>6, <2>7
<1>4. QED
  BY <1>2, <1>3

(* A recursive call that returns leaves what it found. *)
LEMMA StackReturn ==
  ASSUME TypeOK, StackInv, NEW t \in Thread, Return(t),
         UNCHANGED <<tid, initialized, lock>>
  PROVE  StackOf(t)'
<1>1. CASE ret'[t] = <<>>
  BY <1>1 DEF StackOf
<1>2. ASSUME ret[t] # <<>>, NEW f \in Frame, f.pc # "claim",
             pc' = [pc EXCEPT ![t] = f.pc], NEW e \in Frame, e.pc = "claim",
             FrameInv(t, e), ret' = [ret EXCEPT ![t] = <<e>>]
      PROVE  StackOf(t)'
  <2>1. ret'[t] = <<e>> /\ pc'[t] = f.pc
    BY <1>2 DEF TypeOK
  <2>2. f.pc \in BodyPC
    BY <1>2 DEF Frame
  <2>3. \E i \in Slot : tid[i] = t /\ initialized[i]
    BY <1>2 DEF StackInv, StackOf
  <2>4. FrameInv(t, e)'
    BY <1>2 DEF FrameInv, Claiming, Untouched
  <2>5. QED
    BY <1>2, <2>1, <2>2, <2>3, <2>4 DEF StackOf
<1>3. ret \in [Thread -> Seq(Frame)]
  BY DEF TypeOK
<1>4. CASE ret' = [ret EXCEPT ![t] = <<>>]
  BY <1>1, <1>3, <1>4
<1>5. CASE ret[t] = <<>> /\ UNCHANGED ret
  BY <1>1, <1>5
<1>6. QED
  BY <1>2, <1>4, <1>5, Pop

(* A recursive call interrupts a handler or a claim of a slot it will find. *)
LEMMA StackRecurse ==
  ASSUME TypeOK, SlotInv, StackInv, BodyInv, NEW t \in Thread, NEW c \in Calls,
         Recurse(t, c)
  PROVE  StackOf(t)'
<1>1. /\ UNCHANGED <<tid, initialized, lock>> /\ pc'[t] = "scan"
      /\ \/ pc[t] \in BodyPC
         \/ /\ pc[t] = "claim" /\ tid[scan[t]] = t /\ initialized[scan[t]]
  BY DEF Recurse, Goto, TypeOK, slots
<1>2. \E i \in Slot : tid[i] = t /\ initialized[i]
  <2>1. tts[t] \in Slot /\ scan[t] \in Slot
    BY DEF TypeOK
  <2>2. QED
    BY <1>1, <2>1 DEF BodyInv, InBody
<1>3. pc'[t] \notin BodyPC
  BY <1>1 DEF BodyPC
<1>4. PICK f \in Frame :
        /\ f = [pc |-> pc[t], call |-> call[t], scan |-> scan[t]]
        /\ \/ /\ ret[t] = <<>> /\ ret' = [ret EXCEPT ![t] = <<f>>]
           \/ /\ pc[t] \in BodyPC
              /\ \E e \in Frame : /\ e.pc = "claim" /\ FrameInv(t, e)
                                  /\ ret[t] = <<e>>
                                  /\ ret' = [ret EXCEPT ![t] = <<f, e>>]
  BY Push
<1>5. f.pc = pc[t] /\ f.scan = scan[t]
  BY <1>4
<1>6. CASE ret[t] = <<>> /\ ret' = [ret EXCEPT ![t] = <<f>>]
  <2>1. ret'[t] = <<f>>
    BY <1>6 DEF TypeOK
  <2>2. CASE pc[t] = "claim"
    <3>1. tid[scan[t]] = t /\ initialized[scan[t]] /\ Claiming(t, scan[t])
      BY <1>1, <2>2, ClaimNoBody DEF SlotInv, ScanInv
    <3>2. FrameInv(t, f)'
      BY <1>1, <1>5, <3>1 DEF FrameInv, Claiming, Untouched
    <3>3. QED
      BY <1>1, <1>2, <1>3, <2>1, <2>2, <3>2, <1>5 DEF StackOf
  <2>3. CASE pc[t] \in BodyPC
    <3>1. FrameInv(t, f)'
      BY <1>5, <2>3, ClaimNoBody DEF FrameInv
    <3>2. QED
      BY <1>1, <1>2, <1>3, <1>5, <2>1, <3>1 DEF StackOf
  <2>4. QED
    BY <1>1, <2>2, <2>3
<1>7. ASSUME pc[t] \in BodyPC, NEW e \in Frame, e.pc = "claim", FrameInv(t, e),
             ret' = [ret EXCEPT ![t] = <<f, e>>]
      PROVE  StackOf(t)'
  <2>1. ret'[t] = <<f, e>>
    BY <1>7 DEF TypeOK
  <2>2. FrameInv(t, e)'
    BY <1>1, <1>7 DEF FrameInv, Claiming, Untouched
  <2>3. f.pc # "claim"
    BY <1>5, <1>7, ClaimNoBody
  <2>4. QED
    BY <1>1, <1>2, <1>3, <1>7, <2>1, <2>2, <2>3 DEF StackOf
<1>8. QED
  BY <1>4, <1>6, <1>7

(* Entering a handler, a thread is in no other. *)
LEMMA EnterFlag ==
  ASSUME TypeOK, SlotInv, BodyInv, NEW t \in Thread, pc[t] = "got",
         ~insideMyself[scan[t]]
  PROVE  ~Reentering(t)
<1>1. tid[scan[t]] = t /\ scan[t] \in Slot /\ t # NoThread /\ tts[t] \in Slot
  BY ThreadsAssumption DEF ThreadsAssumption, TypeOK, SlotInv, ScanInv
<1>2. ASSUME InBody(t) PROVE FALSE
  <2>1. tid[tts[t]] = t /\ insideMyself[tts[t]]
    BY <1>2 DEF BodyInv
  <2>2. tts[t] = scan[t]
    BY <1>1, <2>1 DEF SlotInv, UniqueInv
  <2>3. QED
    BY <2>1, <2>2
<1>3. QED
  BY <1>2 DEF InBody

LEMMA StackEnter ==
  ASSUME TypeOK, SlotInv, StackInv, BodyInv, NEW t \in Thread,
         TracerLibEnter(t)
  PROVE  StackOf(t)'
<1>1. /\ pc[t] = "got" /\ ~insideMyself[scan[t]] /\ pc'[t] \in BodyPC
      /\ UNCHANGED <<tid, initialized, lock, ret>>
  BY DEF TracerLibEnter, At, Goto, TypeOK, BodyPC, slots
<1>2. ~Reentering(t)
  BY <1>1, EnterFlag
<1>3. CASE ret[t] = <<>>
  BY <1>1, <1>3 DEF StackOf
<1>4. CASE ret[t] # <<>>
  <2>1. PICK f \in Frame :
          /\ FrameInv(t, f)
          /\ \/ ret[t] = <<f>> /\ Interrupted(t) = {f.pc}
             \/ \E g \in Frame : g.pc # "claim" /\ Interrupted(t) = {g.pc, "claim"}
    BY <1>4, Shapes
  <2>2. \A g \in Frame : g.pc # "claim" => g.pc \in BodyPC
    BY DEF Frame
  <2>3. ret[t] = <<f>> /\ f.pc = "claim"
    BY <1>2, <2>1, <2>2 DEF Reentering
  <2>4. \E i \in Slot : tid[i] = t /\ initialized[i]
    BY <1>4 DEF StackInv, StackOf
  <2>5. FrameInv(t, f)'
    BY <1>1, <2>1 DEF FrameInv, Claiming, Untouched
  <2>6. QED
    BY <1>1, <2>3, <2>4, <2>5 DEF StackOf
<1>5. QED
  BY <1>3, <1>4

LEMMA StackStep ==
  TypeOK /\ SlotInv /\ StackInv /\ BodyInv /\ [Next]_vars => StackInv'
<1> SUFFICES ASSUME TypeOK, SlotInv, StackInv, BodyInv, [Next]_vars,
                    NEW v \in Thread
             PROVE  StackOf(v)'
  BY DEF StackInv
<1>1. StackOf(v)
  BY DEF StackInv
<1>2. ASSUME NEW t \in Thread, t # v, Lookup(t) \/ Handle(t)
      PROVE  StackOf(v)'
  <2>1. pc'[v] = pc[v] /\ ret'[v] = ret[v]
    BY <1>2 DEF Lookup, ReadInitialized, CompareTid, AcquireLock,
       RecheckInitialized, StoreTid, StoreInitialized, ReleaseLock, NextSlot,
       Handle, Body, DataBufferReturn, TracerLibSkip, TracerLibEnter,
       CheckInitialize, LoadConfig, SetInitialized, SecondInitialize,
       TracerLibExit, Return, Goto, TypeOK
  <2>2. \A i \in Slot : tid[i] = v /\ initialized[i] =>
                          tid'[i] = v /\ initialized'[i]
    BY <1>2, SlotKept
  <2>3. \A f \in Frame : FrameInv(v, f) => FrameInv(v, f)'
    BY <1>2, StackOther
  <2>4. QED
    BY <1>1, <2>1, <2>2, <2>3 DEF StackOf
<1>3. ASSUME Lookup(v)
      PROVE  StackOf(v)'
  BY <1>1, <1>3, StackLookup
<1>4. ASSUME Handle(v)
      PROVE  StackOf(v)'
  <2>1. CASE DataBufferReturn(v) \/ TracerLibSkip(v) \/ TracerLibExit(v)
    <3>1. Return(v) /\ UNCHANGED <<tid, initialized, lock>>
      BY <2>1 DEF DataBufferReturn, TracerLibSkip, TracerLibExit, slots
    <3>2. QED
      BY <3>1, StackReturn
  <2>2. CASE TracerLibEnter(v)
    BY <2>2, StackEnter
  <2>3. CASE \/ CheckInitialize(v) \/ LoadConfig(v) \/ SetInitialized(v)
             \/ SecondInitialize(v)
    <3>1. /\ pc[v] \in BodyPC /\ pc'[v] \in BodyPC /\ ret'[v] = ret[v]
          /\ UNCHANGED <<tid, initialized, lock>>
      BY <2>3 DEF CheckInitialize, LoadConfig, SetInitialized, SecondInitialize,
         At, Goto, BodyPC, TypeOK, slots
    <3>2. QED
      BY <1>1, <3>1, StackMove
  <2>4. QED
    BY <1>4, <2>1, <2>2, <2>3 DEF Handle, Body
<1>5. ASSUME NEW t \in Thread, NEW c \in Calls, Recurse(t, c)
      PROVE  StackOf(v)'
  <2>1. CASE t = v
    BY <1>5, <2>1, StackRecurse
  <2>2. CASE t # v
    <3>1. /\ pc'[v] = pc[v] /\ ret'[v] = ret[v]
          /\ UNCHANGED <<tid, initialized, lock>>
      BY <1>5, <2>2 DEF Recurse, Goto, TypeOK, slots
    <3>2. \A f \in Frame : FrameInv(v, f) => FrameInv(v, f)'
      BY <3>1 DEF FrameInv, Claiming, Untouched
    <3>3. QED
      BY <1>1, <3>1, <3>2 DEF StackOf
  <2>3. QED
    BY <2>1, <2>2
<1>6. ASSUME NEW t \in Thread, NEW c \in Calls, Call(t, c)
      PROVE  StackOf(v)'
  <2>1. ret' = ret /\ UNCHANGED <<tid, initialized, lock>>
    BY <1>6 DEF Call, slots
  <2>2. pc'[v] = pc[v] \/ pc'[v] = "scan"
    BY <1>6 DEF Call, Goto, TypeOK
  <2>3. \A f \in Frame : FrameInv(v, f) => FrameInv(v, f)'
    BY <2>1 DEF FrameInv, Claiming, Untouched
  <2>4. "scan" \notin BodyPC
    BY DEF BodyPC
  <2>5. QED
    BY <1>1, <2>1, <2>2, <2>3, <2>4 DEF StackOf
<1>7. ASSUME \/ \E t \in Thread, u \in Thread : Spawn(t, u)
             \/ \E t \in Thread : Die(t)
             \/ UNCHANGED vars
      PROVE  StackOf(v)'
  <2>1. UNCHANGED <<pc, ret, tid, initialized, lock>>
    BY <1>7 DEF Spawn, Die, vars, slots
  <2>2. \A f \in Frame : FrameInv(v, f) => FrameInv(v, f)'
    BY <2>1 DEF FrameInv, Claiming, Untouched
  <2>3. QED
    BY <1>1, <2>1, <2>2 DEF StackOf
<1>8. QED
  BY <1>2, <1>3, <1>4, <1>5, <1>6, <1>7 DEF Next

-----------------------------------------------------------------------------
(* The flag insideMyself of a slot is set while its thread is in a handler. *)

(* A step of t that starts or ends no handler, and moves neither its slot *)
(* nor the flags.                                                         *)
LEMMA BodyKept ==
  ASSUME TypeOK, BodyInv, NEW t \in Thread,
         \A v \in Thread \ {t} : pc'[v] = pc[v] /\ ret'[v] = ret[v],
         InBody(t)' <=> InBody(t), UNCHANGED <<tts, insideMyself>>,
         \A v \in Thread, i \in Slot : tid[i] = v => tid'[i] = v,
         \A i \in Slot : initialized[i] => initialized'[i]
  PROVE  BodyInv'
<1>1. \A v \in Thread : InBody(v)' <=> InBody(v)
  BY DEF InBody, Reentering, Interrupted
<1>2. \A v \in Thread : tts[v] \in Slot
  BY DEF TypeOK
<1> HIDE DEF InBody
<1>3. ASSUME NEW v \in Thread, InBody(v)'
      PROVE  tid'[tts'[v]] = v /\ initialized'[tts'[v]] /\ insideMyself'[tts'[v]]
  BY <1>1, <1>2, <1>3 DEF BodyInv
<1>4. ASSUME NEW i \in Slot, insideMyself'[i]
      PROVE  \E v \in Thread : tid'[i] = v /\ InBody(v)' /\ tts'[v] = i
  <2>1. PICK v \in Thread : tid[i] = v /\ InBody(v) /\ tts[v] = i
    BY <1>4 DEF BodyInv
  <2>2. QED
    BY <1>1, <2>1
<1>5. QED
  BY <1>3, <1>4 DEF BodyInv

(* A return stays inside the handler that the call interrupted, if any. *)
LEMMA ReturnBody ==
  ASSUME TypeOK, StackInv, NEW t \in Thread, Return(t), pc[t] \notin BodyPC
  PROVE  InBody(t)' <=> InBody(t)
<1>1. CASE ret[t] = <<>> /\ pc' = [pc EXCEPT ![t] = "idle"] /\ UNCHANGED ret
  <2>1. pc'[t] \notin BodyPC
    BY <1>1 DEF TypeOK, BodyPC
  <2>2. QED
    BY <1>1, <2>1 DEF InBody, Reentering, Interrupted
<1>2. ASSUME NEW f \in Frame, pc' = [pc EXCEPT ![t] = f.pc],
             Interrupted(t) = {f.pc} \cup Interrupted(t)'
      PROVE  InBody(t)' <=> InBody(t)
  <2>1. pc'[t] = f.pc
    BY <1>2 DEF TypeOK
  <2>2. QED
    BY <1>2, <2>1 DEF InBody, Reentering
<1>3. QED
  BY <1>1, <1>2, Pop

(* A return from a handler leaves no other. *)
LEMMA ExitBody ==
  ASSUME TypeOK, StackInv, NEW t \in Thread, Return(t), pc[t] \in BodyPC
  PROVE  ~InBody(t)'
<1>1. CASE ret[t] = <<>> /\ pc' = [pc EXCEPT ![t] = "idle"] /\ UNCHANGED ret
  <2>1. pc'[t] \notin BodyPC
    BY <1>1 DEF TypeOK, BodyPC
  <2>2. DOMAIN ret'[t] = {}
    BY <1>1
  <2>3. Interrupted(t)' = {}
    BY <2>2 DEF Interrupted
  <2>4. QED
    BY <2>1, <2>3 DEF InBody, Reentering
<1>2. ASSUME NEW f \in Frame, pc' = [pc EXCEPT ![t] = f.pc],
             f.pc \in BodyPC => pc[t] \notin BodyPC,
             Interrupted(t)' = {} \/ f.pc # "claim"
      PROVE  ~InBody(t)'
  <2>1. pc'[t] = f.pc
    BY <1>2 DEF TypeOK
  <2>2. f.pc = "claim"
    BY <1>2 DEF Frame
  <2>3. QED
    BY <1>2, <2>1, <2>2, ClaimNoBody DEF InBody, Reentering
<1>3. QED
  BY <1>1, <1>2, Pop

LEMMA RecurseBody ==
  ASSUME TypeOK, StackInv, NEW t \in Thread, NEW c \in Calls, Recurse(t, c)
  PROVE  InBody(t)' <=> InBody(t)
<1>1. Interrupted(t)' = {pc[t]} \cup Interrupted(t)
  BY Push
<1>2. pc'[t] = "scan"
  BY DEF Recurse, Goto, TypeOK
<1>3. "scan" \notin BodyPC
  BY DEF BodyPC
<1>4. QED
  BY <1>1, <1>2, <1>3 DEF InBody, Reentering

LEMMA BodyStep ==
  TypeOK /\ SlotInv /\ StackInv /\ BodyInv /\ [Next]_vars => BodyInv'
<1> SUFFICES ASSUME TypeOK, SlotInv, StackInv, BodyInv, [Next]_vars
             PROVE  BodyInv'
  OBVIOUS
<1>1. ASSUME NEW t \in Thread, Lookup(t)
      PROVE  BodyInv'
  <2>1. /\ pc[t] \in ScanPC /\ pc'[t] \in ScanPC \cup {"got"}
        /\ \A v \in Thread \ {t} : pc'[v] = pc[v]
        /\ UNCHANGED <<ret, tts, insideMyself>>
    BY <1>1 DEF Lookup, ReadInitialized, CompareTid, AcquireLock,
       RecheckInitialized, StoreTid, StoreInitialized, ReleaseLock, NextSlot,
       At, Goto, ScanPC, TypeOK
  <2>2. InBody(t)' <=> InBody(t)
    <3>1. (ScanPC \cup {"got"}) \cap BodyPC = {}
      BY DEF ScanPC, BodyPC
    <3>2. QED
      BY <2>1, <3>1 DEF InBody, Reentering, Interrupted
  <2>3. \A v \in Thread, i \in Slot : tid[i] = v => tid'[i] = v
    <3>1. CASE StoreTid(t)
      <4>1. /\ scan[t] \in Slot /\ tid[scan[t]] = NoThread
            /\ tid' = [tid EXCEPT ![scan[t]] = t]
        BY <3>1 DEF StoreTid, At, TypeOK, SlotInv, ScanInv, Claiming
      <4>2. NoThread \notin Thread
        BY ThreadsAssumption DEF ThreadsAssumption
      <4>3. QED
        BY <4>1, <4>2 DEF TypeOK
    <3>2. CASE ~StoreTid(t)
      BY <1>1, <3>2 DEF Lookup, ReadInitialized, CompareTid, AcquireLock,
         RecheckInitialized, StoreInitialized, ReleaseLock, slots
    <3>3. QED
      BY <3>1, <3>2
  <2>4. \A i \in Slot : initialized[i] => initialized'[i]
    BY <1>1 DEF Lookup, ReadInitialized, CompareTid, AcquireLock,
       RecheckInitialized, StoreTid, StoreInitialized, ReleaseLock, slots, TypeOK
  <2>5. QED
    BY <2>1, <2>2, <2>3, <2>4, BodyKept
<1>2. ASSUME NEW t \in Thread, DataBufferReturn(t) \/ TracerLibSkip(t)
      PROVE  BodyInv'
  <2>1. /\ Return(t) /\ pc[t] = "got"
        /\ UNCHANGED <<tts, insideMyself, tid, initialized>>
    BY <1>2 DEF DataBufferReturn, TracerLibSkip, At, slots
  <2>2. InBody(t)' <=> InBody(t)
    BY <2>1, ReturnBody, ClaimNoBody
  <2>3. \A v \in Thread \ {t} : pc'[v] = pc[v] /\ ret'[v] = ret[v]
    BY <2>1 DEF Return, Goto, TypeOK
  <2>4. QED
    BY <2>1, <2>2, <2>3, BodyKept
<1>3. ASSUME NEW t \in Thread, TracerLibExit(t)
      PROVE  BodyInv'
  <2>1. /\ Return(t) /\ pc[t] \in BodyPC
        /\ insideMyself' = [insideMyself EXCEPT ![tts[t]] = FALSE]
        /\ UNCHANGED <<tts, tid, initialized>>
    BY <1>3 DEF TracerLibExit, At, BodyPC, slots
  <2>2. ~InBody(t)'
    BY <2>1, ExitBody
  <2>3. \A v \in Thread \ {t} : InBody(v)' <=> InBody(v)
    <3>1. \A v \in Thread \ {t} : pc'[v] = pc[v] /\ ret'[v] = ret[v]
      BY <2>1 DEF Return, Goto, TypeOK
    <3>2. QED
      BY <3>1 DEF InBody, Reentering, Interrupted
  <2>4. tid[tts[t]] = t
    BY <2>1 DEF BodyInv, InBody
  <2> HIDE DEF InBody
  <2>5. ASSUME NEW v \in Thread, InBody(v)'
        PROVE  /\ tid'[tts'[v]] = v /\ initialized'[tts'[v]]
               /\ insideMyself'[tts'[v]]
    <3>1. v # t /\ InBody(v)
      BY <2>2, <2>3, <2>5
    <3>2. tid[tts[v]] = v /\ initialized[tts[v]] /\ insideMyself[tts[v]]
      BY <3>1 DEF BodyInv
    <3>3. tts[v] # tts[t] /\ tts[v] \in Slot
      BY <2>4, <3>1, <3>2 DEF TypeOK
    <3>4. QED
      BY <2>1, <3>2, <3>3 DEF TypeOK
  <2>6. ASSUME NEW i \in Slot, insideMyself'[i]
        PROVE  \E v \in Thread : tid'[i] = v /\ InBody(v)' /\ tts'[v] = i
    <3>1. i # tts[t] /\ insideMyself[i]
      BY <2>1, <2>6 DEF TypeOK
    <3>2. PICK v \in Thread : tid[i] = v /\ InBody(v) /\ tts[v] = i
      BY <3>1 DEF BodyInv
    <3>3. v # t
      BY <3>1, <3>2
    <3>4. QED
      BY <2>1, <2>3, <3>2, <3>3
  <2>7. QED
    BY <2>5, <2>6 DEF BodyInv
<1>4. ASSUME NEW t \in Thread, TracerLibEnter(t)
      PROVE  BodyInv'
  <2>1. /\ pc[t] = "got" /\ scan[t] \in Slot /\ ~insideMyself[scan[t]]
        /\ pc'[t] \in BodyPC
        /\ insideMyself' = [insideMyself EXCEPT ![scan[t]] = TRUE]
        /\ tts' = [tts EXCEPT ![t] = scan[t]]
        /\ \A v \in Thread \ {t} : pc'[v] = pc[v]
        /\ UNCHANGED <<tid, initialized, ret>>
    BY <1>4 DEF TracerLibEnter, At, Goto, TypeOK, BodyPC, slots
  <2>2. tid[scan[t]] = t /\ initialized[scan[t]]
    BY <2>1 DEF SlotInv, ScanInv
  <2>3. \A v \in Thread \ {t} : InBody(v)' <=> InBody(v)
    BY <2>1 DEF InBody, Reentering, Interrupted
  <2>4. InBody(t)'
    BY <2>1 DEF InBody
  <2>5. ~InBody(t)
    BY <2>1, EnterFlag, ClaimNoBody DEF InBody
  <2> HIDE DEF InBody
  <2>6. ASSUME NEW v \in Thread, InBody(v)'
        PROVE  /\ tid'[tts'[v]] = v /\ initialized'[tts'[v]]
               /\ insideMyself'[tts'[v]]
    <3>1. CASE v = t
      BY <2>1, <2>2, <3>1 DEF TypeOK
    <3>2. CASE v # t
      <4>1. tid[tts[v]] = v /\ initialized[tts[v]] /\ insideMyself[tts[v]]
        BY <2>3, <2>6, <3>2 DEF BodyInv
      <4>2. tts[v] \in Slot /\ tts'[v] = tts[v]
        BY <2>1, <3>2 DEF TypeOK
      <4>3. QED
        BY <2>1, <4>1, <4>2 DEF TypeOK
    <3>3. QED
      BY <3>1, <3>2
  <2>7. ASSUME NEW i \in Slot, insideMyself'[i]
        PROVE  \E v \in Thread : tid'[i] = v /\ InBody(v)' /\ tts'[v] = i
    <3>1. CASE i = scan[t]
      BY <2>1, <2>2, <2>4, <3>1 DEF TypeOK
    <3>2. CASE i # scan[t]
      <4>1. insideMyself[i]
        BY <2>1, <2>7, <3>2 DEF TypeOK
      <4>2. PICK v \in Thread : tid[i] = v /\ InBody(v) /\ tts[v] = i
        BY <4>1 DEF BodyInv
      <4>3. v # t
        BY <2>5, <4>2
      <4>4. InBody(v)' /\ tts'[v] = tts[v]
        BY <2>1, <2>3, <4>2, <4>3 DEF TypeOK
      <4>5. QED
        BY <2>1, <4>2, <4>4
    <3>3. QED
      BY <3>1, <3>2
  <2>8. QED
    BY <2>6, <2>7 DEF BodyInv
<1>5. ASSUME NEW t \in Thread,
             \/ CheckInitialize(t) \/ LoadConfig(t) \/ SetInitialized(t)
             \/ SecondInitialize(t)
      PROVE  BodyInv'
  <2>1. /\ pc[t] \in BodyPC /\ pc'[t] \in BodyPC
        /\ \A v \in Thread \ {t} : pc'[v] = pc[v]
        /\ UNCHANGED <<ret, tts, insideMyself, tid, initialized>>
    BY <1>5 DEF CheckInitialize, LoadConfig, SetInitialized, SecondInitialize,
       At, Goto, BodyPC, TypeOK, slots
  <2>2. InBody(t)' <=> InBody(t)
    BY <2>1 DEF InBody
  <2>3. QED
    BY <2>1, <2>2, BodyKept
<1>6. ASSUME NEW t \in Thread, NEW c \in Calls, Recurse(t, c)
      PROVE  BodyInv'
  <2>1. /\ \A v \in Thread \ {t} : pc'[v] = pc[v] /\ ret'[v] = ret[v]
        /\ UNCHANGED <<tts, insideMyself, tid, initialized>>
    BY <1>6 DEF Recurse, Goto, TypeOK, slots
  <2>2. InBody(t)' <=> InBody(t)
    BY <1>6, RecurseBody
  <2>3. QED
    BY <2>1, <2>2, BodyKept
<1>7. ASSUME NEW t \in Thread,
             \/ \E c \in Calls : Call(t, c)
             \/ \E u \in Thread : Spawn(t, u)
             \/ Die(t)
      PROVE  BodyInv'
  <2>1. /\ pc[t] = "idle" /\ pc'[t] \in {"idle", "scan"}
        /\ \A v \in Thread \ {t} : pc'[v] = pc[v]
        /\ UNCHANGED <<ret, tts, insideMyself, tid, initialized>>
    BY <1>7 DEF Call, Spawn, Die, At, Goto, TypeOK, slots
  <2>2. {"idle", "scan"} \cap BodyPC = {}
    BY DEF BodyPC
  <2>3. InBody(t)' <=> InBody(t)
    BY <2>1, <2>2 DEF InBody, Reentering, Interrupted
  <2>4. QED
    BY <2>1, <2>3, BodyKept
<1>8. CASE UNCHANGED vars
  BY <1>8 DEF vars, slots, BodyInv, InBody, Reentering, Interrupted
<1>9. QED
  BY <1>1, <1>2, <1>3, <1>4, <1>5, <1>6, <1>7, <1>8 DEF Next, Handle, Body

-----------------------------------------------------------------------------
(* Before initialize() is done there is only the main thread. *)

LEMMA IdleOutside ==
  ASSUME TypeOK, StackInv, NEW t \in Thread, pc[t] = "idle"
  PROVE  ret[t] = <<>> /\ Interrupted(t) = {}
<1>1. "idle" \notin {"scan", "compare", "got"} \cup BodyPC
  BY DEF BodyPC
<1>2. QED
  BY <1>1, Shapes

LEMMA NoOtherHandler ==
  ASSUME TypeOK, StackInv, NEW t \in Thread, pc[t] \in BodyPC
  PROVE  ~Reentering(t)
<1>1. CASE Interrupted(t) = {}
  BY <1>1 DEF Reentering
<1>2. CASE Interrupted(t) = {"claim"}
  BY <1>2, ClaimNoBody DEF Reentering
<1>3. QED
  BY <1>1, <1>2, Shapes

(* A call dropped for recursion interrupts a handler of its thread. *)
LEMMA SkipFlag ==
  ASSUME TypeOK, SlotInv, BodyInv, NEW t \in Thread, pc[t] = "got",
         insideMyself[scan[t]]
  PROVE  Reentering(t)
<1>1. tid[scan[t]] = t /\ scan[t] \in Slot
  BY DEF TypeOK, SlotInv, ScanInv
<1>2. InBody(t)
  BY <1>1 DEF BodyInv
<1>3. QED
  BY <1>2, ClaimNoBody DEF InBody

(* The step of a thread leaves what the others do. *)
LEMMA OthersStay ==
  ASSUME NEW t \in Thread, NEW v \in Thread,
         pc'[v] = pc[v], ret'[v] = ret[v], call'[v] = call[v]
  PROVE  /\ Interrupted(v)' = Interrupted(v) /\ Places(v)' = Places(v)
         /\ Outermost(v)' = Outermost(v)
         /\ InterruptedCalls(v)' = InterruptedCalls(v)
         /\ Reentering(v)' = Reentering(v) /\ (InBody(v)' <=> InBody(v))
  BY DEF Interrupted, Places, Outermost, InterruptedCalls, Reentering, InBody

(* The labels that StartedByMain speaks of. *)
Starting == {"load", "setInit", "second", "work"}

(* A step within the runtime that enters no handler and moves no flag. *)
LEMMA StartMove ==
  ASSUME TypeOK, StackInv, StartedByMain, NEW t \in Thread, pc[t] # "idle",
         \A v \in Thread \ {t} : /\ pc'[v] = pc[v] /\ ret'[v] = ret[v]
                                 /\ call'[v] = call[v],
         pc'[t] # "idle", Places(t)' \cap Starting = Places(t) \cap Starting,
         Outermost(t)' = Outermost(t),
         InBody(t)' <=> InBody(t),
         ~tracerInitialized /\ hasSeenMain =>
           /\ call'[t] = "inst" => Reentering(t)'
           /\ "inst" \notin InterruptedCalls(t)',
         ~tracerInitialized /\ ~hasSeenMain => call'[t] = "dataBuffer",
         UNCHANGED <<alive, hasSeenMain, tracerInitialized, loads,
                     secondInitialized>>
  PROVE  StartedByMain'
<1>1. \A v \in Thread \ {t} : Places(v)' = Places(v)
  BY OthersStay
<1>2. t \in alive
  BY DEF StartedByMain
<1>3. \A v \in Thread \ alive : pc'[v] = "idle"
  BY <1>2 DEF StartedByMain
<1>4. ASSUME tracerInitialized
      PROVE  \A v \in Thread : Places(v)' \cap {"load", "setInit"} = {}
  BY <1>1, <1>4 DEF StartedByMain, Starting
<1>5. ASSUME ~tracerInitialized
      PROVE  t = Main
  BY <1>2, <1>5 DEF StartedByMain
<1>6. ASSUME ~tracerInitialized
      PROVE  /\ Places(Main)' \cap {"second", "work"} = {}
             /\ "setInit" \in Places(Main)' <=> "setInit" \in Places(Main)
  BY <1>5, <1>6 DEF StartedByMain, Starting
<1>7. QED
  BY <1>2, <1>3, <1>4, <1>5, <1>6 DEF StartedByMain

(* A return from the search for a slot, to the traced program or to the     *)
(* runtime code that the call interrupted.                                  *)
LEMMA StartReturn ==
  ASSUME TypeOK, StackInv, StartedByMain, NEW t \in Thread, pc[t] = "got",
         Return(t), call[t] # "dataBuffer" => Reentering(t),
         UNCHANGED <<alive, hasSeenMain, tracerInitialized, loads,
                     secondInitialized>>
  PROVE  StartedByMain'
<1>1. \A v \in Thread \ {t} : /\ pc'[v] = pc[v] /\ ret'[v] = ret[v]
                              /\ call'[v] = call[v]
  BY DEF Return, Goto, TypeOK
<1>2. InBody(t)' <=> InBody(t)
  BY ReturnBody, ClaimNoBody
<1>3. "got" \notin Starting
  BY DEF Starting
<1>4. CASE ret[t] = <<>> /\ pc' = [pc EXCEPT ![t] = "idle"] /\ UNCHANGED <<call, ret>>
  <2>1. DOMAIN ret[t] = {}
    BY <1>4
  <2>2. Interrupted(t) = {} /\ Interrupted(t)' = {}
    BY <1>4, <2>1 DEF Interrupted
  <2>3. ~Reentering(t) /\ pc'[t] = "idle"
    BY <1>4, <2>2 DEF Reentering, TypeOK
  <2>4. call[t] = "dataBuffer" /\ Outermost(t) = "dataBuffer"
    BY <1>4, <2>3 DEF Outermost
  <2>5. Places(t)' \cap Starting = {} /\ Places(t) \cap Starting = {}
    BY <1>3, <2>2, <2>3 DEF Places, Starting
  <2>6. t \in alive
    BY DEF StartedByMain
  <2>7. \A v \in Thread \ {t} : Places(v)' = Places(v)
    BY <1>1, OthersStay
  <2>8. ~InBody(t)'
    BY <2>2, <2>3 DEF InBody, Reentering, BodyPC
  <2>9. ASSUME tracerInitialized
        PROVE  \A v \in Thread : Places(v)' \cap {"load", "setInit"} = {}
    BY <2>5, <2>7, <2>9 DEF StartedByMain, Starting
  <2>10. ASSUME ~tracerInitialized
         PROVE  t = Main /\ ~hasSeenMain
    BY <2>4, <2>6, <2>10 DEF StartedByMain
  <2>11. \A v \in Thread \ alive : pc'[v] = "idle"
    BY <1>1, <2>6 DEF StartedByMain
  <2>12. \/ tracerInitialized
         \/ /\ Places(Main)' \cap {"second", "work"} = {}
            /\ "setInit" \notin Places(Main)' /\ "setInit" \notin Places(Main)
    BY <2>5, <2>10 DEF Starting
  <2>13. QED
    BY <1>4, <2>3, <2>8, <2>9, <2>10, <2>11, <2>12 DEF StartedByMain
<1>5. ASSUME NEW f \in Frame,
             pc' = [pc EXCEPT ![t] = f.pc], call' = [call EXCEPT ![t] = f.call],
             Interrupted(t) = {f.pc} \cup Interrupted(t)',
             InterruptedCalls(t) = {f.call} \cup InterruptedCalls(t)',
             Outermost(t)' = Outermost(t),
             \/ ret' = [ret EXCEPT ![t] = <<>>]
             \/ f.pc # "claim"
      PROVE  StartedByMain'
  <2>1. pc'[t] = f.pc /\ call'[t] = f.call
    BY <1>5 DEF TypeOK
  <2>2. pc'[t] # "idle"
    BY <2>1 DEF Frame, BodyPC
  <2>3. Places(t)' \cap Starting = Places(t) \cap Starting
    BY <1>3, <1>5, <2>1 DEF Places
  <2>4. ASSUME ~tracerInitialized, hasSeenMain
        PROVE  f.call # "inst" /\ "inst" \notin InterruptedCalls(t)'
    <3>1. t = Main
      BY <2>4 DEF StartedByMain
    <3>2. QED
      BY <1>5, <2>4, <3>1 DEF StartedByMain
  <2>5. ASSUME ~tracerInitialized, ~hasSeenMain
        PROVE  f.call = "dataBuffer"
    <3>1. t = Main
      BY <2>5 DEF StartedByMain
    <3>2. ~InBody(t) /\ Outermost(t) = "dataBuffer"
      BY <2>5, <3>1 DEF StartedByMain
    <3>3. f.pc \notin BodyPC
      BY <1>5, <3>2 DEF InBody, Reentering
    <3>4. ret'[t] = <<>>
      BY <1>5, <3>3 DEF Frame, TypeOK
    <3>5. Outermost(t)' = f.call
      BY <2>1, <3>4 DEF Outermost
    <3>6. QED
      BY <1>5, <3>2, <3>5
  <2>6. pc[t] # "idle"
    OBVIOUS
  <2>7. QED
    BY <1>1, <1>2, <1>5, <2>1, <2>2, <2>3, <2>4, <2>5, <2>6, StartMove
<1>6. QED
  BY <1>4, <1>5, Pop

LEMMA StartStep ==
  TypeOK /\ SlotInv /\ StackInv /\ BodyInv /\ StartedByMain /\ [Next]_vars
    => StartedByMain'
<1> SUFFICES ASSUME TypeOK, SlotInv, StackInv, BodyInv, StartedByMain,
                    [Next]_vars
             PROVE  StartedByMain'
  OBVIOUS
<1>1. Main \in Thread /\ Main \notin Early
  BY ThreadsAssumption DEF ThreadsAssumption
<1>2. ASSUME NEW t \in Thread, Lookup(t)
      PROVE  StartedByMain'
  <2>1. /\ pc[t] \in ScanPC /\ pc'[t] \in ScanPC \cup {"got"}
        /\ UNCHANGED <<ret, call, alive, hasSeenMain, tracerInitialized, loads,
                       secondInitialized>>
        /\ \A v \in Thread \ {t} : pc'[v] = pc[v]
    BY <1>2 DEF Lookup, ReadInitialized, CompareTid, AcquireLock,
       RecheckInitialized, StoreTid, StoreInitialized, ReleaseLock, NextSlot,
       At, Goto, ScanPC, TypeOK, program, config
  <2>2. /\ (ScanPC \cup {"got"}) \cap BodyPC = {}
        /\ "idle" \notin ScanPC \cup {"got"} /\ Starting \subseteq BodyPC
    BY DEF ScanPC, BodyPC, Starting
  <2>3. Interrupted(t)' = Interrupted(t) /\ Outermost(t)' = Outermost(t)
        /\ InterruptedCalls(t)' = InterruptedCalls(t)
    BY <2>1 DEF Interrupted, Outermost, InterruptedCalls
  <2>4. /\ InBody(t)' <=> InBody(t)
        /\ Reentering(t)' = Reentering(t)
        /\ Places(t)' \cap Starting = Places(t) \cap Starting
    BY <2>1, <2>2, <2>3 DEF InBody, Reentering, Places
  <2>5. ASSUME ~tracerInitialized
        PROVE  t = Main
    BY <2>1, <2>2, <2>5 DEF StartedByMain
  <2>6. /\ pc[t] # "idle" /\ pc'[t] # "idle"
        /\ ~tracerInitialized /\ hasSeenMain =>
             /\ call'[t] = "inst" => Reentering(t)'
             /\ "inst" \notin InterruptedCalls(t)'
        /\ ~tracerInitialized /\ ~hasSeenMain => call'[t] = "dataBuffer"
    BY <2>1, <2>2, <2>3, <2>4, <2>5 DEF StartedByMain
  <2>7. QED
    BY <2>1, <2>3, <2>4, <2>6, StartMove
<1>3. ASSUME NEW t \in Thread, NEW c \in Calls, Recurse(t, c)
      PROVE  StartedByMain'
  <2>1. /\ Interrupted(t)' = Places(t) /\ Outermost(t)' = Outermost(t)
        /\ InterruptedCalls(t)' = {call[t]} \cup InterruptedCalls(t)
    BY <1>3, Push DEF Places
  <2>2. /\ pc'[t] = "scan" /\ call'[t] = c
        /\ \A v \in Thread \ {t} : /\ pc'[v] = pc[v] /\ ret'[v] = ret[v]
                                   /\ call'[v] = call[v]
        /\ UNCHANGED <<alive, hasSeenMain, tracerInitialized, loads,
                       secondInitialized>>
        /\ hasSeenMain \/ c = "dataBuffer"
        /\ \/ pc[t] \in BodyPC
           \/ /\ pc[t] = "claim"
              /\ c = "inst" => secondInitialized[scan[t]] \/ t \in Early
    BY <1>3 DEF Recurse, Goto, TypeOK, program, config
  <2>3. "scan" \notin Starting /\ "scan" \notin BodyPC
    BY DEF Starting, BodyPC
  <2>4. Places(t)' \cap Starting = Places(t) \cap Starting
    BY <2>1, <2>2, <2>3 DEF Places
  <2>5. InBody(t)' <=> InBody(t)
    BY <1>3, RecurseBody
  <2>6. pc[t] # "idle"
    BY <2>2 DEF BodyPC
  <2>7. ASSUME ~tracerInitialized, hasSeenMain
        PROVE  /\ c = "inst" => Reentering(t)'
               /\ "inst" \notin InterruptedCalls(t)'
    <3>1. t = Main /\ scan[t] \in Slot /\ ~secondInitialized[scan[t]]
      BY <2>6, <2>7 DEF StartedByMain, TypeOK
    <3>2. ~Reentering(t)
      <4>1. CASE pc[t] \in BodyPC
        BY <4>1, NoOtherHandler
      <4>2. CASE pc[t] = "claim"
        <5>1. pc[t] \notin {"scan", "compare", "got"} \cup BodyPC
          BY <4>2, ClaimNoBody
        <5>2. Interrupted(t) = {}
          BY <5>1, Shapes
        <5>3. QED
          BY <5>2 DEF Reentering
      <4>3. QED
        BY <2>2, <4>1, <4>2
    <3>3. call[t] # "inst" /\ "inst" \notin InterruptedCalls(t)
      BY <2>7, <3>1, <3>2 DEF StartedByMain
    <3>4. c = "inst" => pc[t] \in BodyPC
      BY <1>1, <2>2, <3>1
    <3>5. pc[t] \in Interrupted(t)'
      BY <2>1 DEF Places
    <3>6. QED
      BY <2>1, <3>3, <3>4, <3>5 DEF Reentering
  <2>8. ASSUME ~tracerInitialized, ~hasSeenMain
        PROVE  c = "dataBuffer"
    BY <2>2, <2>8
  <2>9. pc'[t] # "idle"
    BY <2>2
  <2>10. QED
    BY <2>1, <2>2, <2>4, <2>5, <2>6, <2>7, <2>8, <2>9, StartMove
<1>4. ASSUME NEW t \in Thread, DataBufferReturn(t) \/ TracerLibSkip(t)
      PROVE  StartedByMain'
  <2>1. /\ pc[t] = "got" /\ Return(t)
        /\ UNCHANGED <<alive, hasSeenMain, tracerInitialized, loads,
                       secondInitialized>>
        /\ call[t] # "dataBuffer" => insideMyself[scan[t]]
    BY <1>4 DEF DataBufferReturn, TracerLibSkip, At, program, config
  <2>2. call[t] # "dataBuffer" => Reentering(t)
    BY <2>1, SkipFlag
  <2>3. QED
    BY <2>1, <2>2, StartReturn
<1>5. ASSUME NEW t \in Thread, TracerLibEnter(t)
      PROVE  StartedByMain'
  <2>1. /\ pc[t] = "got" /\ ~insideMyself[scan[t]] /\ call[t] # "dataBuffer"
        /\ pc'[t] = IF call[t] = "inst" THEN "work" ELSE "checkInit"
        /\ \A v \in Thread \ {t} : /\ pc'[v] = pc[v] /\ ret'[v] = ret[v]
                                   /\ call'[v] = call[v]
        /\ UNCHANGED <<ret, call, alive, hasSeenMain, tracerInitialized, loads,
                       secondInitialized>>
    BY <1>5 DEF TracerLibEnter, At, Goto, TypeOK, program, config
  <2>2. ~Reentering(t)
    BY <2>1, EnterFlag
  <2>3. /\ Interrupted(t)' = Interrupted(t) /\ Outermost(t)' = Outermost(t)
        /\ Reentering(t)' = Reentering(t)
        /\ InterruptedCalls(t)' = InterruptedCalls(t)
    BY <2>1 DEF Interrupted, Outermost, InterruptedCalls, Reentering
  <2>4. \A v \in Thread \ {t} : Places(v)' = Places(v)
    BY <2>1, OthersStay
  <2>5. t \in alive
    BY <2>1 DEF StartedByMain
  <2>6. ASSUME ~tracerInitialized
        PROVE  /\ t = Main /\ hasSeenMain /\ pc'[t] = "checkInit"
               /\ Places(t)' \cap {"second", "work"} = {}
               /\ "setInit" \in Places(t)' <=> "setInit" \in Places(t)
    <3>1. t = Main
      BY <2>5, <2>6 DEF StartedByMain
    <3>2. hasSeenMain
      BY <2>1, <2>6, <3>1 DEF StartedByMain
    <3>3. pc'[t] = "checkInit"
      BY <2>1, <2>2, <2>6, <3>1, <3>2 DEF StartedByMain
    <3>4. Places(t) \cap {"second", "work"} = {}
      BY <2>6, <3>1 DEF StartedByMain
    <3>5. QED
      BY <2>1, <2>3, <3>1, <3>2, <3>3, <3>4 DEF Places
  <2>7. ASSUME tracerInitialized
        PROVE  \A v \in Thread : Places(v)' \cap {"load", "setInit"} = {}
    <3>1. Places(t) \cap {"load", "setInit"} = {}
      BY <2>7 DEF StartedByMain
    <3>2. Places(t)' \cap {"load", "setInit"} = {}
      BY <2>1, <2>3, <3>1 DEF Places
    <3>3. QED
      BY <2>4, <2>7, <3>2 DEF StartedByMain
  <2>8. \A v \in Thread \ alive : pc'[v] = "idle"
    BY <2>1, <2>5 DEF StartedByMain
  <2>9. tracerInitialized => loads > 0
    BY DEF StartedByMain
  <2>10. CASE tracerInitialized
    BY <2>1, <2>7, <2>8, <2>9, <2>10 DEF StartedByMain
  <2>11. CASE ~tracerInitialized
    <3>1. pc'[t] # "idle"
      BY <2>6, <2>11
    <3>2. QED
      BY <2>1, <2>3, <2>6, <2>8, <2>11, <3>1 DEF StartedByMain
  <2>12. QED
    BY <2>10, <2>11
<1>6. ASSUME NEW t \in Thread,
             \/ CheckInitialize(t) \/ LoadConfig(t) \/ SetInitialized(t)
             \/ SecondInitialize(t)
      PROVE  StartedByMain'
  <2>1. /\ pc[t] \in BodyPC /\ pc'[t] \in BodyPC
        /\ \A v \in Thread \ {t} : /\ pc'[v] = pc[v] /\ ret'[v] = ret[v]
                                   /\ call'[v] = call[v]
        /\ UNCHANGED <<ret, call, alive, hasSeenMain>>
    BY <1>6 DEF CheckInitialize, LoadConfig, SetInitialized, SecondInitialize,
       At, Goto, BodyPC, TypeOK, program
  <2>2. /\ t \in alive /\ pc[t] # "idle" /\ pc'[t] # "idle"
    BY <2>1 DEF StartedByMain, BodyPC
  <2>3. Interrupted(t) \cap BodyPC = {}
    BY <2>1, NoOtherHandler DEF Reentering
  <2>4. /\ Places(t) = {pc[t]} \cup Interrupted(t)
        /\ Places(t)' = {pc'[t]} \cup Interrupted(t)
        /\ Outermost(t)' = Outermost(t) /\ Reentering(t)' = Reentering(t)
        /\ InterruptedCalls(t)' = InterruptedCalls(t)
        /\ InBody(t)
    BY <2>1 DEF Places, Interrupted, Outermost, Reentering, InterruptedCalls, InBody
  <2>5. \A v \in Thread \ {t} : Places(v)' = Places(v)
    BY <2>1, OthersStay
  <2>6. \A v \in Thread \ alive : pc'[v] = "idle"
    BY <2>1, <2>2 DEF StartedByMain
  <2>7. ASSUME ~tracerInitialized
        PROVE  t = Main /\ hasSeenMain
    BY <2>2, <2>4, <2>7 DEF StartedByMain
  <2>8. CASE CheckInitialize(t)
    <3>1. /\ pc[t] = "checkInit"
          /\ pc'[t] = IF tracerInitialized THEN "second" ELSE "load"
          /\ UNCHANGED <<tracerInitialized, loads, secondInitialized>>
      BY <2>8 DEF CheckInitialize, At, Goto, TypeOK, config
    <3>2. CASE tracerInitialized
      <4>1. Places(t)' \cap {"load", "setInit"} = {}
        BY <2>3, <2>4, <3>1, <3>2 DEF BodyPC
      <4>2. \A v \in Thread : Places(v)' \cap {"load", "setInit"} = {}
        BY <2>5, <3>2, <4>1 DEF StartedByMain
      <4>3. QED
        BY <2>1, <2>6, <3>1, <3>2, <4>2 DEF StartedByMain
    <3>3. CASE ~tracerInitialized
      <4>1. /\ Places(t)' \cap {"second", "work"} = {}
            /\ "setInit" \notin Places(t)' /\ "setInit" \notin Places(t)
        BY <2>3, <2>4, <3>1, <3>3 DEF BodyPC
      <4>2. QED
        BY <2>1, <2>2, <2>4, <2>6, <2>7, <3>1, <3>3, <4>1 DEF StartedByMain
    <3>4. QED
      BY <3>2, <3>3
  <2>9. CASE LoadConfig(t)
    <3>1. /\ pc[t] = "load" /\ pc'[t] = "setInit" /\ loads' = loads + 1
          /\ UNCHANGED <<tracerInitialized, secondInitialized>>
      BY <2>9 DEF LoadConfig, At, Goto, TypeOK
    <3>2. ~tracerInitialized
      BY <2>4, <3>1 DEF StartedByMain
    <3>3. /\ Places(t)' \cap {"second", "work"} = {}
          /\ "setInit" \in Places(t)' /\ "setInit" \notin Places(t)
      BY <2>3, <2>4, <3>1 DEF BodyPC
    <3>4. loads = 0
      BY <2>7, <3>2, <3>3 DEF StartedByMain
    <3>5. loads' = 1
      BY <3>1, <3>4
    <3>6. QED
      BY <2>1, <2>2, <2>4, <2>6, <2>7, <3>1, <3>2, <3>3, <3>5 DEF StartedByMain
  <2>10. CASE SetInitialized(t)
    <3>1. /\ pc[t] = "setInit" /\ pc'[t] = "second" /\ tracerInitialized'
          /\ UNCHANGED <<loads, secondInitialized>>
      BY <2>10 DEF SetInitialized, At, Goto, TypeOK
    <3>2. ~tracerInitialized
      BY <2>4, <3>1 DEF StartedByMain
    <3>3. loads = 1
      BY <2>4, <2>7, <3>1, <3>2 DEF StartedByMain
    <3>4. Places(t)' \cap {"load", "setInit"} = {}
      BY <2>3, <2>4, <3>1 DEF BodyPC
    <3>5. ASSUME NEW v \in Thread, v # t
          PROVE  Places(v)' \cap {"load", "setInit"} = {}
      <4>1. pc[v] = "idle"
        BY <2>7, <3>2, <3>5 DEF StartedByMain
      <4>2. Places(v) = {"idle"}
        BY <4>1, IdleOutside DEF Places
      <4>3. QED
        BY <2>5, <3>5, <4>2
    <3>6. loads' > 0
      BY <3>1, <3>3
    <3>7. QED
      BY <2>1, <2>6, <3>1, <3>4, <3>5, <3>6 DEF StartedByMain
  <2>11. CASE SecondInitialize(t)
    <3>1. /\ pc[t] = "second" /\ pc'[t] = "work"
          /\ UNCHANGED <<tracerInitialized, loads>>
      BY <2>11 DEF SecondInitialize, At, Goto, TypeOK, config
    <3>2. tracerInitialized
      BY <2>4, <2>7, <3>1 DEF StartedByMain
    <3>3. Places(t)' \cap {"load", "setInit"} = {}
      BY <2>3, <2>4, <3>1 DEF BodyPC
    <3>4. \A v \in Thread : Places(v)' \cap {"load", "setInit"} = {}
      BY <2>5, <3>2, <3>3 DEF StartedByMain
    <3>5. QED
      BY <2>1, <2>6, <3>1, <3>2, <3>4 DEF StartedByMain
  <2>12. QED
    BY <1>6, <2>8, <2>9, <2>10, <2>11
<1>7. ASSUME NEW t \in Thread, TracerLibExit(t)
      PROVE  StartedByMain'
  <2>1. /\ pc[t] = "work" /\ Return(t)
        /\ UNCHANGED <<alive, hasSeenMain, tracerInitialized, loads,
                       secondInitialized>>
    BY <1>7 DEF TracerLibExit, At, program, config
  <2>2. t \in alive /\ "work" \in Places(t)
    BY <2>1 DEF StartedByMain, Places
  <2>3. tracerInitialized
    BY <2>2 DEF StartedByMain
  <2>4. \A v \in Thread \ {t} : /\ pc'[v] = pc[v] /\ ret'[v] = ret[v]
                                /\ call'[v] = call[v]
    BY <2>1 DEF Return, Goto, TypeOK
  <2>5. Places(t)' \cap {"load", "setInit"} = {}
    <3>1. Places(t) \cap {"load", "setInit"} = {}
      BY <2>3 DEF StartedByMain
    <3>2. CASE /\ ret[t] = <<>> /\ pc' = [pc EXCEPT ![t] = "idle"] /\ UNCHANGED ret
      <4>1. Interrupted(t)' = Interrupted(t) /\ pc'[t] = "idle"
        BY <3>2 DEF Interrupted, TypeOK
      <4>2. QED
        BY <3>1, <4>1 DEF Places
    <3>3. ASSUME NEW f \in Frame, pc' = [pc EXCEPT ![t] = f.pc],
                 Interrupted(t) = {f.pc} \cup Interrupted(t)'
          PROVE  Places(t)' \cap {"load", "setInit"} = {}
      <4>1. pc'[t] = f.pc
        BY <3>3 DEF TypeOK
      <4>2. QED
        BY <3>1, <3>3, <4>1 DEF Places
    <3>4. QED
      BY <2>1, <3>2, <3>3, Pop
  <2>6. \A v \in Thread : Places(v)' \cap {"load", "setInit"} = {}
    <3>1. \A v \in Thread \ {t} : Places(v)' = Places(v)
      BY <2>4, OthersStay
    <3>2. QED
      BY <2>3, <2>5, <3>1 DEF StartedByMain
  <2>7. \A v \in Thread \ alive : pc'[v] = "idle"
    BY <2>2, <2>4 DEF StartedByMain
  <2>8. QED
    BY <2>1, <2>3, <2>6, <2>7 DEF StartedByMain
<1>8. ASSUME NEW t \in Thread, NEW c \in Calls, Call(t, c)
      PROVE  StartedByMain'
  <2>1. /\ pc[t] = "idle" /\ t \in alive /\ pc'[t] = "scan" /\ call'[t] = c
        /\ c = "main" => t = Main /\ ~hasSeenMain
        /\ hasSeenMain' = (hasSeenMain \/ c = "main")
        /\ hasSeenMain' \/ c = "dataBuffer"
        /\ \A v \in Thread \ {t} : /\ pc'[v] = pc[v] /\ ret'[v] = ret[v]
                                   /\ call'[v] = call[v]
        /\ UNCHANGED <<ret, alive, tracerInitialized, loads, secondInitialized>>
    BY <1>8 DEF Call, At, Goto, TypeOK, config
  <2>2. ret[t] = <<>> /\ Interrupted(t) = {}
    BY <2>1, IdleOutside
  <2>3. DOMAIN ret[t] = {}
    BY <2>2
  <2>4. /\ Interrupted(t)' = {} /\ InterruptedCalls(t)' = {}
        /\ Outermost(t)' = c
    BY <2>1, <2>2, <2>3 DEF Interrupted, InterruptedCalls, Outermost
  <2>5. Places(t)' = {"scan"} /\ Places(t) = {"idle"} /\ ~InBody(t)'
    BY <2>1, <2>2, <2>4 DEF Places, InBody, Reentering, BodyPC
  <2>6. \A v \in Thread \ {t} : Places(v)' = Places(v)
    BY <2>1, OthersStay
  <2>7. \A v \in Thread \ alive : pc'[v] = "idle"
    BY <2>1 DEF StartedByMain
  <2>8. CASE tracerInitialized
    <3>1. \A v \in Thread : Places(v)' \cap {"load", "setInit"} = {}
      BY <2>5, <2>6, <2>8 DEF StartedByMain
    <3>2. QED
      BY <2>1, <2>7, <2>8, <3>1 DEF StartedByMain
  <2>9. CASE ~tracerInitialized
    <3>1. t = Main /\ ~hasSeenMain
      BY <2>1, <2>9 DEF StartedByMain
    <3>2. loads = 0
      BY <2>5, <2>9, <3>1 DEF StartedByMain
    <3>3. c = "main" \/ c = "dataBuffer"
      BY <2>1, <3>1
    <3>4. QED
      BY <2>1, <2>4, <2>5, <2>7, <2>9, <3>1, <3>2, <3>3 DEF StartedByMain
  <2>10. QED
    BY <2>8, <2>9
<1>9. ASSUME NEW t \in Thread,
             (\E u \in Thread : Spawn(t, u)) \/ Die(t)
      PROVE  StartedByMain'
  <2>1. /\ tracerInitialized
        /\ pc[t] = "idle" /\ alive' \subseteq Thread
        /\ \A v \in Thread : v \in alive /\ v # t => v \in alive'
        /\ UNCHANGED <<pc, ret, call, hasSeenMain, tracerInitialized, loads,
                       secondInitialized>>
    <3>1. CASE Die(t)
      BY <3>1 DEF Die, At, config, TypeOK, StartedByMain
    <3>2. CASE \E u \in Thread : Spawn(t, u)
      BY <1>1, <3>2 DEF Spawn, At, config, TypeOK, StartedByMain
    <3>3. QED
      BY <1>9, <3>1, <3>2
  <2>2. \A v \in Thread : Places(v)' = Places(v)
    BY <2>1, OthersStay
  <2>3. QED
    BY <2>1, <2>2 DEF StartedByMain
<1>10. CASE UNCHANGED vars
  <2>1. \A v \in Thread : /\ Places(v)' = Places(v) /\ Outermost(v)' = Outermost(v)
                          /\ InterruptedCalls(v)' = InterruptedCalls(v)
                          /\ Reentering(v)' = Reentering(v)
                          /\ (InBody(v)' <=> InBody(v))
    BY <1>10, OthersStay DEF vars
  <2>2. QED
    BY <1>1, <1>10, <2>1 DEF vars, program, config, StartedByMain
<1>11. QED
  BY <1>2, <1>3, <1>4, <1>5, <1>6, <1>7, <1>8, <1>9, <1>10
     DEF Next, Handle, Body

-----------------------------------------------------------------------------
LEMMA InitInv == Init => IInv
<1> SUFFICES ASSUME Init PROVE IInv
  OBVIOUS
<1>1. TypeOK
  BY TypeInit
<1>2. SlotInv
  BY DEF Init, SlotInv, LockInv, SettledInv, OrderInv, UniqueInv, ScanInv,
         Untouched, ScanPC
<1>3. StackInv
  BY DEF Init, StackInv, StackOf
<1>4. \A t \in Thread : Places(t) = {"idle"} /\ ~InBody(t)
  <2> SUFFICES ASSUME NEW t \in Thread
               PROVE  Places(t) = {"idle"} /\ ~InBody(t)
    OBVIOUS
  <2>1. pc[t] = "idle" /\ ret[t] = <<>>
    BY DEF Init
  <2>2. DOMAIN ret[t] = {}
    BY <2>1
  <2>3. Interrupted(t) = {}
    BY <2>2 DEF Interrupted
  <2>4. QED
    BY <2>1, <2>3 DEF Places, InBody, Reentering, BodyPC
<1>5. BodyInv
  BY <1>4 DEF Init, BodyInv
<1>6. StartInv
  BY <1>4, ThreadsAssumption DEF ThreadsAssumption, Init, StartInv,
     StartedByMain
<1>7. QED
  BY <1>1, <1>2, <1>3, <1>5, <1>6 DEF IInv

(* The inductive invariant: the words of a slot agree outside the critical  *)
(* section, slots are claimed in order and once per thread, a recursive     *)
(* call finds the slot of its thread without the lock, and the flag         *)
(* insideMyself of a slot is set while its thread is in a handler.          *)
THEOREM Invariance == Spec => []IInv
<1>1. IInv /\ [Next]_vars => IInv'
  BY TypeStep, SlotStep, StackStep, BodyStep, StartStep DEF IInv, StartInv
<1>2. QED
  BY InitInv, <1>1, PTL DEF Spec

(* The variables of every reachable state have their types. *)
THEOREM TypeCorrect == Spec => []TypeOK
<1>1. IInv => TypeOK
  BY DEF IInv
<1>2. QED
  BY <1>1, Invariance, PTL

(* For any number of threads and slots, no two threads run a handler on the *)
(* same slot, which is why the slots are accessed without a lock.           *)
THEOREM SlotsPrivate == Spec => []BodiesDisjoint
<1>1. IInv => BodiesDisjoint
  BY DEF IInv, BodyInv, BodiesDisjoint
<1>2. QED
  BY <1>1, Invariance, PTL

(* Library calls of a handler are never traced: they find the flag set, also *)
(* when the handler was itself called from within the claim of the slot,     *)
(* whose library calls, made with the flag clear, are traced.                *)
THEOREM NeverReentered == Spec => []NoReentry
<1>1. IInv => NoReentry
  BY NoOtherHandler DEF IInv, NoReentry
<1>2. QED
  BY <1>1, Invariance, PTL

(* No call of the traced program, or of a claim, is mistaken for a recursive *)
(* call of a handler.                                                        *)
THEOREM CallsKept == Spec => []NoLostCall
<1>1. IInv => NoLostCall
  BY SkipFlag DEF IInv, NoLostCall
<1>2. QED
  BY <1>1, Invariance, PTL

(* When no thread precedes main(), for any number of threads started later, *)
(* the instruction map is parsed once and before a handler looks it up.     *)
THEOREM StartUpOnce == ASSUME Early = {} PROVE Spec => []StartUpOrdered
<1>1. IInv => StartUpOrdered
  <2> SUFFICES ASSUME IInv PROVE StartUpOrdered
    OBVIOUS
  <2>1. StartedByMain /\ TypeOK /\ StackInv
    BY DEF IInv, StartInv
  <2>2. \A t \in Thread : pc[t] \in Places(t)
    BY DEF Places
  <2>3. ParsesEmptyMap
    <3> SUFFICES ASSUME NEW t \in Thread, pc[t] = "load"
                 PROVE  loads = 0
      BY DEF ParsesEmptyMap
    <3>1. ~tracerInitialized
      BY <2>1, <2>2 DEF StartedByMain
    <3>2. t = Main
      BY <2>1, <3>1 DEF StartedByMain
    <3>3. Interrupted(t) \cap BodyPC = {}
      BY <2>1, NoOtherHandler DEF BodyPC, Reentering
    <3>4. "setInit" \notin Places(t)
      BY <3>3 DEF Places, BodyPC
    <3>5. QED
      BY <2>1, <3>1, <3>2, <3>4 DEF StartedByMain
  <2>4. DescriptorsReady
    <3> SUFFICES ASSUME NEW t \in Thread, pc[t] = "work"
                 PROVE  loads > 0
      BY DEF DescriptorsReady
    <3>1. tracerInitialized
      BY <2>1, <2>2 DEF StartedByMain
    <3>2. QED
      BY <2>1, <3>1 DEF StartedByMain
  <2>5. QED
    BY <2>3, <2>4 DEF StartUpOrdered
<1>2. QED
  BY <1>1, Invariance, PTL

(* The lock-free scan and the locked recheck implement the arrival-order    *)
(* assignment of slots of ThreadSlots.                                      *)
THEOREM Refinement == Spec => RefinesSlots
<1>1. Init => Slots!Init
  BY DEF Init, Slots!Init, Slot, Slots!Slot
<1>2. IInv /\ [Next]_vars => [Slots!Next]_tid
  <2> SUFFICES ASSUME IInv, [Next]_vars, tid' # tid
               PROVE  Slots!Next
    OBVIOUS
  <2>1. PICK t \in Thread : StoreTid(t)
    <3>1. ASSUME NEW t \in Thread, Handle(t)
          PROVE  UNCHANGED tid
      BY <3>1 DEF Handle, Body, DataBufferReturn, TracerLibSkip,
         TracerLibEnter, CheckInitialize, LoadConfig, SetInitialized,
         SecondInitialize, TracerLibExit, slots
    <3>2. ASSUME NEW t \in Thread, Lookup(t), ~StoreTid(t)
          PROVE  UNCHANGED tid
      BY <3>2 DEF Lookup, ReadInitialized, CompareTid, AcquireLock,
         RecheckInitialized, StoreInitialized, ReleaseLock, slots
    <3>3. ASSUME NEW t \in Thread,
                 \/ \E c \in Calls : Call(t, c) \/ Recurse(t, c)
                 \/ \E u \in Thread : Spawn(t, u)
                 \/ Die(t)
          PROVE  UNCHANGED tid
      BY <3>3 DEF Call, Recurse, Spawn, Die, slots
    <3>4. CASE UNCHANGED vars
      BY <3>4 DEF vars, slots
    <3>5. QED
      BY <3>1, <3>2, <3>3, <3>4 DEF Next
  <2>2. /\ scan[t] \in Slot /\ pc[t] = "claim" /\ tid[scan[t]] # t
        /\ tid' = [tid EXCEPT ![scan[t]] = t]
    BY <2>1 DEF StoreTid, At, IInv, TypeOK
  <2>3. \A j \in Slot : j < scan[t] => tid[j] # t /\ tid[j] # NoThread
    BY <2>2 DEF IInv, SlotInv, ScanInv, Claiming, ScanPC
  <2>4. \A j \in Slot : j > scan[t] => tid[j] = NoThread
    BY <2>2 DEF IInv, SlotInv, ScanInv, Claiming, Untouched
  <2>5. tid[scan[t]] = NoThread
    BY <2>2 DEF IInv, SlotInv, ScanInv, Claiming
  <2>6. \A j \in Slot : tid[j] # t
    <3>1. \A j \in Slot : j < scan[t] \/ j = scan[t] \/ j > scan[t]
      BY <2>2, ThreadsAssumption DEF ThreadsAssumption, Slot
    <3>2. QED
      BY <2>2, <2>3, <2>4, <3>1, ThreadsAssumption DEF ThreadsAssumption
  <2>7. Slots!Claim(t, scan[t])
    BY <2>2, <2>3, <2>5, <2>6 DEF Slots!Claim, Slots!Slot, Slot
  <2>8. QED
    BY <2>2, <2>7 DEF Slots!Next, Slots!Slot, Slot
<1>3. QED
  BY <1>1, <1>2, Invariance, PTL DEF Spec, Slots!Spec, RefinesSlots

=============================================================================
