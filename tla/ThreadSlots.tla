---------------------------- MODULE ThreadSlots ----------------------------
(***************************************************************************)
(* What getOrInitializeThreadState() promises the rest of the tracer: the  *)
(* N slots of threadStates are handed out in order of arrival, each to one *)
(* thread, and stay with that thread until the process ends.  Everything   *)
(* else in the tracer accesses its slot without a lock on the strength of  *)
(* this promise.                                                           *)
(***************************************************************************)
EXTENDS Integers

CONSTANTS Thread,      \* threads that may run instrumented code
          N,           \* MaxNThreads, the length of threadStates
          NoThread     \* the tid of a slot nobody has claimed

Slot == 0 .. N - 1

VARIABLE owner         \* the thread each slot belongs to

Init == owner = [i \in Slot |-> NoThread]

(* A thread without a slot takes the lowest one that is free. *)
Claim(t, i) ==
  /\ \A j \in Slot : owner[j] # t
  /\ owner[i] = NoThread
  /\ \A j \in Slot : j < i => owner[j] # NoThread
  /\ owner' = [owner EXCEPT ![i] = t]

Next == \E t \in Thread, i \in Slot : Claim(t, i)

Spec == Init /\ [][Next]_owner

=============================================================================
