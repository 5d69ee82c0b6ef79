-------------------------- MODULE MCTracerThreads --------------------------
(* Instances of TracerThreads for TLC: the threads are model values. *)
EXTENDS TracerThreads

CONSTANTS main, t1, t2, NoTid

MCThread2 == {main, t1}
MCThread3 == {main, t1, t2}
MCEarly   == {t1}

=============================================================================
