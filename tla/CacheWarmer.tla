---------------------------- MODULE CacheWarmer ----------------------------
(***************************************************************************)
(* The cache warmer (CacheWarmer.cpp) is shown the memory accesses of a    *)
(* pass and collects the memory that the simulator starts from.            *)
(***************************************************************************)
EXTENDS TraceReader

VARIABLE snapshot       \* InitialMemorySnapshot: which store wrote each byte

WarmerInit == snapshot = [a \in Address |-> NoValue]

(* Mutant: a later load replaces the byte. *)
AddAccess_Latest(d) ==
  snapshot' = IF Code[d.inst].op = "load"
              THEN [a \in Address |-> IF a \in Bytes(d.access) THEN d.bytes[a] ELSE snapshot[a]]
              ELSE snapshot

(* addAccess: the first byte loaded from an address was there initially.    *)
AddAccess(d) ==
  snapshot' = IF Code[d.inst].op = "load"
              THEN [a \in Address |-> IF a \in Bytes(d.access) /\ snapshot[a] = NoValue
                                      THEN d.bytes[a] ELSE snapshot[a]]
              ELSE snapshot

=============================================================================
