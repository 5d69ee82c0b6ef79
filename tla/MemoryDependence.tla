-------------------------- MODULE MemoryDependence --------------------------
(***************************************************************************)
(* Who accessed a byte last: AddrToMemAccessMap and                        *)
(* MemoryDependenceComputer (DataGraph.h:25-90, DataGraph.cpp:22-82).      *)
(*                                                                         *)
(* A map remembers the last access to an address and forgets it after      *)
(* LogThreshold further updates; the log says in which order to forget.    *)
(***************************************************************************)
EXTENDS Integers, Sequences

CONSTANTS Address, LogThreshold

ASSUME AddressAssumption ==
  Address \subseteq Nat /\ LogThreshold \in Nat \ {0}

InvalidId == 0

AccessMap == [log : Seq([addr : Address, id : Nat \ {InvalidId}]),
              map : [Address -> Nat]]

(* An address that is not in the map maps to InvalidId. *)
EmptyMap == [log |-> <<>>, map |-> [a \in Address |-> InvalidId]]

GetLastAccess(m, a) == m.map[a]

(* Mutant: the newer access of the address is erased with the old entry. *)
Release_Always(m) ==
  IF Len(m.log) > LogThreshold
  THEN [log |-> Tail(m.log),
        map |-> [m.map EXCEPT ![Head(m.log).addr] = InvalidId]]
  ELSE m

(* One round of the loop is enough: the log has grown by one entry.         *)
Release(m) ==
  IF Len(m.log) > LogThreshold
  THEN LET oldest == Head(m.log) IN
       [log |-> Tail(m.log),
        map |-> IF m.map[oldest.addr] = oldest.id
                THEN [m.map EXCEPT ![oldest.addr] = InvalidId]
                ELSE m.map]
  ELSE m

Update(m, a, id) ==
  Release([log |-> Append(m.log, [addr |-> a, id |-> id]),
           map |-> [m.map EXCEPT ![a] = id]])

Bytes(access) == access.addr .. access.addr + access.size - 1

(* Mutant: only the first byte of the access is entered. *)
UpdateBytes_FirstByte(m, access, id) ==
  IF access.size = 0 THEN m ELSE Update(m, access.addr, id)

UpdateBytes(m, access, id) ==
  LET Updated[i \in 0 .. access.size] ==
        IF i = 0 THEN m ELSE Update(Updated[i - 1], access.addr + i - 1, id)
  IN  Updated[access.size]

(* A load depends on stores (RAW), a store on stores and loads (WAW, WAR). *)
GetMemoryDependence(loads, stores, access, isLoad) ==
  ({GetLastAccess(stores, a) : a \in Bytes(access)}
     \cup (IF isLoad THEN {} ELSE {GetLastAccess(loads, a) : a \in Bytes(access)}))
  \ {InvalidId}

-----------------------------------------------------------------------------
(* id is the newest entry of the log for address a. *)
Newest(log, a, id) ==
  \E k \in DOMAIN log :
    /\ log[k] = [addr |-> a, id |-> id]
    /\ \A j \in DOMAIN log : log[j].addr = a => j <= k

(* The accesses to an address are in the log in the order of their ids.     *)
InOrder(log) ==
  \A j, k \in DOMAIN log : j < k /\ log[j].addr = log[k].addr => log[j].id < log[k].id

(* The log is within its threshold, and the map is its index: it holds the  *)
(* newest entry of each address and nothing else.  "This address has       *)
(* already been released" (DataGraph.cpp:45-46) can then not happen.       *)
Indexed(m) ==
  /\ Len(m.log) <= LogThreshold
  /\ InOrder(m.log)
  /\ \A a \in Address :
       /\ m.map[a] = InvalidId => \A k \in DOMAIN m.log : m.log[k].addr # a
       /\ m.map[a] # InvalidId => Newest(m.log, a, m.map[a])

=============================================================================
