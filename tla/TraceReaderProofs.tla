-------------------------- MODULE TraceReaderProofs --------------------------
(***************************************************************************)
(* Proofs about the traced program and what reads its trace, for every     *)
(* program in LLVM's form, every set of addresses and every threshold:     *)
(* AddrToMemAccessMap::update keeps the map an index of the log, and the   *)
(* log the last accesses; and the activations of the program follow each   *)
(* other as callers and callees.                                           *)
(***************************************************************************)
EXTENDS TraceReader, TLAPS, SequenceTheorems, FiniteSetTheorems, WellFoundedInduction

(* id is newer than every access to a that is still in the log. *)
Newer(log, a, id) == \A k \in DOMAIN log : log[k].addr = a => log[k].id < id

LogEntry == [addr : Address, id : Nat \ {InvalidId}]

(* A map that has grown by one entry and not been released yet. *)
Grown(m, a, id) ==
  [log |-> Append(m.log, [addr |-> a, id |-> id]), map |-> [m.map EXCEPT ![a] = id]]

(* Invariant but for the length of the log. *)
IndexOf(log, map) ==
  /\ InOrder(log)
  /\ \A a \in Address :
       /\ map[a] = InvalidId => \A k \in DOMAIN log : log[k].addr # a
       /\ map[a] # InvalidId => Newest(log, a, map[a])

(* The empty map of a new MemoryDependenceComputer is an index. *)
THEOREM EmptyMapIndexed == EmptyMap \in AccessMap /\ Indexed(EmptyMap)
<1>1. EmptyMap.log = <<>> /\ EmptyMap.map = [a \in Address |-> 0]
  BY DEF EmptyMap, InvalidId
<1>2. EmptyMap \in AccessMap
  <2>1. <<>> \in Seq([addr : Address, id : Nat \ {0}])
    BY EmptySeq
  <2> QED
    BY <2>1 DEF EmptyMap, AccessMap, InvalidId
<1>3. Indexed(EmptyMap)
  <2>1. Len(<<>>) = 0 /\ DOMAIN <<>> = {}
    OBVIOUS
  <2> QED
    BY <1>1, <2>1, AddressAssumption DEF Indexed, InOrder, InvalidId
<1> QED
  BY <1>2, <1>3

(* The first two lines of update: the log grows and the map follows. *)
LEMMA GrownIndex ==
  ASSUME NEW log \in Seq(LogEntry), NEW map \in [Address -> Nat], IndexOf(log, map),
         NEW a \in Address, NEW id \in Nat \ {InvalidId}, Newer(log, a, id)
  PROVE  /\ Append(log, [addr |-> a, id |-> id]) \in Seq(LogEntry)
         /\ [map EXCEPT ![a] = id] \in [Address -> Nat]
         /\ IndexOf(Append(log, [addr |-> a, id |-> id]), [map EXCEPT ![a] = id])
<1> DEFINE e == [addr |-> a, id |-> id]
           l == Append(log, e)
           n == Len(log) + 1
<1>1. e \in LogEntry /\ e.addr = a /\ e.id = id
  BY DEF LogEntry
<1>2. /\ l \in Seq(LogEntry) /\ Len(l) = n /\ l[n] = e
      /\ \A k \in 1 .. Len(log) : l[k] = log[k]
  BY ONLY <1>1, log \in Seq(LogEntry), AppendProperties
<1>3. /\ Len(log) \in Nat /\ DOMAIN log = 1 .. Len(log) /\ DOMAIN l = 1 .. n
      /\ \A k \in DOMAIN log : log[k] \in LogEntry
  BY ONLY <1>2, log \in Seq(LogEntry), LenProperties, ElementOfSeq
<1> HIDE DEF e, l, n
<1>4. \A k \in DOMAIN l : k \in DOMAIN log \/ k = n
  BY <1>3 DEF n
<1>5. InOrder(l)
  <2> SUFFICES ASSUME NEW j \in DOMAIN l, NEW k \in DOMAIN l, j < k, l[j].addr = l[k].addr
               PROVE  l[j].id < l[k].id
    BY DEF InOrder
  <2>1. j \in DOMAIN log
    BY <1>3, <1>4 DEF n
  <2>2. CASE k = n
    BY <1>1, <1>2, <1>3, <2>1, <2>2 DEF Newer
  <2>3. CASE k \in DOMAIN log
    BY <1>2, <1>3, <2>1, <2>3 DEF IndexOf, InOrder
  <2> QED
    BY <1>4, <2>2, <2>3
<1>6. ASSUME NEW b \in Address
      PROVE  /\ [map EXCEPT ![a] = id][b] = InvalidId => \A k \in DOMAIN l : l[k].addr # b
             /\ [map EXCEPT ![a] = id][b] # InvalidId => Newest(l, b, [map EXCEPT ![a] = id][b])
  <2>1. CASE b = a
    <3>1. [map EXCEPT ![a] = id][b] = id
      BY <2>1
    <3>2. n \in DOMAIN l /\ \A j \in DOMAIN l : j <= n
      BY <1>3 DEF n
    <3>3. Newest(l, b, id)
      BY <1>2, <3>2, <2>1 DEF Newest, e
    <3> QED
      BY <3>1, <3>3
  <2>2. CASE b # a
    <3>1. [map EXCEPT ![a] = id][b] = map[b]
      BY <2>2
    <3>2. ASSUME map[b] = InvalidId, NEW k \in DOMAIN l PROVE l[k].addr # b
      <4>1. CASE k = n
        BY <1>1, <1>2, <2>2, <4>1
      <4>2. CASE k \in DOMAIN log
        BY <1>2, <1>3, <3>2, <4>2 DEF IndexOf
      <4> QED
        BY <1>4, <4>1, <4>2
    <3>3. ASSUME map[b] # InvalidId PROVE Newest(l, b, map[b])
      <4>1. PICK k \in DOMAIN log : /\ log[k] = [addr |-> b, id |-> map[b]]
                                    /\ \A j \in DOMAIN log : log[j].addr = b => j <= k
        BY <3>3 DEF IndexOf, Newest
      <4>2. k \in DOMAIN l /\ l[k] = [addr |-> b, id |-> map[b]]
        BY <1>2, <1>3, <4>1 DEF n
      <4>3. ASSUME NEW j \in DOMAIN l, l[j].addr = b PROVE j <= k
        BY <1>1, <1>2, <1>3, <1>4, <2>2, <4>1, <4>3
      <4> QED
        BY <4>2, <4>3 DEF Newest
    <3> QED
      BY <3>1, <3>2, <3>3
  <2> QED
    BY <2>1, <2>2
<1>7. l \in Seq(LogEntry) /\ [map EXCEPT ![a] = id] \in [Address -> Nat] /\ IndexOf(l, [map EXCEPT ![a] = id])
  BY <1>2, <1>5, <1>6 DEF IndexOf
<1> QED
  BY <1>7 DEF l, e

(* The oldest entry of an index is in the map: the assertion of release.    *)
LEMMA OldestMapped ==
  ASSUME NEW log \in Seq(LogEntry), NEW map \in [Address -> Nat], IndexOf(log, map),
         log # <<>>
  PROVE  Head(log) \in LogEntry /\ map[Head(log).addr] # InvalidId
<1>1. 1 \in DOMAIN log /\ log[1] \in LogEntry /\ Head(log) = log[1]
  BY ONLY log \in Seq(LogEntry), log # <<>>, HeadTailProperties, LenProperties, ElementOfSeq, EmptySeq
<1>2. log[1].addr \in Address
  BY <1>1 DEF LogEntry
<1> QED
  BY <1>1, <1>2 DEF IndexOf

(* release: the oldest entry goes, and its address if it is the newest too. *)
LEMMA ReleasedIndex ==
  ASSUME NEW log \in Seq(LogEntry), NEW map \in [Address -> Nat], IndexOf(log, map),
         log # <<>>,
         NEW new, new = IF map[Head(log).addr] = Head(log).id
                        THEN [map EXCEPT ![Head(log).addr] = InvalidId] ELSE map
  PROVE  Tail(log) \in Seq(LogEntry) /\ new \in [Address -> Nat] /\ IndexOf(Tail(log), new)
<1> DEFINE t == Tail(log)
           c == Head(log).addr
<1>1. /\ t \in Seq(LogEntry) /\ Len(t) = Len(log) - 1 /\ Len(log) \in Nat /\ Len(log) > 0
      /\ \A k \in 1 .. Len(t) : t[k] = log[k + 1]
      /\ Head(log) = log[1]
  BY ONLY log \in Seq(LogEntry), log # <<>>, HeadTailProperties, LenProperties, EmptySeq
<1>2. /\ DOMAIN log = 1 .. Len(log) /\ DOMAIN t = 1 .. Len(t)
      /\ \A k \in DOMAIN log : log[k] \in LogEntry
  BY ONLY <1>1, log \in Seq(LogEntry), LenProperties, ElementOfSeq
<1>3. log[1] \in LogEntry /\ c \in Address /\ c = log[1].addr /\ log[1].id \in Nat \ {InvalidId}
  BY <1>1, <1>2 DEF LogEntry
<1> HIDE DEF t, c
<1>4. \A k \in DOMAIN t : k + 1 \in DOMAIN log /\ t[k] = log[k + 1] /\ k \in Nat
  BY <1>1, <1>2
<1>5. \A k \in DOMAIN log : k = 1 \/ (k - 1 \in DOMAIN t /\ t[k - 1] = log[k])
  BY <1>1, <1>2
<1>6. new \in [Address -> Nat] /\ \A b \in Address : b # c => new[b] = map[b]
  BY <1>1, <1>3 DEF InvalidId, c
<1>7. InOrder(t)
  BY <1>4, \A j, k \in Nat : j < k => j + 1 < k + 1 DEF IndexOf, InOrder
<1>8. ASSUME NEW b \in Address, new[b] = InvalidId, NEW k \in DOMAIN t PROVE t[k].addr # b
  <2>1. CASE map[b] = InvalidId
    BY <1>4, <2>1 DEF IndexOf
  <2>2. CASE map[b] # InvalidId
    <3>1. b = c /\ map[b] = log[1].id
      BY <1>1, <1>6, <1>8, <2>2 DEF c
    <3>2. PICK m \in DOMAIN log : /\ log[m] = [addr |-> b, id |-> map[b]]
                                  /\ \A j \in DOMAIN log : log[j].addr = b => j <= m
      BY <2>2 DEF IndexOf, Newest
    <3>3. 1 \in DOMAIN log /\ m \in Nat /\ 1 <= m
      BY <1>1, <1>2
    <3>4. m = 1
      <4> SUFFICES ASSUME 1 < m PROVE FALSE
        BY <3>3
      <4>1. log[1].id < log[m].id
        BY <1>3, <3>1, <3>2, <3>3 DEF IndexOf, InOrder
      <4> QED
        BY <1>3, <3>1, <3>2, <4>1
    <3> QED
      BY <1>2, <1>4, <3>2, <3>4
  <2> QED
    BY <2>1, <2>2
<1>9. ASSUME NEW b \in Address, new[b] # InvalidId PROVE Newest(t, b, new[b])
  <2>1. new[b] = map[b] /\ (b = c => map[b] # log[1].id)
    BY <1>1, <1>3, <1>6, <1>9 DEF c
  <2>2. PICK m \in DOMAIN log : /\ log[m] = [addr |-> b, id |-> map[b]]
                                /\ \A j \in DOMAIN log : log[j].addr = b => j <= m
    BY <1>9, <2>1 DEF IndexOf, Newest
  <2>3. m # 1
    BY <1>3, <2>1, <2>2
  <2>4. m - 1 \in DOMAIN t /\ t[m - 1] = [addr |-> b, id |-> new[b]]
    BY <1>5, <2>1, <2>2, <2>3
  <2>5. ASSUME NEW j \in DOMAIN t, t[j].addr = b PROVE j <= m - 1
    <3>1. j + 1 <= m
      BY <1>4, <2>2, <2>5
    <3> QED
      BY <1>2, <1>4, <3>1
  <2> QED
    BY <2>4, <2>5 DEF Newest
<1> QED
  BY <1>1, <1>6, <1>7, <1>8, <1>9 DEF IndexOf, t

(* update keeps the map an index of the log, for an access newer than those *)
(* to the same address: what is looked up is the last access, unless        *)
(* LogThreshold updates have passed since (DataGraph.cpp:22-55).            *)
THEOREM UpdateIndexed ==
  ASSUME NEW m \in AccessMap, Indexed(m),
         NEW a \in Address, NEW id \in Nat \ {InvalidId}, Newer(m.log, a, id)
  PROVE  Update(m, a, id) \in AccessMap /\ Indexed(Update(m, a, id))
<1> DEFINE g == Grown(m, a, id)
           oldest == Head(g.log)
           new == IF g.map[oldest.addr] = oldest.id
                  THEN [g.map EXCEPT ![oldest.addr] = InvalidId] ELSE g.map
<1>1. m.log \in Seq(LogEntry) /\ m.map \in [Address -> Nat] /\ IndexOf(m.log, m.map)
      /\ Len(m.log) <= LogThreshold
  BY DEF AccessMap, LogEntry, Indexed, IndexOf
<1>2. g.log = Append(m.log, [addr |-> a, id |-> id]) /\ g.map = [m.map EXCEPT ![a] = id]
      /\ g = [log |-> g.log, map |-> g.map]
  BY DEF Grown
<1> HIDE DEF g
<1>3. g.log \in Seq(LogEntry) /\ g.map \in [Address -> Nat] /\ IndexOf(g.log, g.map)
  <2>1. /\ Append(m.log, [addr |-> a, id |-> id]) \in Seq(LogEntry)
        /\ [m.map EXCEPT ![a] = id] \in [Address -> Nat]
        /\ IndexOf(Append(m.log, [addr |-> a, id |-> id]), [m.map EXCEPT ![a] = id])
    BY <1>1, GrownIndex, Zenon
  <2> QED
    BY ONLY <1>2, <2>1
<1>4. [addr |-> a, id |-> id] \in LogEntry
  BY DEF LogEntry
<1>5. Len(g.log) = Len(m.log) + 1 /\ Len(m.log) \in Nat /\ g.log # <<>>
  BY ONLY <1>1, <1>2, <1>4, AppendProperties, LenProperties, EmptySeq
<1>6. Update(m, a, id) = IF Len(g.log) > LogThreshold
                         THEN [log |-> Tail(g.log), map |-> new] ELSE g
  BY DEF Update, Release, Grown, g
<1> HIDE DEF new, oldest
<1>7. Tail(g.log) \in Seq(LogEntry) /\ new \in [Address -> Nat] /\ IndexOf(Tail(g.log), new)
  BY <1>3, <1>5, ReleasedIndex DEF new, oldest
<1>8. Len(Tail(g.log)) = Len(g.log) - 1
  BY ONLY <1>3, <1>5, HeadTailProperties
<1>9. ASSUME NEW log \in Seq(LogEntry), NEW map \in [Address -> Nat], IndexOf(log, map),
             Len(log) <= LogThreshold
      PROVE  [log |-> log, map |-> map] \in AccessMap /\ Indexed([log |-> log, map |-> map])
  BY <1>9 DEF AccessMap, LogEntry, Indexed, IndexOf
<1>10. CASE Len(g.log) > LogThreshold
  <2>1. Len(Tail(g.log)) <= LogThreshold
    BY ONLY <1>1, <1>5, <1>8, AddressAssumption
  <2> QED
    BY ONLY <1>6, <1>7, <1>9, <1>10, <2>1
<1>11. CASE ~(Len(g.log) > LogThreshold)
  <2>1. Len(g.log) <= LogThreshold
    BY ONLY <1>5, <1>11, AddressAssumption
  <2> QED
    BY ONLY <1>2, <1>3, <1>6, <1>9, <1>11, <2>1
<1> QED
  BY <1>10, <1>11

(* "This address has already been released": the assertion in release()     *)
(* holds whenever update() calls it (DataGraph.cpp:42-46).                   *)
THEOREM NeverReleasedTwice ==
  ASSUME NEW m \in AccessMap, Indexed(m),
         NEW a \in Address, NEW id \in Nat \ {InvalidId}, Newer(m.log, a, id)
  PROVE  Grown(m, a, id).map[Head(Grown(m, a, id).log).addr] # InvalidId
<1> DEFINE g == Grown(m, a, id)
<1>1. m.log \in Seq(LogEntry) /\ m.map \in [Address -> Nat] /\ IndexOf(m.log, m.map)
  BY DEF AccessMap, LogEntry, Indexed, IndexOf
<1>2. g.log = Append(m.log, [addr |-> a, id |-> id]) /\ g.map = [m.map EXCEPT ![a] = id]
  BY DEF Grown
<1> HIDE DEF g
<1>3. g.log \in Seq(LogEntry) /\ g.map \in [Address -> Nat] /\ IndexOf(g.log, g.map)
  <2>1. /\ Append(m.log, [addr |-> a, id |-> id]) \in Seq(LogEntry)
        /\ [m.map EXCEPT ![a] = id] \in [Address -> Nat]
        /\ IndexOf(Append(m.log, [addr |-> a, id |-> id]), [m.map EXCEPT ![a] = id])
    BY <1>1, GrownIndex, Zenon
  <2> QED
    BY ONLY <1>2, <2>1
<1>4. [addr |-> a, id |-> id] \in LogEntry
  BY DEF LogEntry
<1>5. g.log # <<>>
  BY ONLY <1>1, <1>2, <1>4, AppendProperties, LenProperties, EmptySeq
<1> QED
  BY <1>3, <1>5, OldestMapped DEF g

-----------------------------------------------------------------------------
(* What the log remembers *)

(* A set of natural numbers has a least element, and the principle of       *)
(* induction that follows from it, stated for sets.                         *)
LEMMA LeastElement ==
  ASSUME NEW T, T \subseteq Nat, T # {}
  PROVE  \E x \in T : \A y \in T : x <= y
<1>1. PICK R : R = OpToRel(<, Nat)
  OBVIOUS
<1>2. IsWellFoundedOn(R, Nat)
  BY <1>1, NatLessThanWellFounded
<1>3. \A y, x \in Nat : y < x => <<y, x>> \in R
  BY <1>1, Zenon DEF OpToRel
<1>4. PICK x \in T : \A y \in T : ~ (<<y, x>> \in R)
  BY ONLY <1>2, WFMin, T \subseteq Nat, T # {}
<1>5. \A y \in T : ~ (y < x)
  BY ONLY <1>3, <1>4, T \subseteq Nat
<1>6. QED
  BY ONLY <1>5, T \subseteq Nat, x \in T

LEMMA Induction ==
  ASSUME NEW S, 0 \in S, \A n \in Nat : n \in S => n + 1 \in S
  PROVE  Nat \subseteq S
<1> SUFFICES ASSUME Nat \ S # {} PROVE FALSE
  OBVIOUS
<1>1. PICK x \in Nat \ S : \A y \in Nat \ S : x <= y
  BY LeastElement
<1>2. x - 1 \in Nat /\ x - 1 \in S
  BY <1>1
<1>3. QED
  BY <1>1, <1>2

(* The order of the log: by id, and the bytes of one access upwards.        *)
Before(e, f) == e.id < f.id \/ (e.id = f.id /\ e.addr < f.addr)

(* Of the accesses E the log holds the last ones, in order; if any is       *)
(* missing, then the log is full.                                           *)
Remembers(m, E) ==
  /\ \A k \in DOMAIN m.log : m.log[k] \in E
  /\ \A j, k \in DOMAIN m.log : j < k => Before(m.log[j], m.log[k])
  /\ \A e \in E : \/ \E k \in DOMAIN m.log : m.log[k] = e
                  \/ /\ Len(m.log) = LogThreshold
                     /\ \A k \in DOMAIN m.log : Before(e, m.log[k])

LEMMA EmptyMapRemembers == Remembers(EmptyMap, {})
<1>1. EmptyMap.log = <<>> /\ DOMAIN EmptyMap.log = {}
  BY DEF EmptyMap
<1>2. QED
  BY <1>1 DEF Remembers

LEMMA BeforeOrder ==
  ASSUME NEW e \in LogEntry, NEW f \in LogEntry, NEW g \in LogEntry
  PROVE  /\ Before(e, f) /\ Before(f, g) => Before(e, g)
         /\ ~ (Before(e, f) /\ e = f)
         /\ Before(e, f) /\ e.addr = f.addr => e.id < f.id
<1>1. \A x \in LogEntry : x.id \in Nat /\ x.addr \in Nat
  BY AddressAssumption DEF LogEntry
<1>2. PICK i \in Nat, j \in Nat, k \in Nat : i = e.id /\ j = f.id /\ k = g.id
  BY <1>1
<1>3. PICK a \in Nat, b \in Nat, c \in Nat : a = e.addr /\ b = f.addr /\ c = g.addr
  BY <1>1
<1>4. QED
  BY ONLY <1>2, <1>3 DEF Before

(* One more access, after all the others.                                   *)
LEMMA UpdateRemembers ==
  ASSUME NEW m \in AccessMap, Indexed(m), NEW E \in SUBSET LogEntry, Remembers(m, E),
         NEW e \in LogEntry, \A f \in E : Before(f, e)
  PROVE  LET n == Update(m, e.addr, e.id) IN
         n \in AccessMap /\ Indexed(n) /\ Remembers(n, E \cup {e})
<1> DEFINE n == Update(m, e.addr, e.id)
<1>1. e.addr \in Address /\ e.id \in Nat \ {InvalidId} /\ e = [addr |-> e.addr, id |-> e.id]
  BY DEF LogEntry
<1>2. /\ m.log \in Seq(LogEntry) /\ Len(m.log) \in Nat /\ DOMAIN m.log = 1 .. Len(m.log)
      /\ Len(m.log) <= LogThreshold /\ \A k \in DOMAIN m.log : m.log[k] \in E
  BY DEF AccessMap, LogEntry, Indexed, Remembers
<1>3. Newer(m.log, e.addr, e.id)
  BY <1>2, BeforeOrder DEF Newer
<1>4. n \in AccessMap /\ Indexed(n)
  BY <1>1, <1>3, UpdateIndexed
<1>5. PICK l, k : l = m.log /\ k = Len(m.log)
  OBVIOUS
<1>6. PICK g : g = Append(l, e)
  OBVIOUS
<1>7. /\ g \in Seq(LogEntry) /\ Len(g) = k + 1 /\ DOMAIN g = 1 .. k + 1 /\ k \in Nat
      /\ \A i \in 1 .. k : g[i] = l[i]
      /\ g[k + 1] = e
  BY ONLY <1>2, <1>5, <1>6, e \in LogEntry, AppendProperties, LenProperties
<1>8. n.log = IF Len(g) > LogThreshold THEN Tail(g) ELSE g
  BY <1>1, <1>5, <1>6 DEF Update, Release
<1>9. /\ \A i \in 1 .. k : l[i] \in E
      /\ \A i, j \in 1 .. k : i < j => Before(l[i], l[j])
      /\ \A f \in E : \/ \E i \in 1 .. k : l[i] = f
                      \/ k = LogThreshold /\ \A i \in 1 .. k : Before(f, l[i])
      /\ k <= LogThreshold
  BY <1>2, <1>5 DEF Remembers
<1>10. \A i, j \in 1 .. k + 1 : i < j => Before(g[i], g[j])
  BY <1>7, <1>9
<1>11. \A i \in 1 .. k + 1 : g[i] \in E \cup {e}
  BY <1>7, <1>9
<1> HIDE DEF n
<1>12. CASE k < LogThreshold
  <2>1. n.log = g
    BY <1>7, <1>8, <1>12, AddressAssumption
  <2>2. \A f \in E \cup {e} : \E i \in DOMAIN g : g[i] = f
    BY <1>7, <1>9, <1>12
  <2>3. QED
    BY <1>4, <1>7, <1>10, <1>11, <2>1, <2>2 DEF Remembers, n
<1>13. CASE k = LogThreshold
  <2>1. n.log = Tail(g)
    BY <1>7, <1>8, <1>13, AddressAssumption
  <2>2. k \in Nat \ {0} /\ g # <<>>
    BY <1>7, <1>13, AddressAssumption, EmptySeq
  <2>3. PICK t : t = Tail(g)
    OBVIOUS
  <2>4. t \in Seq(LogEntry) /\ Len(t) = k /\ DOMAIN t = 1 .. k /\ \A i \in 1 .. k : t[i] = g[i + 1]
    BY ONLY <1>7, <2>2, <2>3, HeadTailProperties, LenProperties
  <2>5. \A i \in 1 .. k : t[i] \in E \cup {e}
    BY <1>11, <2>4
  <2>6. \A i, j \in 1 .. k : i < j => Before(t[i], t[j])
    BY <1>10, <2>4
  <2>7. ASSUME NEW f \in E \cup {e}
        PROVE  (\E i \in 1 .. k : t[i] = f) \/ \A i \in 1 .. k : Before(f, t[i])
    <3>1. CASE f = e
      BY <1>7, <2>2, <2>4, <3>1
    <3>2. CASE \E i \in 1 .. k : l[i] = f
      <4>1. PICK i \in 1 .. k : g[i] = f
        BY <1>7, <3>2
      <4>2. CASE i = 1
        <5>1. \A j \in 1 .. k : 1 < j + 1 /\ j + 1 \in 1 .. k + 1 /\ 1 \in 1 .. k + 1
          BY <1>7
        <5>2. \A j \in 1 .. k : Before(g[1], g[j + 1])
          BY <1>10, <5>1
        <5>3. QED
          BY <2>4, <4>1, <4>2, <5>2
      <4>3. CASE i # 1
        <5>1. i - 1 \in 1 .. k /\ i - 1 + 1 = i
          BY <1>7, <4>3
        <5>2. t[i - 1] = f
          BY <2>4, <4>1, <5>1
        <5>3. QED
          BY <5>1, <5>2
      <4>4. QED
        BY <4>2, <4>3
    <3>3. CASE f \in E /\ \A i \in 1 .. k : Before(f, l[i])
      <4>1. ASSUME NEW i \in 1 .. k PROVE Before(f, t[i])
        <5>1. CASE i = k
          BY <1>7, <2>4, <3>3, <5>1
        <5>2. CASE i # k
          <6>1. i + 1 \in 1 .. k
            BY <1>7, <5>2
          <6>2. QED
            BY <1>7, <2>4, <3>3, <6>1
        <5>3. QED
          BY <5>1, <5>2
      <4>2. QED
        BY <4>1
    <3>4. QED
      BY <1>9, <3>1, <3>2, <3>3
  <2>8. n.log = t
    BY <2>1, <2>3
  <2>9. Remembers(n, E \cup {e})
    BY ONLY <1>13, <2>4, <2>5, <2>6, <2>7, <2>8 DEF Remembers
  <2>10. QED
    BY <1>4, <2>9 DEF n
<1>14. QED
  BY <1>7, <1>9, <1>12, <1>13, AddressAssumption

(* The accesses of an instruction up to its byte n - 1. *)
FirstBytes(access, id, n) == {[addr |-> access.addr + i, id |-> id] : i \in 0 .. n - 1}

(* The maps after each of the updates of an access. *)
IsUpdates(f, m, access, id, n) ==
  f = [i \in 0 .. n |-> IF i = 0 THEN m ELSE Update(f[i - 1], access.addr + i - 1, id)]

LEMMA UpdatesExist ==
  ASSUME NEW m, NEW access, NEW id, NEW n \in Nat
  PROVE  \E f : IsUpdates(f, m, access, id, n)
<1> DEFINE S == {k \in Nat : \E f : IsUpdates(f, m, access, id, k)}
<1>1. 0 \in S
  <2>1. PICK f : f = [i \in 0 .. 0 |-> m]
    OBVIOUS
  <2>2. f = [i \in 0 .. 0 |-> IF i = 0 THEN m ELSE Update(f[i - 1], access.addr + i - 1, id)]
    BY <2>1
  <2>3. IsUpdates(f, m, access, id, 0)
    BY ONLY <2>2 DEF IsUpdates
  <2>4. QED
    BY <2>3
<1>2. ASSUME NEW k \in Nat, k \in S PROVE k + 1 \in S
  <2>1. PICK f : IsUpdates(f, m, access, id, k)
    BY <1>2
  <2> DEFINE U(x, i) == Update(x, access.addr + i - 1, id)
  <2>2. \A i \in 0 .. k : f[i] = IF i = 0 THEN m ELSE U(f[i - 1], i)
    BY <2>1 DEF IsUpdates
  <2>3. PICK g : g = [i \in 0 .. k + 1 |-> IF i = k + 1 THEN U(f[k], k + 1) ELSE f[i]]
    OBVIOUS
  <2>4. ASSUME NEW i \in 0 .. k + 1
        PROVE  g[i] = IF i = 0 THEN m ELSE U(g[i - 1], i)
    <3> HIDE DEF U
    <3>1. CASE i = k + 1
      <4>1. i - 1 = k /\ k \in 0 .. k + 1 /\ k # k + 1 /\ i # 0
        BY <3>1
      <4>2. g[k] = f[k] /\ g[k + 1] = U(f[k], k + 1)
        BY <2>3, <4>1
      <4>3. QED
        BY <3>1, <4>1, <4>2
    <3>2. CASE i # k + 1 /\ i # 0
      <4>1. i \in 0 .. k /\ i - 1 \in 0 .. k + 1 /\ i - 1 # k + 1 /\ i # k + 1
        BY <3>2
      <4>2. g[i] = f[i] /\ g[i - 1] = f[i - 1]
        BY <2>3, <4>1
      <4>3. QED
        BY <2>2, <3>2, <4>1, <4>2
    <3>3. CASE i = 0
      BY <2>2, <2>3, <3>3
    <3>4. QED
      BY <3>1, <3>2, <3>3
  <2>5. g = [i \in 0 .. k + 1 |-> IF i = 0 THEN m ELSE U(g[i - 1], i)]
    <3> HIDE DEF U
    <3>1. g = [i \in 0 .. k + 1 |-> g[i]]
      BY <2>3
    <3>2. QED
      BY ONLY <2>4, <3>1
  <2>6. IsUpdates(g, m, access, id, k + 1)
    BY ONLY <2>5 DEF IsUpdates
  <2>7. QED
    BY <2>6
<1>3. Nat \subseteq S
  <2> HIDE DEF S
  <2>1. QED
    BY <1>1, <1>2, Induction
<1>4. QED
  BY <1>3

(* An access enters the log byte by byte: the loop over its bytes           *)
(* (DataGraph.cpp:66-70) keeps the map an index, and the log remembers the  *)
(* last of all accesses.                                                    *)
THEOREM AccessRemembered ==
  ASSUME NEW m \in AccessMap, Indexed(m), NEW E \in SUBSET LogEntry, Remembers(m, E),
         NEW access, access.addr \in Nat, access.size \in Nat, Bytes(access) \subseteq Address,
         NEW id \in Nat \ {InvalidId}, \A e \in E : e.id < id
  PROVE  LET n == UpdateBytes(m, access, id) IN
         /\ n \in AccessMap /\ Indexed(n)
         /\ Remembers(n, E \cup {[addr |-> a, id |-> id] : a \in Bytes(access)})
<1>1. PICK start \in Nat, size \in Nat : start = access.addr /\ size = access.size
  OBVIOUS
<1> DEFINE Good(x, k) ==
             /\ x \in AccessMap /\ Indexed(x)
             /\ Remembers(x, E \cup FirstBytes(access, id, k))
           f == CHOOSE g : IsUpdates(g, m, access, id, access.size)
<1>2. UpdateBytes(m, access, id) = f[access.size]
  BY DEF UpdateBytes, IsUpdates
<1>3. IsUpdates(f, m, access, id, size)
  <2>1. \E g : IsUpdates(g, m, access, id, access.size)
    BY UpdatesExist
  <2>2. QED
    BY <1>1, <2>1
<1> HIDE DEF f
<1>4. \A i \in 0 .. size : f[i] = IF i = 0 THEN m ELSE Update(f[i - 1], start + i - 1, id)
  BY <1>1, <1>3 DEF IsUpdates
<1>5. \A i \in 0 .. size - 1 : start + i \in Address
  <2>1. \A i \in 0 .. size - 1 : start + i \in start .. start + size - 1
    OBVIOUS
  <2>2. QED
    BY <1>1, <2>1 DEF Bytes
<1>6. Good(f[0], 0)
  <2>1. FirstBytes(access, id, 0) = {}
    BY DEF FirstBytes
  <2>2. f[0] = m
    BY <1>4
  <2>3. E \cup {} = E
    OBVIOUS
  <2>4. QED
    BY ONLY <2>1, <2>2, <2>3, m \in AccessMap, Indexed(m), Remembers(m, E)
<1>7. ASSUME NEW k \in Nat, k + 1 \in 0 .. size, Good(f[k], k)
      PROVE  Good(f[k + 1], k + 1)
  <2>1. PICK e : e = [addr |-> start + k, id |-> id]
    OBVIOUS
  <2>2. e \in LogEntry /\ e.addr = start + k /\ e.id = id
    BY <1>5, <1>7, <2>1 DEF LogEntry
  <2>3. PICK F : F = E \cup FirstBytes(access, id, k)
    OBVIOUS
  <2>4. ASSUME NEW x \in F PROVE x \in LogEntry /\ Before(x, e)
    <3>1. CASE x \in E
      BY <2>2, <3>1 DEF Before
    <3>2. CASE x \in FirstBytes(access, id, k)
      <4>1. PICK i \in 0 .. k - 1 : x = [addr |-> start + i, id |-> id]
        BY <1>1, <3>2 DEF FirstBytes
      <4>2. start + i \in Address /\ start + i < start + k
        BY <1>5, <1>7, <4>1
      <4>3. QED
        BY <2>2, <4>1, <4>2 DEF LogEntry, Before
    <3>3. QED
      BY <2>3, <3>1, <3>2
  <2>5. F \cup {e} = E \cup FirstBytes(access, id, k + 1)
    <3>1. FirstBytes(access, id, k + 1) = FirstBytes(access, id, k) \cup {e}
      <4>1. 0 .. k + 1 - 1 = (0 .. k - 1) \cup {k}
        OBVIOUS
      <4>2. QED
        BY <1>1, <2>1, <4>1 DEF FirstBytes
    <3>2. QED
      BY <2>3, <3>1
  <2>6. f[k + 1] = Update(f[k], e.addr, e.id)
    <3>1. k + 1 # 0 /\ k + 1 - 1 = k /\ start + (k + 1) - 1 = start + k
      OBVIOUS
    <3>2. f[k + 1] = Update(f[k + 1 - 1], start + (k + 1) - 1, id)
      BY <1>4, <1>7, <3>1
    <3>3. QED
      BY ONLY <2>2, <3>1, <3>2
  <2>7. f[k] \in AccessMap /\ Indexed(f[k]) /\ Remembers(f[k], F)
    BY ONLY <1>7, <2>3
  <2>8. PICK x : x = f[k]
    OBVIOUS
  <2>9. Good(Update(x, e.addr, e.id), k + 1)
    <3>1. F \in SUBSET LogEntry
      BY <2>4
    <3>2. /\ Update(x, e.addr, e.id) \in AccessMap /\ Indexed(Update(x, e.addr, e.id))
          /\ Remembers(Update(x, e.addr, e.id), F \cup {e})
      BY ONLY <2>2, <2>4, <2>7, <2>8, <3>1, UpdateRemembers
    <3>3. QED
      BY ONLY <2>5, <3>2
  <2>10. QED
    BY ONLY <2>6, <2>8, <2>9
<1>8. Good(f[size], size)
  <2> DEFINE S == {k \in Nat : k > size \/ Good(f[k], k)}
  <2> HIDE DEF Good
  <2>1. 0 \in S
    BY <1>6
  <2>2. \A k \in Nat : k \in S => k + 1 \in S
    BY <1>7
  <2>3. Nat \subseteq S
    <3> HIDE DEF S
    <3>1. QED
      BY <2>1, <2>2, Induction
  <2>4. QED
    BY <2>3
<1>9. FirstBytes(access, id, size) = {[addr |-> a, id |-> id] : a \in Bytes(access)}
  <2>1. \A i \in 0 .. size - 1 : start + i \in start .. start + size - 1
    OBVIOUS
  <2>2. \A a \in start .. start + size - 1 : a - start \in 0 .. size - 1 /\ start + (a - start) = a
    OBVIOUS
  <2>3. QED
    BY <1>1, <2>1, <2>2 DEF FirstBytes, Bytes
<1>10. QED
  BY <1>1, <1>2, <1>8, <1>9

-----------------------------------------------------------------------------
(* A set of numbers up to n has a largest element. *)
LEMMA LargestElement ==
  ASSUME NEW n \in Nat, NEW T, T \subseteq 0 .. n, T # {}
  PROVE  \E x \in T : \A y \in T : y <= x
<1> DEFINE U == {n - y : y \in T}
<1>1. U \subseteq Nat /\ U # {}
  <2>1. PICK y \in T : TRUE
    OBVIOUS
  <2>2. n - y \in U
    BY <2>1
  <2>3. \A v \in T : n - v \in Nat
    OBVIOUS
  <2>4. QED
    BY <2>2, <2>3
<1>2. PICK z \in U : \A y \in U : z <= y
  BY <1>1, LeastElement
<1>3. PICK x \in T : z = n - x
  OBVIOUS
<1>4. \A y \in T : n - x <= n - y
  BY <1>2, <1>3
<1>5. \A y \in T : y \in Nat
  OBVIOUS
<1>6. QED
  BY <1>4, <1>5

-----------------------------------------------------------------------------
(* The program *)

LEMMA InstRange ==
  /\ Inst = 1 .. Len(Code) /\ Len(Code) \in Nat
  /\ \A i \in Inst : Code[i] \in Instruction /\ Code[i].bb \in Block
<1>1. Code \in Seq(Instruction)
  BY CodeAssumption
<1>2. QED
  BY <1>1, LenProperties, ElementOfSeq DEF Inst, Block

LEMMA InstType ==
  ASSUME NEW i \in Inst
  PROVE  /\ i \in Nat \ {0} /\ Code[i].fn \in Instrumented /\ Code[i].bb \in Block
         /\ Code[i].uses \in Seq({0} \cup Inst) /\ Code[i].to \in Seq(Block)
         /\ Code[i].callees \subseteq Instrumented \cup External
  BY InstRange DEF Instruction

(* The least of some instructions. *)
LEMMA LeastInst ==
  ASSUME NEW S \in SUBSET Inst, S # {}
  PROVE  \E i \in S : \A j \in S : i <= j
<1>1. S \subseteq Nat
  BY InstRange
<1>2. QED
  BY <1>1, LeastElement

LEMMA FirstIs ==
  ASSUME NEW b \in Block
  PROVE  /\ First(b) \in Inst /\ Code[First(b)].bb = b
         /\ \A j \in Inst : Code[j].bb = b => First(b) <= j
<1> DEFINE S == {i \in Inst : Code[i].bb = b}
<1>1. S # {}
  BY DEF Block
<1>2. \E i \in S : \A j \in S : i <= j
  BY <1>1, LeastInst
<1>3. \E i \in Inst : Code[i].bb = b /\ \A j \in Inst : Code[j].bb = b => i <= j
  BY <1>2
<1>4. QED
  BY <1>3 DEF First

LEMMA EntryIs ==
  ASSUME NEW f \in Instrumented
  PROVE  Entry(f) \in Inst /\ Code[Entry(f)].fn = f /\ Code[Entry(f)].op # "phi"
<1> DEFINE S == {i \in Inst : Code[i].fn = f}
<1>1. S # {}
  BY CodeAssumption
<1>2. \E i \in S : \A j \in S : i <= j
  BY <1>1, LeastInst
<1>3. \E i \in Inst : Code[i].fn = f /\ \A j \in Inst : Code[j].fn = f => i <= j
  BY <1>2
<1>4. Entry(f) \in Inst /\ Code[Entry(f)].fn = f
  BY <1>3 DEF Entry
<1>5. QED
  BY <1>4, CodeAssumption

LEMMA TerminatorIs ==
  ASSUME NEW b \in Block
  PROVE  /\ Terminator(b) \in Inst /\ Code[Terminator(b)].bb = b
         /\ \A j \in Inst : Code[j].bb = b => j <= Terminator(b)
<1> DEFINE S == {i \in Inst : Code[i].bb = b}
<1>1. S # {} /\ S \subseteq 0 .. Len(Code) /\ Len(Code) \in Nat
  BY InstRange DEF Block
<1>2. \E i \in S : \A j \in S : j <= i
  BY <1>1, LargestElement
<1>3. \E i \in Inst : Code[i].bb = b /\ \A j \in Inst : Code[j].bb = b => j <= i
  BY <1>2
<1>4. QED
  BY <1>3 DEF Terminator

(* After an instruction that is no branch another one of its block follows, *)
(* which is a phi only after phis.                                          *)
LEMMA NextInst ==
  ASSUME NEW i \in Inst, Code[i].op \notin {"br", "invoke", "ret"}
  PROVE  /\ i + 1 \in Inst /\ Code[i + 1].bb = Code[i].bb /\ Code[i + 1].fn = Code[i].fn
         /\ Code[i + 1].op = "phi" => Code[i].op = "phi"
<1>1. i + 1 \in Inst /\ Code[i + 1].bb = Code[i].bb /\ Code[i + 1].fn = Code[i].fn
  BY CodeAssumption
<1>2. ASSUME Code[i + 1].op = "phi" PROVE Code[i].op = "phi"
  <2>0. PICK k \in Inst : k = i + 1
    BY <1>1
  <2>1. \/ i + 1 = First(Code[i].bb)
        \/ Code[i + 1 - 1].op = "phi"
    <3>1. k = First(Code[k].bb) \/ Code[k - 1].op = "phi"
      BY <1>2, <2>0, CodeAssumption
    <3>2. QED
      BY ONLY <1>1, <2>0, <3>1
  <2>2. First(Code[i].bb) <= i /\ First(Code[i].bb) \in Nat
    BY FirstIs, InstType
  <2>3. i \in Nat /\ i + 1 - 1 = i
    BY InstType
  <2>4. i + 1 # First(Code[i].bb)
    BY ONLY <2>2, <2>3
  <2>5. QED
    BY <2>1, <2>3, <2>4
<1>3. QED
  BY <1>1, <1>2

-----------------------------------------------------------------------------
(* Activations *)

Values(n) == [Inst -> 0 .. n]
Activations(n) ==
  [fn : Instrumented \cup External, at : Inst \cup {0}, by : Values(n), val : Values(n),
   from : Block \cup {"none"}, exit : [by : Values(n), val : Values(n)]]

(* Is u a phi of the block that a is in, and before a's instruction?        *)
EarlierPhi(a, u) ==
  Code[u].op = "phi" /\ Code[u].bb = Code[a.at].bb /\ u < a.at

(* Where a stands in its function; while it is among the phis of a block,   *)
(* only they have changed since the block before was left.                  *)
StandsAt(a) ==
  a.fn \in Instrumented =>
    /\ a.at \in Inst /\ Code[a.at].fn = a.fn
    /\ Code[a.at].op = "phi" =>
         /\ \E j \in Predecessors(Code[a.at].bb) : a.from = Code[j].bb
         /\ \A u \in Inst : ~EarlierPhi(a, u) =>
              a.exit.by[u] = a.by[u] /\ a.exit.val[u] = a.val[u]

Waits(a) == a.fn \in Instrumented => Code[a.at].op \in {"call", "invoke"}

LEMMA ValuesGrow ==
  ASSUME NEW n \in Nat, NEW m \in Nat, n <= m
  PROVE  Activations(n) \subseteq Activations(m)
<1>1. 0 .. n \subseteq 0 .. m
  OBVIOUS
<1>2. Values(n) \subseteq Values(m)
  BY <1>1 DEF Values
<1>3. QED
  BY <1>2 DEF Activations

LEMMA ActivationFields ==
  ASSUME NEW n \in Nat, NEW a \in Activations(n)
  PROVE  /\ a.fn \in Instrumented \cup External /\ a.at \in Inst \cup {0}
         /\ a.by \in Values(n) /\ a.val \in Values(n)
         /\ a.from \in Block \cup {"none"}
         /\ a.exit.by \in Values(n) /\ a.exit.val \in Values(n)
         /\ a.exit \in [by : Values(n), val : Values(n)]
  BY DEF Activations

LEMMA NewActivation ==
  ASSUME NEW f \in Instrumented \cup External, NEW n \in Nat
  PROVE  /\ Activation(f) \in Activations(n) /\ Activation(f).fn = f
         /\ StandsAt(Activation(f))
         /\ f \in Instrumented => Code[Activation(f).at].op # "phi"
         /\ Activation(f).by = [i \in Inst |-> 0] /\ Activation(f).val = [i \in Inst |-> 0]
         /\ Activation(f).exit.by = [i \in Inst |-> 0]
<1>1. PICK z : z = [i \in Inst |-> 0]
  OBVIOUS
<1>2. z \in Values(n)
  BY <1>1 DEF Values
<1>3. f \in Instrumented => Entry(f) \in Inst /\ Code[Entry(f)].fn = f /\ Code[Entry(f)].op # "phi"
  BY EntryIs
<1>4. PICK at : at = IF f \in Instrumented THEN Entry(f) ELSE 0
  OBVIOUS
<1>5. Activation(f) = [fn |-> f, at |-> at, by |-> z, val |-> z, from |-> "none",
                       exit |-> [by |-> z, val |-> z]]
  BY <1>1, <1>4 DEF Activation
<1>6. QED
  BY <1>1, <1>2, <1>3, <1>4, <1>5 DEF Activations, StandsAt

(* A block is left for b. *)
LEMMA LeaveOK ==
  ASSUME NEW n \in Nat, NEW a \in Activations(n), a.fn \in Instrumented, a.at \in Inst,
         Code[a.at].fn = a.fn, NEW b \in ToSet(Code[a.at].to)
  PROVE  LET c == Leave(a, b) IN
         /\ c \in Activations(n) /\ c.fn = a.fn /\ c.by = a.by /\ c.val = a.val
         /\ c.at = First(b) /\ c.from = Code[a.at].bb
         /\ c.exit = [by |-> a.by, val |-> a.val]
         /\ StandsAt(c)
<1>1. b \in Block
  <2>1. Code[a.at].to \in Seq(Block)
    BY InstType
  <2>2. QED
    BY <2>1, LenProperties, ElementOfSeq DEF ToSet
<1>2. First(b) \in Inst /\ Code[First(b)].bb = b /\ Code[First(b)].fn = a.fn
  BY <1>1, FirstIs, CodeAssumption
<1>3. PICK c : c = Leave(a, b)
  OBVIOUS
<1>4. PICK x : x = [by |-> a.by, val |-> a.val]
  OBVIOUS
<1>5. c = [a EXCEPT !.at = First(b), !.from = Code[a.at].bb, !.exit = x]
  BY <1>3, <1>4 DEF Leave
<1>6. x \in [by : Values(n), val : Values(n)] /\ x.by = a.by /\ x.val = a.val
  BY <1>4, ActivationFields
<1>7. Code[a.at].bb \in Block
  BY InstType
<1>8. /\ c \in Activations(n) /\ c.fn = a.fn /\ c.by = a.by /\ c.val = a.val
      /\ c.at = First(b) /\ c.from = Code[a.at].bb /\ c.exit = x
  BY ONLY <1>2, <1>5, <1>6, <1>7, a \in Activations(n) DEF Activations
<1>9. a.at \in Predecessors(b)
  BY DEF Predecessors
<1>10. StandsAt(c)
  BY ONLY <1>2, <1>6, <1>8, <1>9 DEF StandsAt
<1>11. QED
  BY <1>3, <1>4, <1>8, <1>10

(* An instruction that is no phi has been computed. *)
Computed(a, v, w) == [a EXCEPT !.by[a.at] = v, !.val[a.at] = w, !.at = @ + 1]
ComputedFrom(c, a, v, w, n) ==
  /\ c \in Activations(n) /\ c.fn = a.fn /\ c.at = a.at + 1
  /\ c.by = [a.by EXCEPT ![a.at] = v] /\ c.val = [a.val EXCEPT ![a.at] = w]
  /\ c.from = a.from /\ c.exit = a.exit
  /\ StandsAt(c) /\ Code[c.at].op # "phi"

LEMMA ComputeOK ==
  ASSUME NEW n \in Nat, NEW a \in Activations(n), a.fn \in Instrumented, a.at \in Inst,
         Code[a.at].fn = a.fn, Code[a.at].op \notin {"phi", "br", "invoke", "ret"},
         NEW v \in 0 .. n, NEW w \in 0 .. n
  PROVE  ComputedFrom(Computed(a, v, w), a, v, w, n)
<1>1. /\ a.at + 1 \in Inst /\ Code[a.at + 1].fn = a.fn /\ Code[a.at + 1].op # "phi"
  BY NextInst
<1>2. PICK by, val : by = [a.by EXCEPT ![a.at] = v] /\ val = [a.val EXCEPT ![a.at] = w]
  OBVIOUS
<1>3. by \in Values(n) /\ val \in Values(n)
  BY <1>2, ActivationFields DEF Values
<1>4. PICK c : c = Computed(a, v, w)
  OBVIOUS
<1>5. c = [a EXCEPT !.by = by, !.val = val, !.at = a.at + 1]
  BY <1>2, <1>4 DEF Activations, Computed
<1>6. /\ c \in Activations(n) /\ c.fn = a.fn /\ c.at = a.at + 1 /\ c.by = by /\ c.val = val
      /\ c.from = a.from /\ c.exit = a.exit
  BY ONLY <1>1, <1>3, <1>5, a \in Activations(n) DEF Activations
<1>7. StandsAt(c)
  BY ONLY <1>1, <1>6 DEF StandsAt
<1>8. QED
  BY <1>1, <1>2, <1>4, <1>6, <1>7 DEF ComputedFrom

(* A phi has taken the operand of the block left last.                      *)
LEMMA PhiOperand ==
  ASSUME NEW n \in Nat, NEW a \in Activations(n), a.fn \in Instrumented, StandsAt(a),
         Code[a.at].op = "phi"
  PROVE  /\ Incoming[a.at][a.from] \in {0} \cup (UsedValues \cap Inst)
         /\ a.at \in DOMAIN Incoming /\ a.from \in DOMAIN Incoming[a.at]
<1>1. a.at \in Inst
  BY DEF StandsAt
<1>2. PICK j \in Predecessors(Code[a.at].bb) : a.from = Code[j].bb
  BY DEF StandsAt
<1>3. a.at \in DOMAIN Incoming /\ a.from \in DOMAIN Incoming[a.at]
  BY <1>1, <1>2, ValueAssumption
<1>4. Incoming[a.at][a.from] \in UsedValues
  <2>1. PICK S : S = {Incoming[a.at][b] : b \in DOMAIN Incoming[a.at]}
    OBVIOUS
  <2>2. Incoming[a.at][a.from] \in S
    BY <1>3, <2>1
  <2> DEFINE T == {{Incoming[i][b] : b \in DOMAIN Incoming[i]} : i \in DOMAIN Incoming}
             R == UNION {ToSet(Code[i].uses) : i \in Inst}
  <2>3. S \in T
    BY ONLY <1>3, <2>1
  <2>4. UsedValues = R \cup UNION T
    BY DEF UsedValues
  <2> HIDE DEF T, R
  <2>5. QED
    BY ONLY <2>2, <2>3, <2>4
<1>5. QED
  BY <1>3, <1>4, ValueAssumption

PhiValue(u, values) == IF u = 0 THEN 0 ELSE values[u]
PhiDone(a, u) ==
  [a EXCEPT !.by[a.at] = PhiValue(u, a.exit.by), !.val[a.at] = PhiValue(u, a.exit.val),
            !.at = @ + 1]

LEMMA PhiOK ==
  ASSUME NEW n \in Nat, NEW a \in Activations(n), a.fn \in Instrumented, StandsAt(a),
         Code[a.at].op = "phi"
  PROVE  LET u == Incoming[a.at][a.from]
             c == PhiDone(a, u) IN
         /\ c \in Activations(n) /\ c.fn = a.fn /\ c.at = a.at + 1
         /\ c.by = [a.by EXCEPT ![a.at] = PhiValue(u, a.exit.by)]
         /\ c.val = [a.val EXCEPT ![a.at] = PhiValue(u, a.exit.val)]
         /\ c.from = a.from /\ c.exit = a.exit
         /\ StandsAt(c)
<1>1. PICK i : i = a.at
  OBVIOUS
<1>2. i \in Inst /\ Code[i].fn = a.fn /\ i \in Nat
  BY <1>1, InstType DEF StandsAt
<1>3. /\ i + 1 \in Inst /\ Code[i + 1].fn = a.fn /\ Code[i + 1].bb = Code[i].bb
  BY <1>1, <1>2, NextInst
<1>4. PICK u : u = Incoming[i][a.from]
  OBVIOUS
<1>5. u \in {0} \cup Inst
  BY <1>1, <1>4, PhiOperand
<1>6. PICK v \in 0 .. n, w \in 0 .. n : v = PhiValue(u, a.exit.by) /\ w = PhiValue(u, a.exit.val)
  BY <1>5, ActivationFields DEF PhiValue, Values
<1>7. PICK by, val : by = [a.by EXCEPT ![i] = v] /\ val = [a.val EXCEPT ![i] = w]
  OBVIOUS
<1>8. by \in Values(n) /\ val \in Values(n)
  BY <1>7, ActivationFields DEF Values
<1>9. PICK c : c = PhiDone(a, u)
  OBVIOUS
<1>10. c = [a EXCEPT !.by = by, !.val = val, !.at = i + 1]
  BY <1>1, <1>6, <1>7, <1>9 DEF Activations, PhiDone
<1>11. /\ c \in Activations(n) /\ c.fn = a.fn /\ c.at = i + 1 /\ c.by = by /\ c.val = val
       /\ c.from = a.from /\ c.exit = a.exit
  BY ONLY <1>3, <1>8, <1>10, a \in Activations(n) DEF Activations
<1>12. StandsAt(c)
  <2>1. \E j \in Predecessors(Code[i + 1].bb) : c.from = Code[j].bb
    BY <1>1, <1>3, <1>11 DEF StandsAt
  <2>2. ASSUME NEW x \in Inst, ~EarlierPhi(c, x)
        PROVE  c.exit.by[x] = c.by[x] /\ c.exit.val[x] = c.val[x]
    <3>1. x \in Nat
      BY InstType
    <3>2. ~ (Code[x].op = "phi" /\ Code[x].bb = Code[i].bb /\ x < i + 1)
      BY ONLY <1>3, <1>11, <2>2 DEF EarlierPhi
    <3>3. x # i
      BY <1>1, <1>2, <3>2, Code[a.at].op = "phi"
    <3>4. ~EarlierPhi(a, x)
      BY ONLY <1>1, <1>2, <3>1, <3>2 DEF EarlierPhi
    <3>5. a.exit.by[x] = a.by[x] /\ a.exit.val[x] = a.val[x]
      BY <3>4 DEF StandsAt
    <3>6. by[x] = a.by[x] /\ val[x] = a.val[x]
      BY <1>7, <3>3, ActivationFields DEF Values
    <3>7. QED
      BY ONLY <1>11, <3>5, <3>6
  <2>3. QED
    BY ONLY <1>2, <1>3, <1>11, <2>1, <2>2 DEF StandsAt
<1>13. QED
  BY ONLY <1>1, <1>4, <1>6, <1>7, <1>9, <1>11, <1>12

(* A call is over. *)
LEMMA ResumeOK ==
  ASSUME NEW n \in Nat, NEW a \in Activations(n), a.fn \in Instrumented, StandsAt(a),
         Waits(a), NEW v \in 0 .. n
  PROVE  LET c == Resume(a, v) IN
         /\ c \in Activations(n) /\ c.fn = a.fn /\ StandsAt(c)
         /\ c.by = a.by /\ c.val = [a.val EXCEPT ![a.at] = v]
         /\ \/ Code[c.at].op # "phi" /\ c.exit = a.exit
            \/ c.from = Code[a.at].bb /\ c.exit = [by |-> c.by, val |-> c.val]
<1>1. a.at \in Inst /\ Code[a.at].fn = a.fn /\ Code[a.at].op \in {"call", "invoke"}
  BY DEF StandsAt, Waits
<1>2. PICK val : val = [a.val EXCEPT ![a.at] = v]
  OBVIOUS
<1>3. val \in Values(n)
  BY <1>2, ActivationFields DEF Values
<1>4. PICK d : d = [a EXCEPT !.val = val]
  OBVIOUS
<1>5. /\ d \in Activations(n) /\ d.fn = a.fn /\ d.at = a.at /\ d.by = a.by /\ d.val = val
      /\ d.from = a.from /\ d.exit = a.exit
  BY ONLY <1>3, <1>4, a \in Activations(n) DEF Activations
<1>6. d = [a EXCEPT !.val[a.at] = v]
  BY <1>2, <1>4
<1>7. CASE Code[a.at].op = "invoke"
  <2>1. Len(Code[a.at].to) = 2 /\ Code[a.at].to \in Seq(Block)
    BY <1>1, <1>7, CodeAssumption, InstType
  <2>2. PICK b : b = Code[a.at].to[1]
    OBVIOUS
  <2>3. b \in ToSet(Code[a.at].to)
    BY ONLY <2>1, <2>2, LenProperties DEF ToSet
  <2>4. Resume(a, v) = Leave(d, b)
    BY ONLY <1>6, <1>7, <2>2 DEF Resume
  <2>5. PICK c : c = Leave(d, b)
    OBVIOUS
  <2>6. /\ c \in Activations(n) /\ c.fn = d.fn /\ c.by = d.by /\ c.val = d.val
        /\ c.from = Code[d.at].bb /\ c.exit = [by |-> d.by, val |-> d.val] /\ StandsAt(c)
    BY <1>1, <1>5, <2>3, <2>5, LeaveOK
  <2>7. QED
    BY ONLY <1>2, <1>5, <2>4, <2>5, <2>6
<1>8. CASE Code[a.at].op = "call"
  <2>1. PICK i : i = a.at + 1
    OBVIOUS
  <2>2. i \in Inst /\ Code[i].fn = a.fn /\ Code[i].op # "phi"
    BY <1>1, <1>8, <2>1, NextInst
  <2>3. PICK c : c = [d EXCEPT !.at = i]
    OBVIOUS
  <2>4. /\ c \in Activations(n) /\ c.fn = d.fn /\ c.at = i /\ c.by = d.by /\ c.val = d.val
        /\ c.exit = d.exit
    BY ONLY <1>5, <2>2, <2>3 DEF Activations
  <2>5. Resume(a, v) = c
    BY ONLY <1>5, <1>6, <1>8, <2>1, <2>3 DEF Resume
  <2>6. StandsAt(c)
    BY ONLY <1>5, <2>2, <2>4 DEF StandsAt
  <2>7. QED
    BY ONLY <1>2, <1>5, <2>2, <2>4, <2>5, <2>6
<1>9. QED
  BY <1>1, <1>7, <1>8

-----------------------------------------------------------------------------
(* The stack of activations *)

IsSeq(s) == \E S : s \in Seq(S)

(* An instrumented function calls one of the functions that it can call.    *)
Calls(a, b) == a.fn \in Instrumented => b.fn \in Code[a.at].callees

(* Callers wait; uninstrumented code is called by instrumented functions.   *)
StackOK(r, n) ==
  /\ r \in Seq(Activations(n))
  /\ \A k \in 1 .. Len(r) : StandsAt(r[k])
  /\ \A k \in 1 .. Len(r) : k < Len(r) => Waits(r[k])
  /\ \A k \in 1 .. Len(r) : k < Len(r) => Calls(r[k], r[k + 1])
  /\ \A k \in 1 .. Len(r) : r[k].fn \in External => k > 1 /\ r[k - 1].fn \in Instrumented

LEMMA StackFields ==
  ASSUME NEW n \in Nat, NEW r, StackOK(r, n)
  PROVE  /\ Len(r) \in Nat /\ DOMAIN r = 1 .. Len(r) /\ r \in Seq(Activations(n))
         /\ r # <<>> <=> Len(r) > 0
         /\ \A k \in 1 .. Len(r) : r[k] \in Activations(n) /\ StandsAt(r[k])
         /\ r # <<>> => Last(r) = r[Len(r)] /\ Front(r) = SubSeq(r, 1, Len(r) - 1)
  BY LenProperties, EmptySeq, ElementOfSeq DEF StackOK, Last, Front

LEMMA GrowStack ==
  ASSUME NEW n \in Nat, NEW m \in Nat, n <= m, NEW r, StackOK(r, n)
  PROVE  StackOK(r, m)
<1>1. r \in Seq(Activations(m))
  BY ValuesGrow, SeqMonotonic DEF StackOK
<1>2. QED
  BY ONLY <1>1, StackOK(r, n) DEF StackOK

(* The activations above k are left, and k has become a. *)
CutTo(r, k, a) == Append(SubSeq(r, 1, k - 1), a)

LEMMA CutStack ==
  ASSUME NEW n \in Nat, NEW r, StackOK(r, n), NEW k \in 1 .. Len(r),
         NEW a \in Activations(n), StandsAt(a), a.fn = r[k].fn
  PROVE  /\ StackOK(CutTo(r, k, a), n) /\ Len(CutTo(r, k, a)) = k
         /\ CutTo(r, k, a)[k] = a /\ \A i \in 1 .. k - 1 : CutTo(r, k, a)[i] = r[i]
<1>1. Len(r) \in Nat /\ \A i \in 1 .. Len(r) : r[i] \in Activations(n)
  BY StackFields
<1>2. PICK s : s = SubSeq(r, 1, k - 1)
  OBVIOUS
<1>3. s \in Seq(Activations(n)) /\ Len(s) = k - 1 /\ \A i \in 1 .. k - 1 : s[i] = r[i]
  <2>1. k - 1 \in Int /\ 1 \in Int /\ \A i \in 1 .. k - 1 : r[i] \in Activations(n)
    BY <1>1
  <2>2. /\ s \in Seq(Activations(n)) /\ Len(s) = IF 1 <= k - 1 THEN k - 1 - 1 + 1 ELSE 0
        /\ \A i \in 1 .. k - 1 - 1 + 1 : s[i] = r[1 + i - 1]
    BY ONLY <1>2, <2>1, SubSeqProperties
  <2>3. QED
    BY <1>1, <2>2
<1>4. PICK q : q = Append(s, a)
  OBVIOUS
<1>5. /\ q \in Seq(Activations(n)) /\ Len(q) = k - 1 + 1
      /\ \A i \in 1 .. k - 1 : q[i] = s[i]
      /\ q[k - 1 + 1] = a
  BY ONLY <1>3, <1>4, a \in Activations(n), AppendProperties
<1>6. Len(q) = k /\ q[k] = a /\ \A i \in 1 .. k - 1 : q[i] = r[i]
  BY <1>1, <1>3, <1>5
<1>7. \A i \in 1 .. k : i = k \/ i \in 1 .. k - 1
  BY <1>1
<1>8. \A i \in 1 .. k : q[i].fn = r[i].fn
  BY <1>6, <1>7
<1>9. StackOK(q, n)
  <2>1. \A i \in 1 .. k : StandsAt(q[i])
    BY <1>1, <1>6, <1>7, StackFields
  <2>2. \A i \in 1 .. k : i < k => Waits(q[i])
    <3>1. \A i \in 1 .. k - 1 : i \in 1 .. Len(r) /\ i < Len(r)
      BY <1>1
    <3>2. \A i \in 1 .. k - 1 : Waits(r[i])
      BY <3>1 DEF StackOK
    <3>3. QED
      BY <1>1, <1>6, <1>7, <3>2
  <2>3. \A i \in 1 .. k : q[i].fn \in External => i > 1 /\ q[i - 1].fn \in Instrumented
    <3>1. \A i \in 1 .. k : i \in 1 .. Len(r) /\ (i > 1 => i - 1 \in 1 .. k)
      BY <1>1
    <3>2. QED
      BY <1>8, <3>1 DEF StackOK
  <2>4. \A i \in 1 .. k : i < k => Calls(q[i], q[i + 1])
    <3>1. \A i \in 1 .. k - 1 : i \in 1 .. Len(r) /\ i < Len(r) /\ i + 1 \in 1 .. k
      BY <1>1
    <3>2. \A i \in 1 .. k - 1 : Calls(r[i], r[i + 1])
      BY <3>1 DEF StackOK
    <3>3. \A i \in 1 .. k - 1 : q[i] = r[i] /\ q[i + 1].fn = r[i + 1].fn
      BY <1>6, <1>8, <3>1
    <3>4. \A i \in 1 .. k - 1 : Calls(q[i], q[i + 1])
      BY <3>2, <3>3 DEF Calls
    <3>5. QED
      BY <1>1, <1>7, <3>4
  <2>5. QED
    BY ONLY <1>5, <1>6, <2>1, <2>2, <2>3, <2>4 DEF StackOK
<1>10. QED
  BY ONLY <1>2, <1>4, <1>6, <1>9 DEF CutTo

LEMMA PopStack ==
  ASSUME NEW n \in Nat, NEW r, StackOK(r, n), r # <<>>
  PROVE  /\ StackOK(Front(r), n) /\ Len(Front(r)) = Len(r) - 1
         /\ \A i \in 1 .. Len(r) - 1 : Front(r)[i] = r[i]
<1>1. PICK l \in Nat : l = Len(r)
  BY StackFields
<1>2. l > 0 /\ Front(r) = SubSeq(r, 1, l - 1) /\ \A i \in 1 .. l : r[i] \in Activations(n)
  BY <1>1, StackFields
<1>3. PICK s : s = SubSeq(r, 1, l - 1)
  OBVIOUS
<1>4. s \in Seq(Activations(n)) /\ Len(s) = l - 1 /\ \A i \in 1 .. l - 1 : s[i] = r[i]
  <2>1. l - 1 \in Int /\ 1 \in Int /\ \A i \in 1 .. l - 1 : r[i] \in Activations(n)
    BY <1>2
  <2>2. /\ s \in Seq(Activations(n)) /\ Len(s) = IF 1 <= l - 1 THEN l - 1 - 1 + 1 ELSE 0
        /\ \A i \in 1 .. l - 1 - 1 + 1 : s[i] = r[1 + i - 1]
    BY ONLY <1>3, <2>1, SubSeqProperties
  <2>3. QED
    BY <1>2, <2>2
<1>5. \A i \in 1 .. l - 1 : i \in 1 .. l /\ i < l /\ (i > 1 => i - 1 \in 1 .. l - 1)
  OBVIOUS
<1>6. StackOK(s, n)
  <2>1. \A i \in 1 .. l - 1 : StandsAt(s[i]) /\ Waits(s[i])
    BY <1>1, <1>4, <1>5 DEF StackOK
  <2>2. \A i \in 1 .. l - 1 : s[i].fn \in External => i > 1 /\ s[i - 1].fn \in Instrumented
    BY <1>1, <1>4, <1>5 DEF StackOK
  <2>3. \A i \in 1 .. l - 1 : i < l - 1 => Calls(s[i], s[i + 1])
    <3>1. \A i \in 1 .. l - 1 : i < l - 1 => i + 1 \in 1 .. l - 1
      OBVIOUS
    <3>2. \A i \in 1 .. l - 1 : Calls(r[i], r[i + 1])
      BY <1>1, <1>5 DEF StackOK
    <3>3. QED
      BY <1>4, <3>1, <3>2
  <2>4. QED
    BY ONLY <1>4, <2>1, <2>2, <2>3 DEF StackOK
<1>7. QED
  BY ONLY <1>1, <1>2, <1>3, <1>4, <1>6

LEMMA PushStack ==
  ASSUME NEW n \in Nat, NEW r, StackOK(r, n), r # <<>>, Waits(Last(r)),
         NEW f \in Instrumented \cup External, f \in External => Last(r).fn \in Instrumented,
         Calls(Last(r), Activation(f))
  PROVE  LET q == Append(r, Activation(f)) IN
         /\ StackOK(q, n) /\ Len(q) = Len(r) + 1 /\ q[Len(r) + 1] = Activation(f)
         /\ \A i \in 1 .. Len(r) : q[i] = r[i]
<1>1. PICK l \in Nat, a \in Activations(n) : l = Len(r) /\ a = Activation(f)
  BY StackFields, NewActivation
<1>2. a.fn = f /\ StandsAt(a)
  BY <1>1, NewActivation
<1>3. PICK q : q = Append(r, a)
  OBVIOUS
<1>4. /\ q \in Seq(Activations(n)) /\ Len(q) = l + 1 /\ q[l + 1] = a
      /\ \A i \in 1 .. l : q[i] = r[i]
  <2>1. r \in Seq(Activations(n))
    BY StackFields
  <2>2. QED
    BY ONLY <1>1, <1>3, <2>1, AppendProperties
<1>5. \A i \in 1 .. l + 1 : i = l + 1 \/ i \in 1 .. l
  OBVIOUS
<1>6. l > 0 /\ Last(r) = r[l]
  BY <1>1, StackFields
<1>7. StackOK(q, n)
  <2>1. \A i \in 1 .. l + 1 : StandsAt(q[i])
    BY <1>1, <1>2, <1>4, <1>5 DEF StackOK
  <2>2. \A i \in 1 .. l : Waits(r[i])
    <3>1. \A i \in 1 .. l : i < l \/ i = l
      OBVIOUS
    <3>2. QED
      BY <1>1, <1>6, <3>1 DEF StackOK
  <2>3. \A i \in 1 .. l + 1 : i < l + 1 => Waits(q[i])
    BY <1>4, <1>5, <2>2
  <2>4. ASSUME NEW i \in 1 .. l + 1, q[i].fn \in External
        PROVE  i > 1 /\ q[i - 1].fn \in Instrumented
    <3>1. CASE i = l + 1
      <4>1. i > 1 /\ i - 1 = l /\ l \in 1 .. l
        BY <1>6, <3>1
      <4>2. QED
        BY <1>2, <1>4, <1>6, <2>4, <3>1, <4>1
    <3>2. CASE i \in 1 .. l
      <4>1. i > 1 /\ r[i - 1].fn \in Instrumented
        BY <1>1, <1>4, <2>4, <3>2 DEF StackOK
      <4>2. i - 1 \in 1 .. l
        BY <3>2, <4>1
      <4>3. QED
        BY <1>4, <4>1, <4>2
    <3>3. QED
      BY <1>5, <3>1, <3>2
  <2>5. ASSUME NEW i \in 1 .. l PROVE Calls(q[i], q[i + 1])
    <3>1. CASE i = l
      BY <1>1, <1>4, <1>6, <3>1
    <3>2. CASE i < l
      <4>1. i + 1 \in 1 .. l /\ Calls(r[i], r[i + 1])
        BY <1>1, <3>2 DEF StackOK
      <4>2. QED
        BY <1>4, <4>1
    <3>3. QED
      BY <3>1, <3>2
  <2>6. \A i \in 1 .. l + 1 : i < l + 1 => Calls(q[i], q[i + 1])
    BY <1>5, <2>5
  <2>7. QED
    BY ONLY <1>4, <2>1, <2>3, <2>4, <2>6 DEF StackOK
<1>8. QED
  BY ONLY <1>1, <1>3, <1>4, <1>7

(* The innermost activation has become a. *)
LEMMA ReplaceTop ==
  ASSUME NEW n \in Nat, NEW r, StackOK(r, n), r # <<>>,
         NEW a \in Activations(n), StandsAt(a), a.fn = Last(r).fn
  PROVE  LET q == Append(Front(r), a) IN
         /\ StackOK(q, n) /\ Len(q) = Len(r) /\ q # <<>> /\ Last(q) = a
         /\ \A i \in 1 .. Len(r) - 1 : q[i] = r[i]
<1>1. PICK l \in Nat : l = Len(r)
  BY StackFields
<1>2. l > 0 /\ Front(r) = SubSeq(r, 1, l - 1) /\ Last(r) = r[l]
  BY <1>1, StackFields
<1>3. PICK q : q = CutTo(r, l, a)
  OBVIOUS
<1>4. /\ StackOK(q, n) /\ Len(q) = l /\ q[l] = a /\ \A i \in 1 .. l - 1 : q[i] = r[i]
  <2>1. l \in 1 .. Len(r) /\ a.fn = r[l].fn
    BY <1>1, <1>2
  <2>2. QED
    BY <1>1, <1>3, <2>1, CutStack
<1>5. q # <<>> /\ Last(q) = a
  BY <1>2, <1>4, StackFields
<1>6. q = Append(Front(r), a)
  BY <1>2, <1>3 DEF CutTo
<1>7. QED
  BY ONLY <1>1, <1>4, <1>5, <1>6

LEMMA SeqFields ==
  ASSUME NEW s, IsSeq(s)
  PROVE  Len(s) \in Nat /\ DOMAIN s = 1 .. Len(s) /\ (s = <<>> <=> Len(s) = 0)
  BY LenProperties, EmptySeq DEF IsSeq

LEMMA AppendFields ==
  ASSUME NEW s, IsSeq(s), NEW e
  PROVE  LET t == Append(s, e) IN
         /\ IsSeq(t) /\ Len(t) = Len(s) + 1 /\ DOMAIN t = 1 .. Len(s) + 1
         /\ \A k \in 1 .. Len(s) : t[k] = s[k]
         /\ t[Len(s) + 1] = e
<1>1. PICK S : s \in Seq(S)
  BY DEF IsSeq
<1>2. s \in Seq(S \cup {e}) /\ e \in S \cup {e}
  BY <1>1, SeqMonotonic
<1>3. PICK t : t = Append(s, e)
  OBVIOUS
<1>4. /\ t \in Seq(S \cup {e}) /\ Len(t) = Len(s) + 1
      /\ \A k \in 1 .. Len(s) : t[k] = s[k]
      /\ t[Len(s) + 1] = e
  BY ONLY <1>2, <1>3, AppendProperties
<1>5. DOMAIN t = 1 .. Len(s) + 1 /\ IsSeq(t)
  BY ONLY <1>4, LenProperties DEF IsSeq
<1>6. QED
  BY ONLY <1>3, <1>4, <1>5

-----------------------------------------------------------------------------
(* The program keeps to its types. *)

ProgramInv ==
  /\ IsSeq(seen) /\ Len(seen) <= MaxTime
  /\ StackOK(real, Len(seen))
  /\ memory \in [Address -> 0 .. Len(seen)]
  /\ pc \in {"run", "call", "end"} /\ tracing \in {"before", "on", "over"}
  /\ pc = "call" => real # <<>> /\ Running.fn \in Instrumented /\ Waits(Running)
  /\ tracing = "before" => seen = <<>>

ProgramNext ==
  \/ Phi \/ Operation
  \/ \E a : Load(a) \/ Store(a)
  \/ \E b \in Block : Branch(b)
  \/ Call \/ Return
  \/ \E f \in Instrumented \cup External : Enter(f)
  \/ ReturnExternal \/ (\E k \in 1 .. MaxDepth : Throw(k))
  \/ StartTrace \/ StopTrace

LEMMA ProgramInitOK == ProgramInit => ProgramInv
<1> SUFFICES ASSUME ProgramInit PROVE ProgramInv
  OBVIOUS
<1>1. PICK a \in Activations(0) : a = Activation(Main)
  BY NewActivation, CodeAssumption
<1>2. a.fn = Main /\ StandsAt(a)
  BY <1>1, NewActivation, CodeAssumption
<1>3. PICK r : r = <<a>>
  OBVIOUS
<1>4. r \in Seq(Activations(0)) /\ Len(r) = 1 /\ r[1] = a
  BY <1>3
<1>5. StackOK(r, 0)
  <2>1. \A k \in 1 .. 1 : k = 1
    OBVIOUS
  <2>2. Main \notin External
    BY CodeAssumption
  <2>3. QED
    BY <1>2, <1>4, <2>1, <2>2 DEF StackOK
<1>6. real = r /\ seen = <<>> /\ pc = "run" /\ tracing = "before" /\ memory = [x \in Address |-> 0]
  BY <1>1, <1>3 DEF ProgramInit
<1>7. Len(seen) = 0 /\ IsSeq(seen)
  BY <1>6, EmptySeq DEF IsSeq
<1>8. QED
  BY <1>5, <1>6, <1>7, BoundAssumption DEF ProgramInv

LEMMA RunningFields ==
  ASSUME ProgramInv, real # <<>>
  PROVE  /\ Running \in Activations(Len(seen)) /\ StandsAt(Running)
         /\ Running = real[Len(real)] /\ Len(real) \in Nat /\ Len(real) > 0
         /\ Len(seen) \in Nat
<1>1. Len(seen) \in Nat /\ StackOK(real, Len(seen))
  BY SeqFields DEF ProgramInv
<1>2. QED
  BY <1>1, StackFields DEF Running

LEMMA InCodeFields ==
  ASSUME ProgramInv, NEW ops, InCode(ops)
  PROVE  /\ real # <<>> /\ Running.fn \in Instrumented /\ Current \in Inst
         /\ Code[Current].fn = Running.fn /\ Code[Current].op \in ops
         /\ pc = "run" /\ tracing # "over" /\ Current = Running.at
  BY RunningFields DEF InCode, StandsAt, Current

(* What is executed while the trace is written enters it. *)
LEMMA SeenGrows ==
  ASSUME ProgramInv, NEW access, Execute(access)
  PROVE  /\ IsSeq(seen') /\ Len(seen') \in Nat /\ Len(seen') <= MaxTime
         /\ Len(seen) \in Nat /\ Len(seen) <= Len(seen')
         /\ Now \in 0 .. Len(seen')
         /\ tracing = "before" => seen' = <<>>
<1>1. IsSeq(seen) /\ Len(seen) \in Nat /\ Len(seen) <= MaxTime
  BY SeqFields DEF ProgramInv
<1>2. CASE tracing = "on"
  <2>1. Len(seen) < MaxTime /\ seen' = Append(seen, Truth(access))
    BY <1>2 DEF Execute
  <2>2. PICK t : t = Truth(access)
    OBVIOUS
  <2>3. IsSeq(seen') /\ Len(seen') = Len(seen) + 1
    BY <1>1, <2>1, <2>2, AppendFields
  <2>4. Now = Len(seen) + 1
    BY <1>2 DEF Now
  <2>5. QED
    BY <1>1, <1>2, <2>1, <2>3, <2>4, BoundAssumption
<1>3. CASE tracing # "on"
  BY <1>1, <1>3 DEF Execute, Now, ProgramInv
<1>4. QED
  BY <1>2, <1>3

LEMMA MemoryGrows ==
  ASSUME NEW n \in Nat, NEW m \in Nat, n <= m
  PROVE  [Address -> 0 .. n] \subseteq [Address -> 0 .. m]
<1>1. 0 .. n \subseteq 0 .. m
  OBVIOUS
<1>2. QED
  BY <1>1

(* The running activation has become a. *)
LEMMA RunningChanged ==
  ASSUME ProgramInv, real # <<>>, NEW a, NEW m \in Nat, Len(seen) <= m, a \in Activations(m),
         StandsAt(a), a.fn = Running.fn
  PROVE  LET q == Append(Front(real), a) IN
         StackOK(q, m) /\ Len(q) = Len(real) /\ q # <<>> /\ Last(q) = a
<1>1. PICK n \in Nat, r \in {real} : r = real /\ n = Len(seen)
  BY RunningFields
<1>2. StackOK(r, n) /\ n <= m
  BY <1>1 DEF ProgramInv
<1>3. StackOK(r, m)
  BY <1>2, GrowStack
<1>4. a.fn = Last(r).fn /\ r # <<>>
  BY <1>1 DEF Running
<1>5. QED
  BY <1>1, <1>3, <1>4, ReplaceTop

(* The running activation is the only thing that changes. *)
LEMMA OneStep ==
  ASSUME ProgramInv, real # <<>>, pc = "run", UNCHANGED <<pc, tracing>>,
         IsSeq(seen'), Len(seen') <= MaxTime, Len(seen) <= Len(seen'), Len(seen') \in Nat,
         tracing = "before" => seen' = <<>>,
         memory' \in [Address -> 0 .. Len(seen')],
         NEW a, a \in Activations(Len(seen')), StandsAt(a), a.fn = Running.fn,
         real' = Append(Front(real), a)
  PROVE  ProgramInv'
<1>1. PICK m \in Nat : m = Len(seen')
  OBVIOUS
<1>2. StackOK(real', m)
  BY <1>1, RunningChanged
<1>3. QED
  BY <1>1, <1>2 DEF ProgramInv

LEMMA PhiStep == ASSUME ProgramInv, Phi PROVE ProgramInv'
<1>1. /\ real # <<>> /\ Running.fn \in Instrumented /\ Current \in Inst
      /\ Code[Current].op = "phi" /\ pc = "run" /\ Current = Running.at
  BY InCodeFields DEF Phi
<1>2. PICK n \in Nat, a \in {Running}, r \in {real} : a = Running /\ n = Len(seen) /\ r = real
  BY <1>1, RunningFields
<1>3. a \in Activations(n) /\ StandsAt(a) /\ StackOK(r, n) /\ a = r[Len(r)] /\ a = Last(r)
  BY <1>1, <1>2, RunningFields DEF ProgramInv, Running
<1>4. PICK u : u = Incoming[a.at][a.from]
  OBVIOUS
<1>5. PICK c : c = PhiDone(a, u)
  OBVIOUS
<1>6. c \in Activations(n) /\ c.fn = a.fn /\ StandsAt(c)
  BY <1>1, <1>2, <1>3, <1>4, <1>5, PhiOK
<1>7. real' = Append(Front(real), c)
  BY <1>1, <1>2, <1>4, <1>5 DEF Phi, PhiValue, PhiDone
<1>8. UNCHANGED <<pc, memory, tracing, seen>>
  BY DEF Phi
<1>9. QED
  BY <1>1, <1>2, <1>6, <1>7, <1>8, OneStep DEF ProgramInv

(* Computed is the running activation after an instruction that is no       *)
(* branch, call or phi.                                                     *)
LEMMA ComputeStep ==
  ASSUME ProgramInv, real # <<>>, Running.fn \in Instrumented, Current \in Inst,
         Code[Current].fn = Running.fn, Current = Running.at,
         Code[Current].op \notin {"phi", "br", "invoke", "ret"},
         NEW m \in Nat, Len(seen) <= m, Now \in 0 .. m
  PROVE  /\ Compute \in Activations(m) /\ StandsAt(Compute) /\ Compute.fn = Running.fn
         /\ Compute.by = [Running.by EXCEPT ![Current] = Now]
         /\ Compute.val = [Running.val EXCEPT ![Current] = Now]
         /\ Compute.from = Running.from /\ Compute.exit = Running.exit
         /\ Compute.at = Current + 1 /\ Code[Compute.at].op # "phi"
<1>1. PICK a \in {Running}, n \in Nat, v \in 0 .. m : a = Running /\ n = Len(seen) /\ v = Now
  BY RunningFields
<1>2. a \in Activations(m)
  BY <1>1, RunningFields, ValuesGrow
<1>3. PICK c : c = Computed(a, v, v)
  OBVIOUS
<1>4. Compute = c
  BY <1>1, <1>3 DEF Compute, Computed
<1>5. /\ c \in Activations(m) /\ c.fn = a.fn /\ c.at = a.at + 1
      /\ c.by = [a.by EXCEPT ![a.at] = v] /\ c.val = [a.val EXCEPT ![a.at] = v]
      /\ c.from = a.from /\ c.exit = a.exit
      /\ StandsAt(c) /\ Code[c.at].op # "phi"
  <2>1. /\ a.fn \in Instrumented /\ a.at \in Inst /\ Code[a.at].fn = a.fn
        /\ Code[a.at].op \notin {"phi", "br", "invoke", "ret"}
    BY <1>1
  <2>2. QED
    <3>1. ComputedFrom(Computed(a, v, v), a, v, v, m)
      BY ONLY <1>2, <2>1, ComputeOK, m \in Nat, v \in 0 .. m
    <3>2. QED
      BY ONLY <1>3, <3>1 DEF ComputedFrom
<1>6. QED
  BY <1>1, <1>4, <1>5

LEMMA StraightStep ==
  ASSUME ProgramInv, Operation \/ (\E a : Load(a) \/ Store(a)) PROVE ProgramInv'
<1>1. PICK access : /\ InCode({"op", "landingpad", "load", "store"}) /\ Execute(access)
                    /\ real' = Append(Front(real), Compute) /\ UNCHANGED <<pc, tracing>>
                    /\ \/ UNCHANGED memory
                       \/ memory' = [a \in Address |-> IF a \in Bytes(access) THEN Now ELSE memory[a]]
  BY DEF Operation, Load, Store, InCode
<1>2. /\ real # <<>> /\ Running.fn \in Instrumented /\ Current \in Inst
      /\ Code[Current].fn = Running.fn /\ Code[Current].op \in {"op", "landingpad", "load", "store"}
      /\ pc = "run" /\ Current = Running.at
  BY <1>1, InCodeFields
<1>3. /\ IsSeq(seen') /\ Len(seen') \in Nat /\ Len(seen') <= MaxTime
      /\ Len(seen) \in Nat /\ Len(seen) <= Len(seen') /\ Now \in 0 .. Len(seen')
      /\ tracing = "before" => seen' = <<>>
  BY <1>1, SeenGrows
<1>4. memory' \in [Address -> 0 .. Len(seen')]
  <2>1. memory \in [Address -> 0 .. Len(seen')]
    BY <1>3, MemoryGrows DEF ProgramInv
  <2>2. QED
    BY <1>1, <1>3, <2>1
<1>5. PICK m \in Nat, a \in {Compute} : m = Len(seen') /\ a = Compute
  BY <1>3
<1>6. a \in Activations(m) /\ StandsAt(a) /\ a.fn = Running.fn
  BY <1>2, <1>3, <1>5, ComputeStep
<1>7. QED
  BY <1>1, <1>2, <1>3, <1>4, <1>5, <1>6, OneStep

(* The running activation has executed a branch or a call. *)
Left == [Running EXCEPT !.by[Current] = Now]

LEMMA LeftFields ==
  ASSUME ProgramInv, real # <<>>, Running.fn \in Instrumented, Current \in Inst,
         Current = Running.at, Code[Current].op # "phi",
         NEW m \in Nat, Len(seen) <= m, Now \in 0 .. m
  PROVE  /\ Left \in Activations(m) /\ Left.fn = Running.fn /\ Left.at = Current
         /\ Left.by = [Running.by EXCEPT ![Current] = Now] /\ Left.val = Running.val
         /\ Left.from = Running.from /\ Left.exit = Running.exit /\ StandsAt(Left)
<1>1. PICK a \in {Running}, n \in Nat, v \in 0 .. m : a = Running /\ n = Len(seen) /\ v = Now
  BY RunningFields
<1>2. a \in Activations(m) /\ StandsAt(a)
  BY <1>1, RunningFields, ValuesGrow
<1>3. PICK by : by = [a.by EXCEPT ![Current] = v]
  OBVIOUS
<1>4. by \in Values(m)
  BY <1>2, <1>3, ActivationFields DEF Values
<1>5. PICK c : c = [a EXCEPT !.by = by]
  OBVIOUS
<1>6. /\ c \in Activations(m) /\ c.fn = a.fn /\ c.at = a.at /\ c.by = by /\ c.val = a.val
      /\ c.from = a.from /\ c.exit = a.exit
  BY ONLY <1>2, <1>4, <1>5 DEF Activations
<1>7. Left = c
  BY <1>1, <1>3, <1>5 DEF Left
<1>8. StandsAt(c)
  BY <1>1, <1>2, <1>6 DEF StandsAt
<1>9. QED
  BY <1>1, <1>3, <1>6, <1>7, <1>8

LEMMA BranchStep == ASSUME ProgramInv, NEW b \in Block, Branch(b) PROVE ProgramInv'
<1>1. /\ InCode({"br"}) /\ b \in ToSet(Code[Current].to) /\ Execute(NoAccess)
      /\ real' = Append(Front(real), Leave(Left, b)) /\ UNCHANGED <<pc, memory, tracing>>
  BY DEF Branch, Left
<1>2. /\ real # <<>> /\ Running.fn \in Instrumented /\ Current \in Inst
      /\ Code[Current].fn = Running.fn /\ Code[Current].op = "br"
      /\ pc = "run" /\ Current = Running.at
  BY <1>1, InCodeFields
<1>3. /\ IsSeq(seen') /\ Len(seen') \in Nat /\ Len(seen') <= MaxTime
      /\ Len(seen) \in Nat /\ Len(seen) <= Len(seen') /\ Now \in 0 .. Len(seen')
      /\ tracing = "before" => seen' = <<>>
  BY <1>1, SeenGrows
<1>4. memory' \in [Address -> 0 .. Len(seen')]
  BY <1>1, <1>3, MemoryGrows DEF ProgramInv
<1>5. PICK m \in Nat, a \in {Left} : m = Len(seen') /\ a = Left
  BY <1>3
<1>6. a \in Activations(m) /\ a.fn = Running.fn /\ a.at = Current
  BY <1>2, <1>3, <1>5, LeftFields
<1>7. PICK c : c = Leave(a, b)
  OBVIOUS
<1>8. c \in Activations(m) /\ c.fn = a.fn /\ StandsAt(c)
  <2>1. /\ a.fn \in Instrumented /\ a.at \in Inst /\ Code[a.at].fn = a.fn
        /\ b \in ToSet(Code[a.at].to)
    BY <1>1, <1>2, <1>6
  <2>2. QED
    BY ONLY <1>6, <1>7, <2>1, LeaveOK, m \in Nat
<1>9. real' = Append(Front(real), c)
  BY <1>1, <1>5, <1>7
<1>10. QED
  BY <1>1, <1>2, <1>3, <1>4, <1>5, <1>6, <1>8, <1>9, OneStep

LEMMA CallStep == ASSUME ProgramInv, Call PROVE ProgramInv'
<1>1. /\ InCode({"call", "invoke"}) /\ Execute(NoAccess)
      /\ real' = Append(Front(real), Left) /\ pc' = "call" /\ UNCHANGED <<memory, tracing>>
  BY DEF Call, Left
<1>2. /\ real # <<>> /\ Running.fn \in Instrumented /\ Current \in Inst
      /\ Code[Current].fn = Running.fn /\ Code[Current].op \in {"call", "invoke"}
      /\ pc = "run" /\ Current = Running.at
  BY <1>1, InCodeFields
<1>3. /\ IsSeq(seen') /\ Len(seen') \in Nat /\ Len(seen') <= MaxTime
      /\ Len(seen) \in Nat /\ Len(seen) <= Len(seen') /\ Now \in 0 .. Len(seen')
      /\ tracing = "before" => seen' = <<>>
  BY <1>1, SeenGrows
<1>4. memory' \in [Address -> 0 .. Len(seen')]
  BY <1>1, <1>3, MemoryGrows DEF ProgramInv
<1>5. PICK m \in Nat, a \in {Left} : m = Len(seen') /\ a = Left
  BY <1>3
<1>6. a \in Activations(m) /\ a.fn = Running.fn /\ a.at = Current /\ StandsAt(a)
  BY <1>2, <1>3, <1>5, LeftFields
<1>7. StackOK(real', m) /\ real' # <<>> /\ Last(real') = a
  BY <1>1, <1>2, <1>3, <1>5, <1>6, RunningChanged
<1>8. Running' = a
  BY <1>7 DEF Running
<1>9. Waits(a) /\ a.fn \in Instrumented
  BY <1>2, <1>6 DEF Waits
<1>10. QED
  BY <1>1, <1>3, <1>4, <1>5, <1>7, <1>8, <1>9 DEF ProgramInv

(* A caller goes on when the callee, the innermost activation, is over.     *)
LEMMA ReturnedStack ==
  ASSUME NEW n \in Nat, NEW r, StackOK(r, n), r # <<>>, Front(r) # <<>>,
         Last(Front(r)).fn \in Instrumented, NEW v \in 0 .. n
  PROVE  StackOK(Append(Front(Front(r)), Resume(Last(Front(r)), v)), n)
<1>1. PICK s : s = Front(r)
  OBVIOUS
<1>2. StackOK(s, n) /\ Len(s) = Len(r) - 1 /\ s # <<>> /\ Len(r) \in Nat
  BY <1>1, PopStack, StackFields
<1>3. PICK a : a = Last(s)
  OBVIOUS
<1>4. a = s[Len(s)] /\ a \in Activations(n) /\ StandsAt(a)
  BY <1>2, <1>3, StackFields
<1>5. Waits(a)
  <2>1. PICK l \in Nat : l = Len(r)
    BY <1>2
  <2>2. l - 1 > 0 /\ Len(s) = l - 1
    BY <1>2, <2>1, StackFields
  <2>3. l - 1 \in 1 .. l - 1 /\ l - 1 \in 1 .. l /\ l - 1 < l
    BY <2>2
  <2>4. s[l - 1] = r[l - 1]
    BY <1>1, <2>1, <2>3, PopStack
  <2>5. QED
    BY <1>4, <2>1, <2>2, <2>3, <2>4 DEF StackOK
<1>6. PICK c : c = Resume(a, v)
  OBVIOUS
<1>7. c \in Activations(n) /\ c.fn = a.fn /\ StandsAt(c)
  BY <1>1, <1>3, <1>4, <1>5, <1>6, ResumeOK
<1>8. StackOK(Append(Front(s), c), n)
  BY <1>2, <1>3, <1>7, ReplaceTop
<1>9. QED
  BY <1>1, <1>3, <1>6, <1>8

(* The value of an operand of the instruction that executes. *)
LEMMA OperandsFields ==
  ASSUME ProgramInv, real # <<>>, Current \in Inst
  PROVE  /\ Operands \in Seq(0 .. Len(seen)) /\ Len(Operands) = Len(Code[Current].uses)
         /\ DOMAIN Operands = DOMAIN Code[Current].uses
         /\ \A k \in DOMAIN Code[Current].uses : Operands[k] = Value(Code[Current].uses[k])
<1>1. PICK u : u = Code[Current].uses
  OBVIOUS
<1>2. u \in Seq({0} \cup Inst) /\ Len(u) \in Nat /\ DOMAIN u = 1 .. Len(u)
  BY <1>1, InstType, LenProperties
<1>3. \A k \in 1 .. Len(u) : u[k] \in {0} \cup Inst
  BY ONLY <1>2, ElementOfSeq
<1>4. \A k \in 1 .. Len(u) : Value(u[k]) \in 0 .. Len(seen)
  BY <1>3, RunningFields, ActivationFields DEF Value, Values
<1>5. PICK o : o = [k \in 1 .. Len(u) |-> Value(u[k])]
  OBVIOUS
<1>6. Operands = o
  BY <1>1, <1>2, <1>5 DEF Operands
<1>7. o \in Seq(0 .. Len(seen)) /\ DOMAIN o = 1 .. Len(u)
  BY ONLY <1>2, <1>4, <1>5, IsASeq
<1>8. Len(o) = Len(u)
  BY ONLY <1>2, <1>7, LenProperties
<1>9. QED
  BY <1>1, <1>2, <1>5, <1>6, <1>7, <1>8

LEMMA ReturnStep == ASSUME ProgramInv, Return PROVE ProgramInv'
<1>1. InCode({"ret"}) /\ Execute(NoAccess) /\ UNCHANGED <<memory, tracing>>
  BY DEF Return
<1>2. /\ real # <<>> /\ Running.fn \in Instrumented /\ Current \in Inst /\ pc = "run"
  BY <1>1, InCodeFields
<1>3. /\ IsSeq(seen') /\ Len(seen') \in Nat /\ Len(seen') <= MaxTime
      /\ Len(seen) \in Nat /\ Len(seen) <= Len(seen')
      /\ tracing = "before" => seen' = <<>>
  BY <1>1, SeenGrows
<1>4. memory' \in [Address -> 0 .. Len(seen')]
  BY <1>1, <1>3, MemoryGrows DEF ProgramInv
<1>5. PICK m \in Nat, n \in Nat, r \in {real} : m = Len(seen') /\ n = Len(seen) /\ r = real
  BY <1>3
<1>6. StackOK(r, n) /\ StackOK(r, m) /\ r # <<>> /\ n <= m
  BY <1>2, <1>3, <1>5, GrowStack DEF ProgramInv
<1>7. PICK v \in 0 .. m : v = IF Operands = <<>> THEN 0 ELSE Operands[1]
  <2>1. Operands \in Seq(0 .. n)
    BY <1>2, <1>5, OperandsFields
  <2>2. PICK o : o = Operands
    OBVIOUS
  <2>3. o # <<>> => o[1] \in 0 .. n
    BY ONLY <2>1, <2>2, LenProperties, EmptySeq, ElementOfSeq
  <2>4. QED
    BY <1>6, <2>2, <2>3
<1>8. real' = IF Front(r) = <<>> \/ Last(Front(r)).fn \in External THEN Front(r)
              ELSE Append(Front(Front(r)), Resume(Last(Front(r)), v))
  BY <1>5, <1>7 DEF Return
<1>9. pc' \in {"run", "end"}
  BY DEF Return
<1>10. StackOK(real', m)
  <2>1. CASE Front(r) = <<>> \/ Last(Front(r)).fn \in External
    BY <1>6, <1>8, <2>1, PopStack
  <2>2. CASE ~ (Front(r) = <<>> \/ Last(Front(r)).fn \in External)
    <3>1. StackOK(Front(r), m)
      BY <1>6, PopStack
    <3>2. Last(Front(r)) \in Activations(m)
      <4>1. PICK s : s = Front(r)
        OBVIOUS
      <4>2. Last(s) = s[Len(s)] /\ Len(s) \in 1 .. Len(s)
        BY <2>2, <3>1, <4>1, StackFields
      <4>3. QED
        BY <3>1, <4>1, <4>2, StackFields
    <3>3. Last(Front(r)).fn \in Instrumented
      BY <2>2, <3>2, ActivationFields
    <3>4. QED
      BY <1>6, <1>8, <2>2, <3>3, ReturnedStack
  <2>3. QED
    BY <2>1, <2>2
<1>11. QED
  BY <1>1, <1>3, <1>4, <1>5, <1>9, <1>10 DEF ProgramInv

LEMMA EnterStep == ASSUME ProgramInv, NEW f \in Instrumented \cup External, Enter(f) PROVE ProgramInv'
<1>1. /\ real' = Append(real, Activation(f)) /\ pc' = "run" /\ UNCHANGED <<memory, tracing, seen>>
      /\ \/ pc = "call" /\ f \in Code[Current].callees
         \/ pc = "run" /\ real # <<>> /\ Running.fn \in External /\ f \in Instrumented
  BY DEF Enter
<1>2. Instrumented \cap External = {}
  BY CodeAssumption
<1>3. /\ real # <<>> /\ Waits(Running)
      /\ f \in External => Running.fn \in Instrumented
  BY <1>1, <1>2 DEF ProgramInv, Waits
<1>4. PICK n \in Nat, r \in {real} : n = Len(seen) /\ r = real
  BY <1>3, RunningFields
<1>5. StackOK(r, n) /\ r # <<>> /\ Running = Last(r)
  BY <1>3, <1>4 DEF ProgramInv, Running
<1>8. Calls(Running, Activation(f))
  <2>1. Activation(f).fn = f
    BY NewActivation
  <2>2. QED
    BY <1>1, <1>2, <2>1 DEF Calls, Current
<1>6. StackOK(Append(r, Activation(f)), n)
  BY <1>3, <1>5, <1>8, PushStack
<1>7. QED
  BY <1>1, <1>4, <1>6 DEF ProgramInv

LEMMA ReturnExternalStep == ASSUME ProgramInv, ReturnExternal PROVE ProgramInv'
<1>1. /\ real # <<>> /\ Running.fn \in External /\ pc = "run"
      /\ UNCHANGED <<pc, memory, tracing, seen>>
      /\ real' = Append(Front(Front(real)),
                        Resume(Last(Front(real)), Last(Front(real)).by[Last(Front(real)).at]))
  BY DEF ReturnExternal, InExternal
<1>2. PICK n \in Nat, r \in {real} : n = Len(seen) /\ r = real
  BY <1>1, RunningFields
<1>3. StackOK(r, n) /\ r # <<>> /\ Running = Last(r)
  BY <1>1, <1>2 DEF ProgramInv, Running
<1>4. PICK l \in Nat : l = Len(r)
  BY <1>3, StackFields
<1>5. l > 1 /\ r[l - 1].fn \in Instrumented
  <2>1. l \in 1 .. l /\ r[l].fn \in External
    BY <1>1, <1>3, <1>4, StackFields
  <2>2. QED
    BY <1>3, <1>4, <2>1 DEF StackOK
<1>6. PICK s : s = Front(r)
  OBVIOUS
<1>7. StackOK(s, n) /\ Len(s) = l - 1 /\ \A i \in 1 .. l - 1 : s[i] = r[i]
  BY <1>3, <1>4, <1>6, PopStack
<1>8. s # <<>> /\ Last(s) = r[l - 1]
  <2>1. s # <<>> /\ Last(s) = s[l - 1]
    BY <1>5, <1>7, StackFields
  <2>2. l - 1 \in 1 .. l - 1
    BY <1>5
  <2>3. QED
    BY <1>7, <2>1, <2>2
<1>9. PICK v \in 0 .. n : v = Last(s).by[Last(s).at]
  <2>1. l - 1 \in 1 .. l
    BY <1>5
  <2>2. r[l - 1] \in Activations(n) /\ StandsAt(r[l - 1])
    BY <1>3, <1>4, <2>1, StackFields
  <2>3. r[l - 1].at \in Inst /\ r[l - 1].by \in Values(n)
    BY <1>5, <2>2, ActivationFields DEF StandsAt
  <2>4. QED
    BY <1>8, <2>3 DEF Values
<1>10. StackOK(Append(Front(Front(r)), Resume(Last(Front(r)), v)), n)
  BY <1>3, <1>5, <1>6, <1>8, ReturnedStack
<1>11. StackOK(real', n)
  BY <1>1, <1>2, <1>6, <1>9, <1>10
<1>12. QED
  BY <1>1, <1>2, <1>11 DEF ProgramInv

LEMMA ThrowStep == ASSUME ProgramInv, NEW k \in 1 .. MaxDepth, Throw(k) PROVE ProgramInv'
<1>1. /\ real # <<>> /\ pc = "run" /\ k \in 1 .. Len(real) - 1
      /\ real[k].fn \in Instrumented /\ Code[real[k].at].op = "invoke"
      /\ real' = Append(SubSeq(real, 1, k - 1), Leave(real[k], Code[real[k].at].to[2]))
      /\ UNCHANGED <<pc, memory, tracing, seen>>
  BY DEF Throw, InExternal
<1>2. PICK n \in Nat, r \in {real} : n = Len(seen) /\ r = real
  BY <1>1, RunningFields
<1>3. StackOK(r, n) /\ r # <<>>
  BY <1>1, <1>2 DEF ProgramInv
<1>4. k \in 1 .. Len(r)
  <2>1. Len(r) \in Nat /\ k \in Nat
    BY <1>3, StackFields, BoundAssumption
  <2>2. QED
    BY <1>1, <1>2, <2>1
<1>5. PICK a : a = r[k]
  OBVIOUS
<1>6. a \in Activations(n) /\ StandsAt(a) /\ a.fn \in Instrumented
  BY <1>1, <1>2, <1>3, <1>4, <1>5, StackFields
<1>7. a.at \in Inst /\ Code[a.at].fn = a.fn /\ Code[a.at].op = "invoke"
  BY <1>1, <1>2, <1>5, <1>6 DEF StandsAt
<1>8. PICK b : b = Code[a.at].to[2]
  OBVIOUS
<1>9. b \in ToSet(Code[a.at].to)
  <2>1. Len(Code[a.at].to) = 2 /\ Code[a.at].to \in Seq(Block)
    BY <1>7, CodeAssumption, InstType
  <2>2. QED
    BY ONLY <1>8, <2>1, LenProperties DEF ToSet
<1>10. PICK c : c = Leave(a, b)
  OBVIOUS
<1>11. c \in Activations(n) /\ c.fn = a.fn /\ StandsAt(c)
  BY ONLY <1>6, <1>7, <1>9, <1>10, LeaveOK, n \in Nat
<1>12. StackOK(CutTo(r, k, c), n)
  BY <1>3, <1>4, <1>5, <1>11, CutStack
<1>13. real' = CutTo(r, k, c)
  BY <1>1, <1>2, <1>5, <1>8, <1>10 DEF CutTo
<1>14. QED
  BY <1>1, <1>2, <1>12, <1>13 DEF ProgramInv

(* For every program in LLVM's form: the activations follow each other as   *)
(* callers and callees, and each stands where its function can be.          *)
LEMMA ProgramNextKept == ASSUME ProgramInv, [ProgramNext]_program PROVE ProgramInv'
<1>1. [ProgramNext]_program
  OBVIOUS
<1>2. CASE UNCHANGED program
  BY <1>2 DEF ProgramInv, program, Running
<1>3. CASE Phi
  BY <1>3, PhiStep
<1>4. CASE Operation \/ (\E a : Load(a) \/ Store(a))
  BY <1>4, StraightStep
<1>5. CASE \E b \in Block : Branch(b)
  BY <1>5, BranchStep
<1>6. CASE Call
  BY <1>6, CallStep
<1>7. CASE Return
  BY <1>7, ReturnStep
<1>8. CASE \E f \in Instrumented \cup External : Enter(f)
  BY <1>8, EnterStep
<1>9. CASE ReturnExternal
  BY <1>9, ReturnExternalStep
<1>10. CASE \E k \in 1 .. MaxDepth : Throw(k)
  BY <1>10, ThrowStep
<1>11. CASE StartTrace \/ StopTrace
  BY <1>11 DEF StartTrace, StopTrace, ProgramInv, Running
<1>12. QED
  BY <1>1, <1>2, <1>3, <1>4, <1>5, <1>6, <1>7, <1>8, <1>9, <1>10, <1>11 DEF ProgramNext

-----------------------------------------------------------------------------
(* The trace and its reader *)

LEMMA ConcatFields ==
  ASSUME NEW s, IsSeq(s), NEW t, IsSeq(t)
  PROVE  /\ IsSeq(s \o t) /\ Len(s \o t) = Len(s) + Len(t)
         /\ DOMAIN (s \o t) = 1 .. Len(s) + Len(t)
         /\ \A k \in 1 .. Len(s) : (s \o t)[k] = s[k]
<1>1. PICK S : s \in Seq(S)
  BY DEF IsSeq
<1>2. PICK T : t \in Seq(T)
  BY DEF IsSeq
<1>3. s \in Seq(S \cup T) /\ t \in Seq(S \cup T)
  BY <1>1, <1>2, SeqMonotonic
<1>4. PICK q : q = s \o t
  OBVIOUS
<1>5. /\ q \in Seq(S \cup T) /\ Len(q) = Len(s) + Len(t)
      /\ \A k \in 1 .. Len(s) + Len(t) : q[k] = IF k <= Len(s) THEN s[k] ELSE t[k - Len(s)]
  BY ONLY <1>3, <1>4, ConcatProperties
<1>6. DOMAIN q = 1 .. Len(s) + Len(t) /\ IsSeq(q)
  BY ONLY <1>5, LenProperties DEF IsSeq
<1>7. Len(s) \in Nat /\ Len(t) \in Nat
  BY ONLY <1>3, LenProperties
<1>8. \A k \in 1 .. Len(s) : q[k] = s[k]
  BY ONLY <1>5, <1>7
<1>9. QED
  BY ONLY <1>4, <1>5, <1>6, <1>8

LEMMA ConcatAppend ==
  ASSUME NEW s, IsSeq(s), NEW t, IsSeq(t), NEW e
  PROVE  s \o Append(t, e) = Append(s \o t, e)
<1>1. PICK S : s \in Seq(S)
  BY DEF IsSeq
<1>2. PICK T : t \in Seq(T)
  BY DEF IsSeq
<1>3. PICK U : U = S \cup T \cup {e}
  OBVIOUS
<1>4. s \in Seq(U) /\ t \in Seq(U) /\ e \in U
  BY <1>1, <1>2, <1>3, SeqMonotonic
<1>5. Append(t, e) = t \o <<e>> /\ <<e>> \in Seq(U)
  BY ONLY <1>4, AppendIsConcat
<1>6. s \o (t \o <<e>>) = (s \o t) \o <<e>>
  BY ONLY <1>4, <1>5, ConcatAssociative
<1>7. s \o t \in Seq(U)
  BY ONLY <1>4, ConcatProperties
<1>8. Append(s \o t, e) = (s \o t) \o <<e>>
  BY ONLY <1>4, <1>7, AppendIsConcat
<1>9. QED
  BY ONLY <1>5, <1>6, <1>8

LEMMA ConcatShift ==
  ASSUME NEW s, IsSeq(s), NEW t, IsSeq(t), t # <<>>
  PROVE  /\ Append(s, Head(t)) \o Tail(t) = s \o t
         /\ IsSeq(Tail(t)) /\ Head(t) = (s \o t)[Len(s) + 1]
<1>1. PICK S : s \in Seq(S)
  BY DEF IsSeq
<1>2. PICK T : t \in Seq(T)
  BY DEF IsSeq
<1>3. PICK U : U = S \cup T
  OBVIOUS
<1>4. s \in Seq(U) /\ t \in Seq(U)
  BY <1>1, <1>2, <1>3, SeqMonotonic
<1>5. PICK h, q : h = Head(t) /\ q = Tail(t)
  OBVIOUS
<1>6. h \in U /\ q \in Seq(U) /\ Len(q) = Len(t) - 1 /\ h = t[1] /\ \A i \in 1 .. Len(q) : q[i] = t[i + 1]
  BY ONLY <1>4, <1>5, t # <<>>, HeadTailProperties, LenProperties, EmptySeq
<1>7. PICK a : a = Append(s, h)
  OBVIOUS
<1>8. PICK m \in Nat, l \in Nat : m = Len(s) /\ l = Len(t)
  BY <1>4, LenProperties
<1>9. l > 0 /\ Len(q) = l - 1
  BY ONLY <1>4, <1>6, <1>8, t # <<>>, EmptySeq, LenProperties
<1>10. a \in Seq(U) /\ Len(a) = m + 1 /\ (\A i \in 1 .. m : a[i] = s[i]) /\ a[m + 1] = h
  BY ONLY <1>4, <1>6, <1>7, <1>8, AppendProperties
<1>11. PICK x, y : x = a \o q /\ y = s \o t
  OBVIOUS
<1>12. /\ x \in Seq(U) /\ Len(x) = Len(a) + Len(q)
       /\ \A k \in 1 .. Len(a) + Len(q) : x[k] = IF k <= Len(a) THEN a[k] ELSE q[k - Len(a)]
  BY ONLY <1>6, <1>10, <1>11, ConcatProperties
<1>13. /\ y \in Seq(U) /\ Len(y) = Len(s) + Len(t)
       /\ \A k \in 1 .. Len(s) + Len(t) : y[k] = IF k <= Len(s) THEN s[k] ELSE t[k - Len(s)]
  BY ONLY <1>4, <1>11, ConcatProperties
<1>14. \A k \in 1 .. m + l : x[k] = y[k]
  <2>1. TAKE k \in 1 .. m + l
  <2>2. x[k] = (IF k <= m + 1 THEN a[k] ELSE q[k - (m + 1)])
    BY ONLY <1>8, <1>9, <1>10, <1>12, k \in 1 .. m + l
  <2>3. y[k] = (IF k <= m THEN s[k] ELSE t[k - m])
    BY ONLY <1>8, <1>13, k \in 1 .. m + l
  <2>4. CASE k <= m
    <3>1. k \in 1 .. m /\ k <= m + 1
      BY <2>4
    <3>2. QED
      BY ONLY <1>10, <2>2, <2>3, <2>4, <3>1
  <2>5. CASE k = m + 1
    <3>1. ~ (k <= m) /\ k <= m + 1 /\ k - m = 1
      BY <2>5
    <3>2. QED
      BY ONLY <1>6, <1>10, <2>2, <2>3, <2>5, <3>1
  <2>6. CASE k > m + 1
    <3>1. PICK j \in Nat : j = k - (m + 1)
      BY <2>6
    <3>2. ~ (k <= m) /\ ~ (k <= m + 1) /\ k - m = j + 1 /\ j \in 1 .. l - 1
      BY <2>6, <3>1
    <3>3. q[j] = t[j + 1]
      BY ONLY <1>6, <1>9, <3>2
    <3>4. QED
      BY ONLY <2>2, <2>3, <3>1, <3>2, <3>3
  <2>7. QED
    BY <2>4, <2>5, <2>6
<1>15. Len(x) = m + l /\ Len(y) = m + l
  BY ONLY <1>8, <1>9, <1>10, <1>12, <1>13
<1>16. x = y
  BY ONLY <1>12, <1>13, <1>14, <1>15, SeqEqual
<1>17. y[m + 1] = h
  <2>1. m + 1 \in 1 .. m + l
    BY <1>9
  <2>2. ~ (m + 1 <= m) /\ m + 1 - m = 1
    OBVIOUS
  <2>3. y[m + 1] = t[m + 1 - m]
    BY ONLY <1>8, <1>13, <2>1, <2>2
  <2>4. QED
    BY ONLY <1>6, <2>2, <2>3
<1>18. QED
  BY ONLY <1>5, <1>6, <1>7, <1>8, <1>11, <1>16, <1>17 DEF IsSeq

=============================================================================
