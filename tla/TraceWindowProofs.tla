------------------------- MODULE TraceWindowProofs -------------------------
(***************************************************************************)
(* Proofs about TraceWindow, for every number of threads and every set-up  *)
(* of a traced program.                                                    *)
(***************************************************************************)
EXTENDS TraceWindow, FiniteSetTheorems, SequenceTheorems, WellFoundedInduction, TLAPS

(* A set of natural numbers has a least element, and the principle of       *)
(* induction that follows from it, stated for sets.                         *)
LEMMA LeastElement ==
  ASSUME NEW T, T \subseteq Nat, T # {}
  PROVE  \E x \in T : \A y \in T : x <= y
<1>1. PICK R : R = OpToRel(<, Nat)
  OBVIOUS
<1>2. IsWellFoundedOn(R, Nat)
  BY <1>1, NatLessThanWellFounded
<1>3. \A y, x \in Nat : y < x => <<y, x>> \in R
  BY <1>1, Zenon DEF OpToRel
<1>4. PICK x \in T : \A y \in T : ~ (<<y, x>> \in R)
  BY ONLY <1>2, WFMin, T \subseteq Nat, T # {}
<1>5. \A y \in T : ~ (y < x)
  BY ONLY <1>3, <1>4, T \subseteq Nat
<1>6. QED
  BY ONLY <1>5, T \subseteq Nat, x \in T

LEMMA Induction ==
  ASSUME NEW S, 0 \in S, \A n \in Nat : n \in S => n + 1 \in S
  PROVE  Nat \subseteq S
<1> SUFFICES ASSUME Nat \ S # {} PROVE FALSE
  OBVIOUS
<1>1. PICK x \in Nat \ S : \A y \in Nat \ S : x <= y
  BY LeastElement
<1>2. x - 1 \in Nat /\ x - 1 \in S
  BY <1>1
<1>3. QED
  BY <1>1, <1>2

-----------------------------------------------------------------------------
(* Counting frames *)

LEMMA FramesNat ==
  ASSUME NEW S, NEW s, NEW i \in Nat
  PROVE  Frames(S, s, i) \in Nat
<1>1. IsFiniteSet(1 .. i)
  BY FS_Interval
<1>2. IsFiniteSet({j \in 1 .. i : s[j] \in S})
  BY <1>1, FS_Subset
<1>3. QED
  BY <1>2, FS_CardinalityType DEF Frames

LEMMA FramesZero == \A S, s : Frames(S, s, 0) = 0
<1> SUFFICES ASSUME NEW S, NEW s PROVE Frames(S, s, 0) = 0
  OBVIOUS
<1>1. {j \in 1 .. 0 : s[j] \in S} = {}
  OBVIOUS
<1>2. QED
  BY <1>1, FS_EmptySet DEF Frames

LEMMA FramesNext ==
  ASSUME NEW S, NEW s, NEW i \in Nat \ {0}
  PROVE  Frames(S, s, i) = Frames(S, s, i - 1) + (IF s[i] \in S THEN 1 ELSE 0)
<1> DEFINE F(n) == {j \in 1 .. n : s[j] \in S}
<1>1. IsFiniteSet(F(i - 1)) /\ i \notin F(i - 1)
  BY FS_Interval, FS_Subset, IsFiniteSet(1 .. i - 1)
<1>2. CASE s[i] \in S
  <2>1. F(i) = F(i - 1) \cup {i}
    BY <1>2
  <2>2. Cardinality(F(i)) = Cardinality(F(i - 1)) + 1
    BY <1>1, <2>1, FS_AddElement
  <2>3. QED
    BY <1>2, <2>2 DEF Frames
<1>3. CASE s[i] \notin S
  <2>1. F(i) = F(i - 1)
    BY <1>3
  <2>2. Cardinality(F(i - 1)) \in Nat
    BY <1>1, FS_CardinalityType
  <2>3. QED
    BY <1>3, <2>1, <2>2 DEF Frames
<1>4. QED
  BY <1>2, <1>3

(* The count depends on the frames counted only, and grows with them. *)
LEMMA FramesSame ==
  ASSUME NEW S, NEW s, NEW r, NEW i \in Nat, \A j \in 1 .. i : s[j] = r[j]
  PROVE  Frames(S, s, i) = Frames(S, r, i)
<1>1. {j \in 1 .. i : s[j] \in S} = {j \in 1 .. i : r[j] \in S}
  OBVIOUS
<1>2. QED
  BY <1>1 DEF Frames

LEMMA FramesGrow ==
  ASSUME NEW S, NEW s, NEW k \in Nat, NEW i \in 0 .. k
  PROVE  Frames(S, s, i) <= Frames(S, s, k)
<1>1. IsFiniteSet({j \in 1 .. k : s[j] \in S})
  BY FS_Interval, FS_Subset, IsFiniteSet(1 .. k)
<1>2. {j \in 1 .. i : s[j] \in S} \subseteq {j \in 1 .. k : s[j] \in S}
  OBVIOUS
<1>3. QED
  BY <1>1, <1>2, FS_Subset DEF Frames

(* A function among the frames is counted. *)
LEMMA FramesSome ==
  ASSUME NEW S, NEW s, NEW k \in Nat, NEW i \in 1 .. k, s[i] \in S
  PROVE  Frames(S, s, i) \in 1 .. Frames(S, s, k)
<1>1. Frames(S, s, i) = Frames(S, s, i - 1) + 1
  BY FramesNext
<1>2. Frames(S, s, i - 1) \in Nat /\ Frames(S, s, i) \in Nat /\ Frames(S, s, k) \in Nat
  BY FramesNat
<1>3. Frames(S, s, i) <= Frames(S, s, k)
  BY FramesGrow
<1>4. QED
  BY <1>1, <1>2, <1>3

(* unwind() finds exactly our frames of the part of the stack that is left,  *)
(* as the unwinder has a name for each of them.                              *)
LEMMA BoundaryExact ==
  ASSUME NEW S, NEW A, NEW st \in Seq(S), NEW r \in Seq(A), IsPart(S, st, r),
         NEW k \in 0 .. Len(r), S \cap Nameless = {}
  PROVE  Boundary(st, SubSeq(r, 1, k)) = Frames(S, r, k)
<1> DEFINE un == SubSeq(r, 1, k)
           Next1(b, i) == IF /\ un[i] \notin Nameless
                             /\ b < Len(st) /\ st[b + 1] = un[i]
                          THEN b + 1 ELSE b
           Rec(g) == [i \in 0 .. Len(un) |-> IF i = 0 THEN 0 ELSE Next1(g[i - 1], i)]
           h == [i \in 0 .. Len(un) |-> Frames(S, r, i)]
<1>1. Len(un) = k /\ \A i \in 1 .. k : un[i] = r[i]
  OBVIOUS
<1>2. \A i \in 1 .. k : Frames(S, r, i) = Next1(Frames(S, r, i - 1), i)
  <2> SUFFICES ASSUME NEW i \in 1 .. k
               PROVE  Frames(S, r, i) = Next1(Frames(S, r, i - 1), i)
    OBVIOUS
  <2>1. Frames(S, r, i - 1) \in Nat /\ Frames(S, r, Len(r)) \in Nat
    BY FramesNat
  <2>2. Frames(S, r, i) = Frames(S, r, i - 1) + (IF r[i] \in S THEN 1 ELSE 0)
    BY FramesNext
  <2>3. CASE r[i] \in S
    <3>1. Frames(S, r, i) \in 1 .. Len(st)
      BY <2>3, FramesSome, i \in 1 .. Len(r) DEF IsPart
    <3>2. st[Frames(S, r, i)] = r[i]
      BY <2>3 DEF IsPart
    <3>3. un[i] = r[i] /\ un[i] \notin Nameless
      BY <1>1, <2>3
    <3> HIDE DEF un
    <3>4. QED
      BY <2>1, <2>2, <2>3, <3>1, <3>2, <3>3
  <2>4. CASE r[i] \notin S
    <3>1. Frames(S, r, i - 1) < Len(st) => st[Frames(S, r, i - 1) + 1] \in S
      BY <2>1
    <3>2. QED
      BY <1>1, <2>1, <2>2, <2>4, <3>1
  <2>5. QED
    BY <2>3, <2>4
<1>3. h = Rec(h)
  <2>1. \A i \in 0 .. Len(un) : h[i] = IF i = 0 THEN 0 ELSE Next1(h[i - 1], i)
    BY <1>1, <1>2, FramesZero
  <2>2. QED
    BY <2>1
<1>4. ASSUME NEW g, g = Rec(g)
      PROVE  g[Len(un)] = Frames(S, r, k)
  <2> DEFINE T == {i \in 0 .. k : g[i] # Frames(S, r, i)}
  <2>1. \A i \in 0 .. k : g[i] = IF i = 0 THEN 0 ELSE Next1(g[i - 1], i)
    BY <1>1, <1>4
  <2>2. T = {}
    <3> SUFFICES ASSUME T # {} PROVE FALSE
      OBVIOUS
    <3>1. PICK x \in T : \A y \in T : x <= y
      BY LeastElement, T \subseteq Nat
    <3>2. CASE x = 0
      BY <2>1, <3>1, <3>2, FramesZero
    <3>3. CASE x # 0
      <4>1. x \in 1 .. k /\ x - 1 \in 0 .. k /\ x - 1 \notin T
        BY <3>1, <3>3
      <4>2. g[x - 1] = Frames(S, r, x - 1)
        BY <4>1
      <4>3. QED
        BY <1>2, <2>1, <3>1, <3>3, <4>1, <4>2
    <3>4. QED
      BY <3>2, <3>3
  <2>3. QED
    BY <1>1, <2>2
<1> DEFINE m == CHOOSE g : g = Rec(g)
<1>5. m = Rec(m)
  <2> HIDE DEF Rec, h
  <2>1. QED
    BY <1>3
<1>6. m[Len(un)] = Frames(S, r, k)
  <2> HIDE DEF m, Rec
  <2>1. QED
    BY <1>4, <1>5
<1>7. Boundary(st, un) = m[Len(un)]
  BY DEF Boundary
<1>8. QED
  BY <1>6, <1>7

-----------------------------------------------------------------------------
(* The set-up *)

LEMMA SetupType ==
  ASSUME TypeOK
  PROVE  /\ ROI \in {"All", "SpecifiedFunction"}
         /\ Mode \in {"Profile", "TraceAll", "TraceUniformInterval",
                      "TraceSpecifiedInterval"}
         /\ StartInst \in Nat /\ SkipInst \in Nat /\ EndInst \in Nat
         /\ HardExitCount \in Nat /\ MaxInst \in Nat \ {0}
         /\ Traced \subseteq Instrumented /\ Instrumented \cap External = {}
         /\ NumValues \in Nat
  BY WindowAssumption DEF WindowAssumption, TypeOK, ROI, Mode, StartInst, SkipInst,
     EndInst, HardExitCount, MaxInst, Traced, Instrumented, External

(* The unwinder has a name for each function the tracer keeps a frame of. *)
LEMMA NamesKnown ==
  ASSUME TypeOK
  PROVE  Instrumented \cap Nameless = {}
  BY WindowAssumption DEF WindowAssumption, TypeOK, Instrumented, External, Nameless

LEMMA IntervalsType ==
  ASSUME TypeOK
  PROVE  /\ Intervals \in Seq([lhs : Nat, rhs : Nat])
         /\ \A i \in DOMAIN Intervals : Intervals[i].lhs < Intervals[i].rhs
         /\ \A i, j \in DOMAIN Intervals : i < j => Intervals[i].rhs <= Intervals[j].lhs
         /\ DOMAIN Intervals = 1 .. Len(Intervals) /\ Len(Intervals) \in Nat
         /\ \A i \in DOMAIN Intervals : Intervals[i].lhs \in Nat /\ Intervals[i].rhs \in Nat
<1> DEFINE A == [lhs : Nat, rhs : Nat]
<1>1. /\ Intervals \in Seq(A)
      /\ \A i \in DOMAIN Intervals : Intervals[i].lhs < Intervals[i].rhs
      /\ \A i, j \in DOMAIN Intervals : i < j => Intervals[i].rhs <= Intervals[j].lhs
  BY WindowAssumption DEF WindowAssumption, TypeOK, Intervals
<1> HIDE DEF A
<1>2. /\ DOMAIN Intervals = 1 .. Len(Intervals) /\ Len(Intervals) \in Nat
      /\ \A i \in DOMAIN Intervals : Intervals[i] \in A
  BY ONLY <1>1
<1>3. \A r \in A : r.lhs \in Nat /\ r.rhs \in Nat
  BY DEF A
<1>4. \A i \in DOMAIN Intervals : Intervals[i].lhs \in Nat /\ Intervals[i].rhs \in Nat
  BY ONLY <1>2, <1>3
<1>5. QED
  BY <1>1, <1>2, <1>4 DEF A

(* What is left of a sequence. *)
LEMMA Rest ==
  ASSUME NEW A, NEW s \in Seq(A), NEW p \in 0 .. Len(s), NEW r,
         r = SubSeq(s, p + 1, Len(s))
  PROVE  /\ r \in Seq(A) /\ Len(r) = Len(s) - p
         /\ \A i \in 1 .. Len(r) : r[i] = s[p + i]
         /\ r # <<>> => Head(r) = s[p + 1] /\ p + 1 \in 1 .. Len(s)
<1>1. r \in Seq(A) /\ Len(r) = Len(s) - p
  OBVIOUS
<1>2. \A i \in 1 .. Len(r) : r[i] = s[p + i]
  BY <1>1
<1>3. r # <<>> => Len(r) > 0 /\ Head(r) = r[1]
  BY <1>1
<1>4. QED
  BY <1>1, <1>2, <1>3

LEMMA ListType ==
  ASSUME TypeOK
  PROVE  /\ intervals \in Seq([lhs : Nat, rhs : Nat])
         /\ Popped \in 0 .. Len(Intervals) /\ Len(intervals) = Len(Intervals) - Popped
         /\ \A i \in 1 .. Len(intervals) : intervals[i] = Intervals[Popped + i]
         /\ intervals # <<>> => /\ Head(intervals) = Intervals[Popped + 1]
                                /\ Popped + 1 \in 1 .. Len(Intervals)
<1>1. Intervals \in Seq([lhs : Nat, rhs : Nat])
  BY IntervalsType
<1>2. Popped \in 0 .. Len(Intervals)
  BY DEF TypeOK
<1>3. intervals = SubSeq(Intervals, Popped + 1, Len(Intervals))
  BY DEF TypeOK
<1> DEFINE A == [lhs : Nat, rhs : Nat]
<1>4. Intervals \in Seq(A)
  BY <1>1
<1> HIDE DEF A
<1>5. /\ intervals \in Seq(A) /\ Len(intervals) = Len(Intervals) - Popped
      /\ \A i \in 1 .. Len(intervals) : intervals[i] = Intervals[Popped + i]
      /\ intervals # <<>> => /\ Head(intervals) = Intervals[Popped + 1]
                             /\ Popped + 1 \in 1 .. Len(Intervals)
  BY ONLY <1>2, <1>3, <1>4, Rest
<1>6. QED
  BY <1>2, <1>5 DEF A

-----------------------------------------------------------------------------
(* Windows *)

LEMMA Division ==
  ASSUME NEW a \in Nat, NEW p \in Nat \ {0}
  PROVE  /\ a % p \in 0 .. p - 1 /\ a \div p \in Nat
         /\ a = (a \div p) * p + (a % p)
<1>1. a % p \in 0 .. p - 1
  OBVIOUS
<1>2. a \div p \in Nat
  OBVIOUS
<1>3. a = (a \div p) * p + (a % p)
  OBVIOUS
<1>4. QED
  BY <1>1, <1>2, <1>3

LEMMA Quotient ==
  ASSUME NEW a \in Nat, NEW p \in Nat \ {0}, NEW q \in Nat, NEW r \in 0 .. p - 1,
         a = q * p + r
  PROVE  a % p = r /\ a \div p = q
  OBVIOUS

LEMMA QuotientMonotone ==
  ASSUME NEW a \in Nat, NEW b \in Nat, NEW p \in Nat \ {0}, a <= b
  PROVE  a \div p <= b \div p
<1>1. PICK x \in Nat, r \in 0 .. p - 1 : x = a \div p /\ a = x * p + r
  BY Division
<1>2. PICK y \in Nat, t \in 0 .. p - 1 : y = b \div p /\ b = y * p + t
  BY Division
<1>3. ASSUME y < x PROVE FALSE
  <2>1. PICK d \in Nat : x = y + 1 + d
    BY <1>3, x - y - 1 \in Nat
  <2>2. x * p = y * p + p + d * p
    BY <2>1
  <2>3. x * p \in Nat /\ y * p \in Nat /\ d * p \in Nat
    OBVIOUS
  <2>4. QED
    BY <1>1, <1>2, <2>2, <2>3
<1>4. QED
  BY <1>1, <1>2, <1>3

LEMMA QuotientNext ==
  ASSUME NEW a \in Nat, NEW p \in Nat \ {0}, (a % p) + 1 < p
  PROVE  (a + 1) % p = (a % p) + 1 /\ (a + 1) \div p = a \div p
<1>1. PICK x \in Nat, r \in 0 .. p - 1 : x = a \div p /\ r = a % p /\ a = x * p + r
  BY Division
<1>2. x * p \in Nat /\ r + 1 \in 0 .. p - 1
  BY <1>1
<1>3. a + 1 = x * p + (r + 1)
  BY <1>1, <1>2
<1>4. (a + 1) % p = r + 1 /\ (a + 1) \div p = x
  BY <1>2, <1>3, Quotient, a + 1 \in Nat
<1>5. QED
  BY <1>1, <1>4

(* The windows of TraceUniformInterval are numbered by a division. *)
LEMMA UniformWindow ==
  ASSUME TypeOK, Mode = "TraceUniformInterval", NEW n \in Nat
  PROVE  /\ WindowOf(n) # 0 <=> InUniformWindow(n)
         /\ InUniformWindow(n) =>
              WindowOf(n) = 1 + ((n - StartInst) \div (MaxInst + SkipInst))
<1> DEFINE p == MaxInst + SkipInst
           q == (n - StartInst) \div p
<1>1. StartInst \in Nat /\ MaxInst \in Nat \ {0} /\ SkipInst \in Nat /\ p \in Nat \ {0}
  BY SetupType
<1>2. ASSUME NEW i \in Nat, InWindow(i, n)
      PROVE  InUniformWindow(n) /\ i = q
  <2>1. i * p \in Nat
    BY <1>1
  <2>2. StartInst + i * p <= n /\ n < StartInst + i * p + MaxInst
    BY <1>2 DEF InWindow
  <2> DEFINE r == n - StartInst - i * p
  <2>3. r \in 0 .. p - 1 /\ r < MaxInst /\ n - StartInst \in Nat
    BY <1>1, <2>1, <2>2
  <2>4. n - StartInst = i * p + r
    BY <1>1, <2>1
  <2>5. (n - StartInst) % p = r /\ q = i
    BY <1>1, <2>3, <2>4, Quotient
  <2>6. QED
    BY <1>1, <2>3, <2>5 DEF InUniformWindow
<1>3. ASSUME InUniformWindow(n)
      PROVE  q \in 0 .. n /\ InWindow(q, n)
  <2>1. n - StartInst \in Nat /\ (n - StartInst) % p < MaxInst
    BY <1>1, <1>3 DEF InUniformWindow
  <2>2. /\ (n - StartInst) % p \in 0 .. p - 1 /\ q \in Nat
        /\ n - StartInst = q * p + ((n - StartInst) % p)
    BY <1>1, <2>1, Division
  <2>3. q * p \in Nat /\ q <= q * p
    BY <1>1, <2>2
  <2>4. q <= n
    BY <1>1, <2>2, <2>3
  <2>5. InWindow(q, n)
    BY <1>1, <2>1, <2>2, <2>3 DEF InWindow
  <2>6. QED
    BY <2>2, <2>4, <2>5
<1>4. CASE InUniformWindow(n)
  <2>1. q \in 0 .. n /\ InWindow(q, n)
    BY <1>3, <1>4
  <2>2. \A i \in 0 .. n : InWindow(i, n) => i = q
    BY <1>2
  <2>3. (CHOOSE i \in 0 .. n : InWindow(i, n)) = q
    BY <2>1, <2>2
  <2>4. WindowOf(n) = 1 + q
    BY <2>1, <2>3 DEF WindowOf
  <2>5. QED
    BY <1>4, <2>1, <2>4
<1>5. CASE ~InUniformWindow(n)
  <2>1. ~ \E i \in 0 .. n : InWindow(i, n)
    BY <1>2, <1>5
  <2>2. QED
    BY <1>5, <2>1 DEF WindowOf
<1>6. QED
  BY <1>4, <1>5

(* An instruction is in one interval at most. *)
LEMMA IntervalWindow ==
  ASSUME TypeOK, Mode = "TraceSpecifiedInterval", NEW n \in Nat
  PROVE  /\ \A i \in DOMAIN Intervals : InInterval(i, n) => WindowOf(n) = i
         /\ WindowOf(n) # 0 => /\ WindowOf(n) \in DOMAIN Intervals
                               /\ InInterval(WindowOf(n), n)
<1>1. /\ Intervals \in Seq([lhs : Nat, rhs : Nat])
      /\ \A i, j \in DOMAIN Intervals : i < j => Intervals[i].rhs <= Intervals[j].lhs
  BY IntervalsType
<1>2. \A i \in DOMAIN Intervals : i \in Nat \ {0}
                                  /\ Intervals[i].lhs \in Nat /\ Intervals[i].rhs \in Nat
  BY IntervalsType
<1>3. \A i, j \in DOMAIN Intervals : InInterval(i, n) /\ InInterval(j, n) => i = j
  <2> SUFFICES ASSUME NEW i \in DOMAIN Intervals, NEW j \in DOMAIN Intervals,
                      InInterval(i, n), InInterval(j, n), i < j
               PROVE  FALSE
    BY <1>2
  <2>1. Intervals[j].lhs <= n /\ n < Intervals[i].rhs
    BY DEF InInterval
  <2>2. QED
    BY <1>1, <1>2, <2>1
<1>4. CASE \E i \in DOMAIN Intervals : InInterval(i, n)
  <2> DEFINE c == CHOOSE i \in DOMAIN Intervals : InInterval(i, n)
  <2>1. c \in DOMAIN Intervals /\ InInterval(c, n)
    BY <1>4
  <2>2. WindowOf(n) = c
    BY <1>4 DEF WindowOf
  <2>3. QED
    BY <1>3, <2>1, <2>2
<1>5. CASE ~ \E i \in DOMAIN Intervals : InInterval(i, n)
  BY <1>5 DEF WindowOf
<1>6. QED
  BY <1>4, <1>5

LEMMA WindowNat ==
  ASSUME TypeOK, NEW n \in Nat
  PROVE  WindowOf(n) \in Nat
<1>1. CASE Mode = "TraceAll"
  BY <1>1 DEF WindowOf
<1>2. CASE Mode = "TraceUniformInterval"
  <2>1. InUniformWindow(n) => WindowOf(n) \in Nat
    <3> SUFFICES ASSUME InUniformWindow(n) PROVE WindowOf(n) \in Nat
      OBVIOUS
    <3>1. n - StartInst \in Nat /\ MaxInst + SkipInst \in Nat \ {0}
      BY SetupType DEF InUniformWindow
    <3>2. QED
      BY <1>2, <3>1, UniformWindow, Division
  <2>2. QED
    BY <1>2, <2>1, UniformWindow
<1>3. CASE Mode = "TraceSpecifiedInterval"
  BY <1>3, IntervalWindow, IntervalsType
<1>4. CASE Mode = "Profile"
  BY <1>4 DEF WindowOf
<1>5. QED
  BY <1>1, <1>2, <1>3, <1>4, SetupType

(* What is logged is in a window. *)
LEMMA OpenInWindow ==
  ASSUME TypeOK, NEW n \in Nat, Open(n)
  PROVE  WindowOf(n) # 0
<1>1. CASE Mode = "TraceAll"
  BY <1>1 DEF WindowOf
<1>2. CASE Mode = "TraceUniformInterval"
  BY <1>2, UniformWindow DEF Open
<1>3. CASE Mode = "TraceSpecifiedInterval"
  <2>1. InInterval(Popped + 1, n) /\ Popped + 1 \in DOMAIN Intervals
    BY <1>3, ListType, IntervalsType DEF Open, InFrontInterval, InInterval
  <2>2. QED
    BY <1>3, <2>1, IntervalWindow, ListType
<1>4. QED
  BY <1>1, <1>2, <1>3 DEF Open

(* Later instructions are in later windows. *)
LEMMA WindowMonotone ==
  ASSUME TypeOK, NEW n \in Nat, NEW m \in Nat, n <= m,
         WindowOf(n) # 0, WindowOf(m) # 0
  PROVE  WindowOf(n) <= WindowOf(m)
<1>1. CASE Mode = "TraceAll"
  BY <1>1 DEF WindowOf
<1>2. CASE Mode = "TraceUniformInterval"
  <2> DEFINE p == MaxInst + SkipInst
             a == n - StartInst
             b == m - StartInst
  <2>1. p \in Nat \ {0} /\ a \in Nat /\ b \in Nat /\ a <= b
    BY <1>2, SetupType, UniformWindow DEF InUniformWindow
  <2>2. a \div p \in Nat /\ b \div p \in Nat /\ a \div p <= b \div p
    BY <2>1, Division, QuotientMonotone
  <2>3. WindowOf(n) = 1 + (a \div p) /\ WindowOf(m) = 1 + (b \div p)
    BY <1>2, UniformWindow
  <2>4. QED
    BY <2>2, <2>3
<1>3. CASE Mode = "TraceSpecifiedInterval"
  <2> DEFINE i == WindowOf(n)
             j == WindowOf(m)
  <2>1. /\ i \in DOMAIN Intervals /\ InInterval(i, n)
        /\ j \in DOMAIN Intervals /\ InInterval(j, m)
    BY <1>3, IntervalWindow
  <2>2. Intervals \in Seq([lhs : Nat, rhs : Nat])
    BY IntervalsType
  <2>3. /\ i \in Nat /\ j \in Nat /\ Intervals[i].lhs \in Nat /\ Intervals[j].rhs \in Nat
        /\ Intervals[i].lhs <= n /\ m < Intervals[j].rhs
    BY <2>1, IntervalsType DEF InInterval
  <2>4. j < i => Intervals[j].rhs <= Intervals[i].lhs
    BY <2>1, IntervalsType
  <2>5. QED
    BY <2>3, <2>4
<1>4. CASE Mode = "Profile"
  BY <1>4 DEF WindowOf
<1>5. QED
  BY <1>1, <1>2, <1>3, <1>4, SetupType

(* After its last instruction a window is over, and until then it goes on. *)
LEMMA WindowOver ==
  ASSUME TypeOK, NEW n \in Nat, NEW m \in Nat, n < m, LastOfWindow(n),
         WindowOf(n) # 0, WindowOf(m) # 0
  PROVE  WindowOf(n) < WindowOf(m)
<1>1. CASE Mode = "TraceUniformInterval"
  <2> DEFINE p == MaxInst + SkipInst
             a == n - StartInst
             b == m - StartInst
  <2>1. /\ p \in Nat \ {0} /\ a \in Nat /\ b \in Nat /\ a < b
        /\ a % p = MaxInst - 1 /\ b % p < MaxInst /\ MaxInst \in Nat
    BY <1>1, SetupType, UniformWindow DEF InUniformWindow, LastOfWindow
  <2>2. /\ a \div p \in Nat /\ a = (a \div p) * p + (a % p) /\ a % p \in 0 .. p - 1
        /\ b \div p \in Nat /\ b = (b \div p) * p + (b % p) /\ b % p \in 0 .. p - 1
    BY <2>1, Division
  <2>3. WindowOf(n) = 1 + (a \div p) /\ WindowOf(m) = 1 + (b \div p)
    BY <1>1, UniformWindow
  <2>4. WindowOf(n) # WindowOf(m)
    BY <2>1, <2>2, <2>3
  <2>5. WindowOf(n) <= WindowOf(m)
    BY WindowMonotone
  <2>6. QED
    BY <2>2, <2>3, <2>4, <2>5
<1>2. CASE Mode = "TraceSpecifiedInterval"
  <2>1. PICK i \in DOMAIN Intervals : n = Intervals[i].rhs - 1
    BY <1>2 DEF LastOfWindow
  <2>2. Intervals \in Seq([lhs : Nat, rhs : Nat]) /\ Intervals[i].lhs < Intervals[i].rhs
    BY IntervalsType
  <2>3. Intervals[i].lhs \in Nat /\ Intervals[i].rhs \in Nat
    BY IntervalsType
  <2>4. InInterval(i, n)
    BY <2>1, <2>2, <2>3 DEF InInterval
  <2>5. WindowOf(n) = i
    BY <1>2, <2>4, IntervalWindow
  <2>6. WindowOf(m) # i
    <3>1. ~InInterval(i, m)
      BY <2>1, <2>3 DEF InInterval
    <3>2. QED
      BY <1>2, <3>1, IntervalWindow
  <2>7. WindowOf(n) <= WindowOf(m) /\ WindowOf(m) \in Nat /\ WindowOf(n) \in Nat
    BY WindowMonotone, WindowNat
  <2>8. QED
    BY <2>5, <2>6, <2>7
<1>3. QED
  BY <1>1, <1>2 DEF LastOfWindow

LEMMA WindowGoesOn ==
  ASSUME TypeOK, NEW n \in Nat, WindowOf(n) # 0, ~LastOfWindow(n)
  PROVE  WindowOf(n + 1) = WindowOf(n)
<1>1. CASE Mode = "TraceAll"
  BY <1>1 DEF WindowOf
<1>2. CASE Mode = "TraceUniformInterval"
  <2>1. /\ StartInst \in Nat /\ MaxInst \in Nat \ {0} /\ SkipInst \in Nat
        /\ InUniformWindow(n)
    BY <1>2, SetupType, UniformWindow
  <2>2. PICK p \in Nat \ {0} : p = MaxInst + SkipInst
    BY <2>1
  <2>3. PICK a \in Nat : a = n - StartInst
    BY <2>1 DEF InUniformWindow
  <2>4. a % p < MaxInst /\ a % p # MaxInst - 1
    BY <1>2, <2>1, <2>2, <2>3 DEF InUniformWindow, LastOfWindow
  <2>5. a % p \in Nat /\ (a % p) + 1 < MaxInst /\ MaxInst <= p
    BY <2>1, <2>2, <2>4, Division
  <2>6. (a % p) + 1 < p
    BY <2>1, <2>2, <2>5
  <2>7. (a + 1) % p = (a % p) + 1 /\ (a + 1) \div p = a \div p
    BY ONLY <2>6, QuotientNext, a \in Nat, p \in Nat \ {0}, Zenon
  <2>8. PICK m \in Nat : m = n + 1
    OBVIOUS
  <2>9. m - StartInst = a + 1 /\ m >= StartInst
    BY <2>1, <2>3, <2>8
  <2>10. /\ (m - StartInst) % (MaxInst + SkipInst) = (a % p) + 1
         /\ (m - StartInst) \div (MaxInst + SkipInst) = a \div p
    BY ONLY <2>2, <2>7, <2>9, Zenon
  <2>11. (m - StartInst) % (MaxInst + SkipInst) < MaxInst
    BY ONLY <2>5, <2>10, Zenon
  <2>12. InUniformWindow(m)
    BY ONLY <2>9, <2>11, Zenon DEF InUniformWindow
  <2>13. WindowOf(m) = 1 + ((m - StartInst) \div (MaxInst + SkipInst))
    BY ONLY TypeOK, <1>2, m \in Nat, <2>12, UniformWindow, Zenon
  <2>14. WindowOf(n) = 1 + (a \div p)
    BY <1>2, <2>1, <2>2, <2>3, UniformWindow
  <2>15. QED
    BY ONLY <2>8, <2>10, <2>13, <2>14, Zenon
<1>3. CASE Mode = "TraceSpecifiedInterval"
  <2>1. WindowOf(n) \in DOMAIN Intervals /\ InInterval(WindowOf(n), n)
    BY <1>3, IntervalWindow
  <2>2. /\ Intervals[WindowOf(n)].lhs \in Nat /\ Intervals[WindowOf(n)].rhs \in Nat
    BY <2>1, IntervalsType
  <2>3. n # Intervals[WindowOf(n)].rhs - 1
    BY <1>3, <2>1 DEF LastOfWindow
  <2>4. InInterval(WindowOf(n), n + 1)
    BY <2>1, <2>2, <2>3 DEF InInterval
  <2>5. QED
    BY <1>3, <2>1, <2>4, IntervalWindow, n + 1 \in Nat
<1>4. CASE Mode = "Profile"
  BY <1>4 DEF WindowOf
<1>5. QED
  BY <1>1, <1>2, <1>3, <1>4, SetupType

-----------------------------------------------------------------------------
(* Our stack, when the program's grows or shrinks *)

LEMMA PartPush ==
  ASSUME NEW S, NEW A, NEW st \in Seq(S), NEW r \in Seq(A), IsPart(S, st, r),
         NEW f \in A
  PROVE  /\ f \in S => IsPart(S, Append(st, f), Append(r, f))
         /\ f \notin S => IsPart(S, st, Append(r, f))
<1> DEFINE q == Append(r, f)
           n == Len(r)
<1>1. n \in Nat /\ Len(q) = n + 1 /\ q[n + 1] = f /\ \A i \in 1 .. n : q[i] = r[i]
  OBVIOUS
<1>2. \A i \in 0 .. n : Frames(S, q, i) = Frames(S, r, i) /\ Frames(S, r, i) \in Nat
  <2> SUFFICES ASSUME NEW i \in 0 .. n
               PROVE  Frames(S, q, i) = Frames(S, r, i) /\ Frames(S, r, i) \in Nat
    OBVIOUS
  <2>1. \A j \in 1 .. i : q[j] = r[j]
    BY <1>1
  <2>2. QED
    BY <2>1, FramesSame, FramesNat, i \in Nat
<1>3. Frames(S, q, n + 1) = Frames(S, q, n) + (IF f \in S THEN 1 ELSE 0)
  <2>1. PICK m \in Nat \ {0} : m = n + 1
    BY <1>1
  <2>2. m - 1 = n
    BY <1>1, <2>1
  <2>3. q[m] = f
    BY <1>1, <2>1
  <2> HIDE DEF q, n
  <2>4. Frames(S, q, m) = Frames(S, q, m - 1) + (IF q[m] \in S THEN 1 ELSE 0)
    BY FramesNext, Zenon
  <2>5. QED
    BY ONLY <2>1, <2>2, <2>3, <2>4, Zenon
<1>4. \A i \in 1 .. n : r[i] \in S => /\ st[Frames(S, r, i)] = r[i]
                                      /\ Frames(S, r, i) \in 1 .. Len(st)
  BY FramesSome DEF IsPart
<1>5. Len(st) = Frames(S, r, n) /\ Len(st) \in Nat
  BY DEF IsPart
<1>6. DOMAIN q = 1 .. n + 1
  BY <1>1
<1> HIDE DEF q
<1>7. ASSUME f \in S PROVE IsPart(S, Append(st, f), q)
  <2> DEFINE p == Append(st, f)
  <2>1. Len(p) = Len(st) + 1 /\ p[Len(st) + 1] = f /\ \A i \in 1 .. Len(st) : p[i] = st[i]
    BY <1>7
  <2>2. Len(p) = Frames(S, q, Len(q))
    BY <1>1, <1>2, <1>3, <1>5, <1>7, <2>1
  <2> HIDE DEF p
  <2>3. \A i \in 1 .. n + 1 : q[i] \in S => p[Frames(S, q, i)] = q[i]
    <3> SUFFICES ASSUME NEW i \in 1 .. n + 1, q[i] \in S
                 PROVE  p[Frames(S, q, i)] = q[i]
      OBVIOUS
    <3>1. CASE i = n + 1
      BY <1>1, <1>2, <1>3, <1>5, <1>7, <2>1, <3>1
    <3>2. CASE i \in 1 .. n
      BY <1>1, <1>2, <1>4, <2>1, <3>2
    <3>3. QED
      BY <1>1, <3>1, <3>2
  <2>4. QED
    BY <1>6, <2>2, <2>3 DEF IsPart, p
<1>8. ASSUME f \notin S PROVE IsPart(S, st, q)
  <2>1. Len(st) = Frames(S, q, Len(q))
    BY <1>1, <1>2, <1>3, <1>5, <1>8
  <2>2. \A i \in 1 .. n + 1 : q[i] \in S => st[Frames(S, q, i)] = q[i]
    BY <1>1, <1>2, <1>4, <1>8
  <2>3. QED
    BY <1>6, <2>1, <2>2 DEF IsPart
<1>9. QED
  BY <1>7, <1>8 DEF q

LEMMA PartUnwind ==
  ASSUME NEW S, NEW A, NEW st \in Seq(S), NEW r \in Seq(A), IsPart(S, st, r),
         NEW k \in 0 .. Len(r)
  PROVE  /\ Frames(S, r, k) \in 0 .. Len(st)
         /\ IsPart(S, SubSeq(st, 1, Frames(S, r, k)), SubSeq(r, 1, k))
         /\ k > 0 /\ r[k] \in S => /\ Frames(S, r, k) > 0
                                   /\ st[Frames(S, r, k)] = r[k]
<1> DEFINE q == SubSeq(r, 1, k)
           b == Frames(S, r, k)
           p == SubSeq(st, 1, b)
<1>1. Len(q) = k /\ DOMAIN q = 1 .. k /\ \A i \in 1 .. k : q[i] = r[i]
  OBVIOUS
<1>2. b \in 0 .. Len(st)
  BY FramesNat, FramesGrow, Len(r) \in Nat DEF IsPart
<1>3. Len(p) = b /\ \A i \in 1 .. b : p[i] = st[i]
  BY <1>2
<1>4. \A i \in 0 .. k : Frames(S, q, i) = Frames(S, r, i)
  <2> SUFFICES ASSUME NEW i \in 0 .. k PROVE Frames(S, q, i) = Frames(S, r, i)
    OBVIOUS
  <2>1. \A j \in 1 .. i : q[j] = r[j]
    BY <1>1
  <2>2. QED
    BY <2>1, FramesSame, i \in Nat
<1>5. \A i \in 1 .. k : r[i] \in S => /\ st[Frames(S, r, i)] = r[i]
                                      /\ Frames(S, r, i) \in 1 .. b
  BY FramesSome, k \in Nat DEF IsPart
<1> HIDE DEF q, p
<1>6. IsPart(S, p, q)
  BY <1>1, <1>3, <1>4, <1>5 DEF IsPart
<1>7. QED
  BY <1>2, <1>5, <1>6 DEF p, q

(* A return leaves the frame on top. *)
LEMMA PartPop ==
  ASSUME NEW S, NEW A, NEW st \in Seq(S), NEW r \in Seq(A), IsPart(S, st, r),
         r # <<>>
  PROVE  /\ Last(r) \in S => /\ st # <<>> /\ Last(st) = Last(r)
                             /\ IsPart(S, Front(st), Front(r))
         /\ Last(r) \notin S => IsPart(S, st, Front(r))
<1> DEFINE n == Len(r)
<1>1. n \in Nat \ {0} /\ Len(st) \in Nat
  OBVIOUS
<1>2. Frames(S, r, n) = Frames(S, r, n - 1) + (IF r[n] \in S THEN 1 ELSE 0)
  BY <1>1, FramesNext
<1>3. Len(st) = Frames(S, r, n) /\ Frames(S, r, n - 1) \in Nat
  BY <1>1, FramesNat DEF IsPart
<1>4. IsPart(S, SubSeq(st, 1, Frames(S, r, n - 1)), SubSeq(r, 1, n - 1))
  BY <1>1, PartUnwind, n - 1 \in 0 .. n
<1>5. Last(r) = r[n] /\ Front(r) = SubSeq(r, 1, n - 1)
  BY <1>1 DEF Last, Front
<1>6. CASE r[n] \in S
  <2>1. Len(st) > 0 /\ Frames(S, r, n - 1) = Len(st) - 1
    BY <1>1, <1>2, <1>3, <1>6
  <2>2. st # <<>> /\ Last(st) = st[Len(st)] /\ Front(st) = SubSeq(st, 1, Len(st) - 1)
    BY <2>1 DEF Last, Front
  <2>3. st[Len(st)] = r[n]
    BY <1>1, <1>3, <1>6 DEF IsPart
  <2>4. QED
    BY <1>4, <1>5, <1>6, <2>1, <2>2, <2>3
<1>7. CASE r[n] \notin S
  <2>1. SubSeq(st, 1, Frames(S, r, n - 1)) = st
    BY <1>1, <1>2, <1>3, <1>7
  <2>2. QED
    BY <1>4, <1>5, <1>7, <2>1
<1>8. QED
  BY <1>6, <1>7

LEMMA FramesPush ==
  ASSUME NEW T, NEW A, NEW r \in Seq(A), NEW f \in A, NEW q, q = Append(r, f)
  PROVE  /\ f \in T => Frames(T, q, Len(q)) = Frames(T, r, Len(r)) + 1
         /\ f \notin T => Frames(T, q, Len(q)) = Frames(T, r, Len(r))
<1>1. PICK n \in Nat : n = Len(r)
  OBVIOUS
<1>2. PICK m \in Nat \ {0} : m = n + 1
  BY <1>1
<1>3. m - 1 = n /\ q[m] = f /\ Len(q) = m /\ \A j \in 1 .. n : q[j] = r[j]
  BY <1>1, <1>2
<1>4. Frames(T, q, n) = Frames(T, r, n)
  BY ONLY <1>3, n \in Nat, FramesSame
<1>5. Frames(T, q, m) = Frames(T, q, m - 1) + (IF q[m] \in T THEN 1 ELSE 0)
  BY ONLY FramesNext, m \in Nat \ {0}, ZenonT(30)
<1>6. Frames(T, q, Len(q)) = Frames(T, r, Len(r)) + (IF f \in T THEN 1 ELSE 0)
  BY ONLY <1>1, <1>3, <1>4, <1>5, Zenon
<1>7. Frames(T, r, Len(r)) \in Nat
  BY FramesNat, Len(r) \in Nat
<1>8. QED
  BY ONLY <1>6, <1>7

LEMMA TracedFrames ==
  ASSUME NEW T, NEW A, NEW r \in Seq(A)
  PROVE  /\ \A k \in 0 .. Len(r) :
              Frames(T, SubSeq(r, 1, k), Len(SubSeq(r, 1, k))) <= Frames(T, r, Len(r))
         /\ r # <<>> => Frames(T, Front(r), Len(Front(r)))
                          = Frames(T, r, Len(r)) - (IF Last(r) \in T THEN 1 ELSE 0)
         /\ Frames(T, r, Len(r)) \in Nat
<1>2. ASSUME NEW k \in 0 .. Len(r)
      PROVE  /\ Frames(T, SubSeq(r, 1, k), Len(SubSeq(r, 1, k))) = Frames(T, r, k)
             /\ Frames(T, r, k) <= Frames(T, r, Len(r))
  <2> DEFINE q == SubSeq(r, 1, k)
  <2>1. Len(q) = k /\ \A j \in 1 .. k : q[j] = r[j]
    OBVIOUS
  <2> HIDE DEF q
  <2>2. Frames(T, q, k) = Frames(T, r, k)
    BY <2>1, FramesSame, k \in Nat
  <2>3. Frames(T, r, k) <= Frames(T, r, Len(r))
    BY FramesGrow, Len(r) \in Nat
  <2>4. QED
    BY <2>1, <2>2, <2>3 DEF q
<1>3. ASSUME r # <<>>
      PROVE  Frames(T, Front(r), Len(Front(r)))
               = Frames(T, r, Len(r)) - (IF Last(r) \in T THEN 1 ELSE 0)
  <2>1. Len(r) \in Nat \ {0} /\ Len(r) - 1 \in 0 .. Len(r)
    BY <1>3
  <2>2. Front(r) = SubSeq(r, 1, Len(r) - 1) /\ Last(r) = r[Len(r)]
    BY <2>1 DEF Front, Last
  <2>3. Frames(T, Front(r), Len(Front(r))) = Frames(T, r, Len(r) - 1)
    BY <1>2, <2>1, <2>2
  <2>4. Frames(T, r, Len(r)) = Frames(T, r, Len(r) - 1) + (IF Last(r) \in T THEN 1 ELSE 0)
    BY <2>1, <2>2, FramesNext
  <2>5. Frames(T, r, Len(r) - 1) \in Nat
    BY <2>1, FramesNat
  <2>6. QED
    BY <2>3, <2>4, <2>5
<1>4. Frames(T, r, Len(r)) \in Nat
  BY FramesNat, Len(r) \in Nat
<1>5. QED
  BY <1>2, <1>3, <1>4

-----------------------------------------------------------------------------
(* Types, our stack and the region of interest *)

LEMMA FixedSetup ==
  ASSUME UNCHANGED setup
  PROVE  UNCHANGED <<ROI, Mode, StartInst, MaxInst, SkipInst, EndInst, Intervals,
                     HardExitCount, Instrumented, Traced, External>>
  BY DEF ROI, Mode, StartInst, MaxInst, SkipInst, EndInst, Intervals, HardExitCount,
     Instrumented, Traced, External

LEMMA BaseInit == Init => BaseInv
<1> SUFFICES ASSUME Init PROVE BaseInv
  OBVIOUS
<1>1. Intervals \in Seq([lhs : Nat, rhs : Nat])
  BY WindowAssumption DEF WindowAssumption, Init, Intervals
<1>2. Len(Intervals) \in Nat /\ SubSeq(Intervals, 1, Len(Intervals)) = Intervals
  BY <1>1
<1>3. Popped = 0
  BY <1>2 DEF Popped, Init
<1>4. NumValues \in Nat
  BY WindowAssumption DEF WindowAssumption
<1>5. TypeOK
  <2>1. entry \in [Thread -> Entry]
    BY DEF Init, Entry
  <2>2. out \in [Thread -> Seq(Record)]
    BY DEF Init
  <2>3. QED
    BY <1>2, <1>3, <1>4, <2>1, <2>2 DEF TypeOK, Init
<1>6. \A S : IsPart(S, <<>>, <<>>)
  BY FramesZero DEF IsPart
<1>7. FramesInv
  BY <1>6, FramesZero DEF FramesInv, StackExact, Init
<1>8. \A t \in Thread : ControlInv(t)
  BY DEF ControlInv, Init
<1>9. QED
  BY <1>5, <1>7, <1>8 DEF BaseInv

LEMMA RestTail ==
  ASSUME NEW A, NEW s \in Seq(A), NEW p \in Nat, p < Len(s), NEW r,
         r = SubSeq(s, p + 1, Len(s))
  PROVE  Tail(r) = SubSeq(s, p + 2, Len(s)) /\ Len(Tail(r)) = Len(r) - 1
<1>1. r \in Seq(A) /\ Len(r) = Len(s) - p /\ \A i \in 1 .. Len(r) : r[i] = s[p + i]
  OBVIOUS
<1>2. Len(s) \in Nat /\ Len(r) > 0 /\ r # <<>>
  <2>1. Len(s) \in Nat
    OBVIOUS
  <2>2. Len(r) > 0
    BY <1>1, <2>1
  <2>3. r # <<>>
    BY ONLY <1>1, <2>2, EmptySeq
  <2>4. QED
    BY <2>1, <2>2, <2>3
<1>3. /\ Tail(r) \in Seq(A) /\ Len(Tail(r)) = Len(r) - 1
      /\ \A i \in 1 .. Len(Tail(r)) : Tail(r)[i] = r[i + 1]
  BY ONLY <1>1, <1>2, HeadTailProperties
<1> DEFINE q == SubSeq(s, p + 2, Len(s))
<1>4. /\ q \in Seq(A) /\ Len(q) = Len(s) - p - 1
      /\ \A i \in 1 .. Len(s) - p - 1 : q[i] = s[p + 1 + i]
  OBVIOUS
<1>5. Len(Tail(r)) = Len(s) - p - 1
  BY <1>1, <1>2, <1>3
<1>6. \A i \in 1 .. Len(s) - p - 1 : Tail(r)[i] = q[i]
  <2> SUFFICES ASSUME NEW i \in 1 .. Len(s) - p - 1 PROVE Tail(r)[i] = q[i]
    OBVIOUS
  <2> HIDE DEF q
  <2>1. Tail(r)[i] = r[i + 1]
    BY <1>3, <1>5
  <2>2. r[i + 1] = s[p + (i + 1)]
    BY <1>1, <1>2
  <2>3. q[i] = s[p + 1 + i] /\ p + 1 + i = p + (i + 1)
    BY <1>4, <1>2
  <2>4. QED
    BY ONLY <2>1, <2>2, <2>3
<1> HIDE DEF q
<1>7. Tail(r) = q
  BY <1>3, <1>4, <1>5, <1>6, SeqEqual
<1>8. QED
  BY <1>1, <1>3, <1>7 DEF q

(* The list of intervals loses its front or nothing. *)
LEMMA ListStep ==
  ASSUME TypeOK, UNCHANGED setup,
         intervals' = intervals \/ (intervals # <<>> /\ intervals' = Tail(intervals))
  PROVE  /\ Popped' \in 0 .. Len(Intervals')
         /\ intervals' = SubSeq(Intervals', Popped' + 1, Len(Intervals'))
         /\ intervals' = intervals => Popped' = Popped
         /\ intervals # <<>> /\ intervals' = Tail(intervals) => Popped' = Popped + 1
<1>1. Intervals' = Intervals
  BY FixedSetup
<1> DEFINE A == [lhs : Nat, rhs : Nat]
<1>2. Intervals \in Seq(A)
  BY IntervalsType
<1>3. Popped \in 0 .. Len(Intervals) /\ intervals = SubSeq(Intervals, Popped + 1, Len(Intervals))
  BY DEF TypeOK
<1>4. Len(intervals) = Len(Intervals) - Popped /\ Len(Intervals) \in Nat
  BY ListType, IntervalsType
<1> HIDE DEF A
<1>5. ASSUME intervals # <<>>
      PROVE  /\ Tail(intervals) = SubSeq(Intervals, Popped + 2, Len(Intervals))
             /\ Len(Tail(intervals)) = Len(intervals) - 1
             /\ Popped \in Nat /\ Popped < Len(Intervals)
  <2>1. Popped + 1 \in 1 .. Len(Intervals)
    BY <1>5, ListType
  <2>2. Popped \in Nat /\ Popped < Len(Intervals)
    BY <1>3, <1>4, <2>1
  <2>3. QED
    BY ONLY <1>2, <1>3, <2>2, RestTail
<1>6. CASE intervals' = intervals
  <2>1. Popped' = Popped
    BY <1>1, <1>6 DEF Popped
  <2>2. intervals # <<>> => intervals' # Tail(intervals)
    BY ONLY <1>3, <1>4, <1>5, <1>6
  <2>3. QED
    BY ONLY <1>1, <1>3, <1>6, <2>1, <2>2
<1>7. CASE intervals # <<>> /\ intervals' = Tail(intervals)
  <2>1. Popped' = Len(Intervals) - Len(Tail(intervals))
    BY <1>1, <1>7 DEF Popped
  <2>2. Popped' = Popped + 1
    <3>1. Len(Tail(intervals)) = Len(intervals) - 1
      BY ONLY <1>5, <1>7
    <3>2. Popped \in Nat
      BY ONLY <1>5, <1>7
    <3> DEFINE a == Len(intervals)
               b == Len(Intervals)
               c == Len(Tail(intervals))
    <3>3. Popped' = b - c /\ a = b - Popped /\ c = a - 1 /\ b \in Nat
      BY <1>4, <2>1, <3>1
    <3> HIDE DEF a, b, c
    <3>4. QED
      BY ONLY <3>2, <3>3
  <2>3. intervals' # intervals
    BY ONLY <1>3, <1>4, <1>5, <1>7
  <2>4. Popped' \in 0 .. Len(Intervals) /\ Popped' + 1 = Popped + 2
    BY ONLY <1>4, <1>5, <1>7, <2>2
  <2>5. QED
    BY ONLY <1>1, <1>5, <1>7, <2>2, <2>3, <2>4
<1>8. QED
  BY <1>6, <1>7

-----------------------------------------------------------------------------
(* What an action does to the variables of its thread *)

LEMMA Domains ==
  ASSUME TypeOK
  PROVE  /\ DOMAIN real = Thread /\ DOMAIN pc = Thread /\ DOMAIN left = Thread
         /\ DOMAIN op = Thread /\ DOMAIN count = Thread /\ DOMAIN countInTraceFunc = Thread
         /\ DOMAIN stack = Thread /\ DOMAIN tracedFunctionsInStack = Thread
         /\ DOMAIN entry = Thread /\ DOMAIN file = Thread /\ DOMAIN samples = Thread
         /\ DOMAIN out = Thread
  BY DEF TypeOK

(* What the actions of t leave alone. *)
Frame(t) ==
  \A u \in Thread \ {t} :
    /\ real'[u] = real[u] /\ pc'[u] = pc[u] /\ left'[u] = left[u] /\ op'[u] = op[u]
    /\ count'[u] = count[u] /\ countInTraceFunc'[u] = countInTraceFunc[u]
    /\ stack'[u] = stack[u] /\ tracedFunctionsInStack'[u] = tracedFunctionsInStack[u]
    /\ entry'[u] = entry[u] /\ file'[u] = file[u] /\ samples'[u] = samples[u]
    /\ out'[u] = out[u]

LEMMA StepFrame ==
  ASSUME TypeOK, NEW t \in Thread, Step(t)
  PROVE  Frame(t)
<1> USE DEF Frame, counters, frames, output, At, Goto
<1>0. /\ DOMAIN real = Thread /\ DOMAIN pc = Thread /\ DOMAIN left = Thread
      /\ DOMAIN op = Thread /\ DOMAIN count = Thread /\ DOMAIN countInTraceFunc = Thread
      /\ DOMAIN stack = Thread /\ DOMAIN tracedFunctionsInStack = Thread
      /\ DOMAIN entry = Thread /\ DOMAIN file = Thread /\ DOMAIN samples = Thread
      /\ DOMAIN out = Thread
  BY Domains
<1>1. ASSUME NEW f \in Instrumented, PrintFuncEnter(t, f) PROVE Frame(t)
  BY ONLY <1>0, <1>1 DEF PrintFuncEnter
<1>2. CASE PrintValue(t)
  BY ONLY <1>0, <1>2 DEF PrintValue
<1>3. CASE PrintFuncEnterEnd(t)
  <2>1. CASE Logs(t)
    <3> DEFINE f == IF file[t] = 0 THEN samples[t] + 1 ELSE file[t]
               r == [event |-> "func", n |-> Executed(t), file |-> f, entry |-> entry[t]]
    <3>2. /\ file' = [file EXCEPT ![t] = f]
          /\ samples' = [samples EXCEPT ![t] = IF file[t] = 0 THEN f ELSE @]
          /\ out' = [out EXCEPT ![t] = Append(@, r)]
      BY <1>3, <2>1 DEF PrintFuncEnterEnd, Serialize, Executed
    <3> HIDE DEF f, r
    <3>3. QED
      BY ONLY <1>0, <1>3, <3>2 DEF PrintFuncEnterEnd
  <2>2. CASE ~Logs(t)
    BY <1>0, <1>3, <2>2 DEF PrintFuncEnterEnd
  <2>3. QED
    BY <2>1, <2>2
<1>4. ASSUME NEW f \in External, EnterExternal(t, f) PROVE Frame(t)
  BY ONLY <1>0, <1>4 DEF EnterExternal
<1>5. CASE ReturnExternal(t)
  BY ONLY <1>0, <1>5 DEF ReturnExternal
<1>6. ASSUME NEW f, NEW o, NEW q, BeginInst(t, f, o, q),
             real' = real \/ \E k : real' = [real EXCEPT ![t] = SubSeq(@, 1, k)]
      PROVE  Frame(t)
  <2>1. CASE ROI = "SpecifiedFunction" /\ (q = <<>> \/ Last(q) # f)
    BY ONLY <1>0, <1>6, <2>1 DEF BeginInst
  <2>2. CASE ~(ROI = "SpecifiedFunction" /\ (q = <<>> \/ Last(q) # f))
    <3> DEFINE e == LET n == InstCount(count'[t], countInTraceFunc'[t]) IN
                    IF ShouldLog(tracedFunctionsInStack[t], n) THEN OpenInst(entry[t], n)
                    ELSE entry[t]
    <3>1. entry' = [entry EXCEPT ![t] = e]
      BY ONLY <1>6, <2>2 DEF BeginInst
    <3> HIDE DEF e
    <3>2. /\ stack' = [stack EXCEPT ![t] = q] /\ op' = [op EXCEPT ![t] = o]
          /\ count' = [count EXCEPT ![t] = @ + 1]
          /\ countInTraceFunc' = [countInTraceFunc EXCEPT ![t] =
               IF ROI = "SpecifiedFunction" /\ tracedFunctionsInStack[t] > 0
               THEN @ + 1 ELSE @]
          /\ left' = [left EXCEPT ![t] = NumValues] /\ pc' = [pc EXCEPT ![t] = "values"]
          /\ UNCHANGED <<tracedFunctionsInStack, output>>
      BY ONLY <1>6, <2>2 DEF BeginInst
    <3>3. QED
      BY ONLY <1>0, <1>6, <3>1, <3>2
  <2>3. QED
    BY <2>1, <2>2
<1>7. ASSUME NEW o, PrintInst(t, o) \/ \E k \in 1 .. MaxDepth : PrintLandingpad(t, k)
      PROVE  Frame(t)
  BY ONLY <1>6, <1>7 DEF PrintInst, PrintLandingpad
<1>8. CASE InstEndLog(t)
  <2>1. CASE Logs(t)
    <3> DEFINE f == IF file[t] = 0 THEN samples[t] + 1 ELSE file[t]
               r == [event |-> "inst", n |-> Executed(t), file |-> f, entry |-> entry[t]]
    <3>2. /\ file' = [file EXCEPT ![t] = f]
          /\ samples' = [samples EXCEPT ![t] = IF file[t] = 0 THEN f ELSE @]
          /\ out' = [out EXCEPT ![t] = Append(@, r)]
      BY <1>8, <2>1 DEF InstEndLog, Serialize, Executed
    <3> HIDE DEF f, r
    <3>3. \E l : pc' = [pc EXCEPT ![t] = l]
      BY <1>8, <2>1 DEF InstEndLog
    <3>4. UNCHANGED <<real, left, op, intervals, counters, frames, entry, exited>>
      BY <1>8 DEF InstEndLog
    <3>5. QED
      BY ONLY <1>0, <3>2, <3>3, <3>4
  <2>2. CASE ~Logs(t)
    BY <1>0, <1>8, <2>2 DEF InstEndLog
  <2>3. QED
    BY <2>1, <2>2
<1>9. CASE InstEndCheckSwitch(t)
  BY ONLY <1>0, <1>9 DEF InstEndCheckSwitch
<1>10. CASE InstEndSwitch(t)
  BY ONLY <1>0, <1>10 DEF InstEndSwitch
<1>11. CASE InstEndFinish(t)
  BY ONLY <1>0, <1>11 DEF InstEndFinish
<1>12. QED
  BY <1>1, <1>2, <1>3, <1>4, <1>5, <1>7, <1>8, <1>9, <1>10, <1>11 DEF Step


LEMMA ExecutedNat ==
  ASSUME TypeOK, NEW t \in Thread
  PROVE  Executed(t) \in Nat
  BY DEF TypeOK, Executed, InstCount

(* What an event does to the entry keeps it an entry. *)
LEMMA EntryType ==
  ASSUME NEW e \in Entry, NEW n \in Nat
  PROVE  OpenFuncEnter(e, n) \in Entry /\ OpenInst(e, n) \in Entry /\ AddValue(e) \in Entry
<1>1. OpenFuncEnter(e, n) \in Entry
  BY DEF Entry, OpenFuncEnter
<1>2. OpenInst(e, n) \in Entry
  BY DEF Entry, OpenInst
<1>3. AddValue(e) \in Entry
  BY DEF Entry, AddValue
<1>4. QED
  BY <1>1, <1>2, <1>3

(* The types, with the setup they refer to. *)
LEMMA TypeParts ==
  ASSUME TypeOK, UNCHANGED setup, UNCHANGED intervals \/ (intervals # <<>> /\ intervals' = Tail(intervals)),
         /\ real' \in [Thread -> Seq(Instrumented \cup External)]
         /\ pc' \in [Thread -> {"run", "call", "args", "values", "switch", "pop", "finish"}]
         /\ left' \in [Thread -> 0 .. NumValues]
         /\ op' \in [Thread -> {"none", "op", "call", "ret", "landingpad"}],
         count' \in [Thread -> Nat] /\ countInTraceFunc' \in [Thread -> Nat],
         stack' \in [Thread -> Seq(Instrumented)],
         tracedFunctionsInStack' \in [Thread -> Nat],
         entry' \in [Thread -> Entry],
         /\ file' \in [Thread -> Nat] /\ samples' \in [Thread -> Nat]
         /\ \A t \in Thread : file'[t] \in {0, samples'[t]}
         /\ out' \in [Thread -> Seq(Record)],
         exited' \in {"no", "done", "mismatch"}
  PROVE  TypeOK'
<1>1. /\ Popped' \in 0 .. Len(Intervals')
      /\ intervals' = SubSeq(Intervals', Popped' + 1, Len(Intervals'))
  BY ListStep
<1>2. Instrumented' = Instrumented /\ External' = External
  BY FixedSetup
<1>3. setup' \in Setups
  BY DEF TypeOK
<1>4. QED
  BY <1>1, <1>2, <1>3 DEF TypeOK, Entry, Record

LEMMA FrontType ==
  ASSUME NEW A, NEW s \in Seq(A), s # <<>>
  PROVE  /\ Front(s) \in Seq(A) /\ Len(s) \in Nat \ {0} /\ Len(Front(s)) = Len(s) - 1
         /\ Last(s) \in A /\ Last(s) = s[Len(s)]
         /\ \A i \in 1 .. Len(s) - 1 : Front(s)[i] = s[i]
<1>1. Len(s) \in Nat \ {0}
  OBVIOUS
<1>2. Front(s) = SubSeq(s, 1, Len(s) - 1) /\ Last(s) = s[Len(s)]
  BY <1>1 DEF Front, Last
<1>3. PICK m \in Nat : m = Len(s) - 1
  BY <1>1
<1>4. /\ SubSeq(s, 1, m) \in Seq(A) /\ Len(SubSeq(s, 1, m)) = m
      /\ \A i \in 1 .. m : SubSeq(s, 1, m)[i] = s[i]
  BY <1>1, <1>3
<1>5. s[Len(s)] \in A
  BY <1>1
<1>6. QED
  BY ONLY <1>1, <1>2, <1>3, <1>4, <1>5

(* All that printInst does: frame k of the program goes on, q is our stack, *)
(* and n is the number of the instruction.                                  *)
Begins(t, k, o, q, c, n) ==
  /\ pc[t] = "run" /\ exited = "no"
  /\ k \in DOMAIN real[t] /\ real[t][k] \in Instrumented
  /\ real' = [real EXCEPT ![t] = SubSeq(@, 1, k)]
  /\ k = Len(real[t]) \/ Last(real[t]) \in External
  /\ ROI = "SpecifiedFunction" => IsPart(Instrumented, q, SubSeq(real[t], 1, k))
  /\ stack' = [stack EXCEPT ![t] = q]
  /\ op' = [op EXCEPT ![t] = o] /\ pc' = [pc EXCEPT ![t] = "values"]
  /\ left' = [left EXCEPT ![t] = NumValues]
  /\ count' = [count EXCEPT ![t] = @ + 1]
  /\ c = (IF ROI = "SpecifiedFunction" /\ tracedFunctionsInStack[t] > 0
          THEN countInTraceFunc[t] + 1 ELSE countInTraceFunc[t])
  /\ countInTraceFunc' = [countInTraceFunc EXCEPT ![t] = c]
  /\ n = InstCount(count[t] + 1, c)
  /\ entry' = [entry EXCEPT ![t] =
       IF ShouldLog(tracedFunctionsInStack[t], n) THEN OpenInst(@, n) ELSE @]
  /\ UNCHANGED <<intervals, tracedFunctionsInStack, file, samples, out, exited>>

(* printInst finds the function it expects on top of our stack, whether or  *)
(* not a landingpad has unwound it.                                         *)
LEMMA InstBegins ==
  ASSUME TypeOK, FramesInv, UNCHANGED setup, NEW t \in Thread,
         \/ \E o \in {"op", "call", "ret"} : PrintInst(t, o)
         \/ \E k \in 1 .. MaxDepth : PrintLandingpad(t, k)
  PROVE  \E k \in Nat, o \in {"op", "call", "ret", "landingpad"},
            q \in Seq(Instrumented), c \in Nat, n \in Nat : Begins(t, k, o, q, c, n)
<1>1. /\ real \in [Thread -> Seq(Instrumented \cup External)]
      /\ stack \in [Thread -> Seq(Instrumented)]
      /\ count \in [Thread -> Nat] /\ countInTraceFunc \in [Thread -> Nat]
  BY DEF TypeOK
<1> DEFINE A == Instrumented \cup External
<1>2. real[t] \in Seq(A) /\ stack[t] \in Seq(Instrumented)
  BY <1>1
<1>3. ROI = "SpecifiedFunction" => IsPart(Instrumented, stack[t], real[t])
  BY DEF FramesInv, StackExact
<1>4. \E k, o, q, f :
        /\ k \in DOMAIN real[t] /\ o \in {"op", "call", "ret", "landingpad"}
        /\ pc[t] = "run" /\ exited = "no"
        /\ real' = [real EXCEPT ![t] = SubSeq(@, 1, k)] /\ real[t][k] \in Instrumented
        /\ k = Len(real[t]) \/ Last(real[t]) \in External
        /\ f = real[t][k] /\ BeginInst(t, f, o, q)
        /\ IF ROI = "SpecifiedFunction"
           THEN q = SubSeq(stack[t], 1, Frames(Instrumented, real[t], k))
           ELSE q = stack[t]
  <2>1. CASE \E o \in {"op", "call", "ret"} : PrintInst(t, o)
    <3>1. PICK o \in {"op", "call", "ret"} : PrintInst(t, o)
      BY <2>1
    <3>2. /\ pc[t] = "run" /\ exited = "no" /\ real[t] # <<>> /\ Last(real[t]) \in Instrumented
          /\ real' = real
      BY <3>1 DEF PrintInst, At
    <3>3. PICK k : k = Len(real[t])
      OBVIOUS
    <3>4. /\ k \in DOMAIN real[t] /\ Last(real[t]) = real[t][k]
          /\ SubSeq(real[t], 1, k) = real[t]
      BY <1>2, <3>2, <3>3 DEF Last
    <3>5. real' = [real EXCEPT ![t] = SubSeq(@, 1, k)]
      BY <1>1, <3>2, <3>4
    <3>6. PICK f, q : f = real[t][k] /\ q = stack[t]
      OBVIOUS
    <3>7. BeginInst(t, f, o, q)
      BY <3>1, <3>4, <3>6 DEF PrintInst, BeginInst
    <3>8. ASSUME ROI = "SpecifiedFunction"
          PROVE  q = SubSeq(stack[t], 1, Frames(Instrumented, real[t], k))
      <4>1. Len(stack[t]) = Frames(Instrumented, real[t], k)
        BY <1>3, <3>3, <3>8 DEF IsPart
      <4>2. SubSeq(stack[t], 1, Len(stack[t])) = stack[t]
        BY <1>2
      <4>3. QED
        BY <3>6, <4>1, <4>2
    <3> HIDE DEF A
    <3>9. QED
      BY <3>2, <3>3, <3>4, <3>5, <3>6, <3>7, <3>8
  <2>2. CASE \E k \in 1 .. MaxDepth : PrintLandingpad(t, k)
    <3>1. PICK k \in 1 .. MaxDepth : PrintLandingpad(t, k)
      BY <2>2
    <3>2. /\ pc[t] = "run" /\ exited = "no" /\ Last(real[t]) \in External
          /\ k \in DOMAIN real[t] /\ real[t][k] \in Instrumented
          /\ real' = [real EXCEPT ![t] = SubSeq(@, 1, k)]
      BY <3>1 DEF PrintLandingpad, At
    <3>3. real'[t] = SubSeq(real[t], 1, k)
      BY <1>1, <3>2
    <3>4. PICK f, q : /\ f = real[t][k]
                      /\ q = IF ROI = "SpecifiedFunction"
                             THEN SubSeq(stack[t], 1, Boundary(stack[t], real'[t]))
                             ELSE stack[t]
      OBVIOUS
    <3>5. BeginInst(t, f, "landingpad", q)
      BY <3>1, <3>4 DEF PrintLandingpad, BeginInst
    <3>6. ASSUME ROI = "SpecifiedFunction"
          PROVE  Boundary(stack[t], real'[t]) = Frames(Instrumented, real[t], k)
      <4>1. k \in 0 .. Len(real[t])
        BY <1>2, <3>2
      <4>2. Instrumented \cap Nameless = {}
        BY NamesKnown
      <4> HIDE DEF A
      <4>3. QED
        BY <1>2, <1>3, <3>3, <3>6, <4>1, <4>2, BoundaryExact
    <3> HIDE DEF A
    <3>7. QED
      BY <3>2, <3>4, <3>5, <3>6
  <2>3. QED
    BY <2>1, <2>2
<1>5. PICK k, o, q, f :
        /\ k \in DOMAIN real[t] /\ o \in {"op", "call", "ret", "landingpad"}
        /\ pc[t] = "run" /\ exited = "no"
        /\ real' = [real EXCEPT ![t] = SubSeq(@, 1, k)] /\ real[t][k] \in Instrumented
        /\ k = Len(real[t]) \/ Last(real[t]) \in External
        /\ f = real[t][k] /\ BeginInst(t, f, o, q)
        /\ IF ROI = "SpecifiedFunction"
           THEN q = SubSeq(stack[t], 1, Frames(Instrumented, real[t], k))
           ELSE q = stack[t]
  BY <1>4
<1>6. k \in 0 .. Len(real[t]) /\ k > 0
  BY <1>2, <1>5
<1>7. ASSUME ROI = "SpecifiedFunction"
      PROVE  /\ IsPart(Instrumented, q, SubSeq(real[t], 1, k))
             /\ q \in Seq(Instrumented) /\ q # <<>> /\ Last(q) = f
  <2> HIDE DEF A
  <2>1. PICK b : b = Frames(Instrumented, real[t], k)
    OBVIOUS
  <2>2. /\ b \in 0 .. Len(stack[t]) /\ b > 0 /\ stack[t][b] = real[t][k]
        /\ IsPart(Instrumented, SubSeq(stack[t], 1, b), SubSeq(real[t], 1, k))
    BY <1>2, <1>3, <1>5, <1>6, <1>7, <2>1, PartUnwind
  <2>3. q = SubSeq(stack[t], 1, b)
    BY <1>5, <1>7, <2>1
  <2>4. q \in Seq(Instrumented) /\ Len(q) = b /\ q[b] = stack[t][b]
    BY <1>2, <2>2, <2>3
  <2>5. q # <<>> /\ Last(q) = q[b]
    BY <2>2, <2>4 DEF Last
  <2>6. QED
    BY <1>5, <2>2, <2>3, <2>4, <2>5
<1>8. q \in Seq(Instrumented)
  BY <1>2, <1>5, <1>7
<1>9. ~(ROI = "SpecifiedFunction" /\ (q = <<>> \/ Last(q) # f))
  BY <1>7
<1>10. PICK c \in Nat : c = IF ROI = "SpecifiedFunction" /\ tracedFunctionsInStack[t] > 0
                            THEN countInTraceFunc[t] + 1 ELSE countInTraceFunc[t]
  BY <1>1
<1>11. InstCount(count[t] + 1, c) \in Nat
  BY <1>1, <1>10 DEF InstCount
<1>12. PICK n \in Nat : n = InstCount(count[t] + 1, c)
  BY <1>11
<1>13. /\ stack' = [stack EXCEPT ![t] = q]
       /\ op' = [op EXCEPT ![t] = o] /\ pc' = [pc EXCEPT ![t] = "values"]
       /\ left' = [left EXCEPT ![t] = NumValues]
       /\ count' = [count EXCEPT ![t] = @ + 1]
       /\ countInTraceFunc' = [countInTraceFunc EXCEPT ![t] = c]
       /\ UNCHANGED <<intervals, tracedFunctionsInStack, file, samples, out, exited>>
  BY <1>5, <1>9, <1>10 DEF BeginInst, Goto, output
<1>14. InstCount(count'[t], countInTraceFunc'[t]) = n
  BY <1>1, <1>12, <1>13
<1>15. entry' = [entry EXCEPT ![t] =
                IF ShouldLog(tracedFunctionsInStack[t], n) THEN OpenInst(@, n) ELSE @]
  <2>1. entry' = [entry EXCEPT ![t] =
          IF ShouldLog(tracedFunctionsInStack[t], InstCount(count'[t], countInTraceFunc'[t]))
          THEN OpenInst(@, InstCount(count'[t], countInTraceFunc'[t])) ELSE @]
    BY <1>5, <1>9 DEF BeginInst
  <2>2. QED
    BY ONLY <1>14, <2>1
<1> HIDE DEF A
<1>16. Begins(t, k, o, q, c, n)
  BY ONLY <1>5, <1>7, <1>10, <1>12, <1>13, <1>15 DEF Begins
<1>17. k \in Nat
  BY <1>6
<1>18. QED
  BY ONLY <1>5, <1>8, <1>10, <1>12, <1>16, <1>17

LEMMA ExceptType ==
  ASSUME NEW A, NEW B, NEW f \in [A -> B], NEW a, NEW v \in B
  PROVE  [f EXCEPT ![a] = v] \in [A -> B]
  OBVIOUS

(* Types are kept, given what the code knows of the stack. *)
LEMMA TypeStep ==
  ASSUME TypeOK, FramesInv, NEW t \in Thread, ControlInv(t), Step(t), UNCHANGED setup
  PROVE  TypeOK'
<1>1. /\ real \in [Thread -> Seq(Instrumented \cup External)]
      /\ pc \in [Thread -> {"run", "call", "args", "values", "switch", "pop", "finish"}]
      /\ left \in [Thread -> 0 .. NumValues]
      /\ op \in [Thread -> {"none", "op", "call", "ret", "landingpad"}]
      /\ count \in [Thread -> Nat] /\ countInTraceFunc \in [Thread -> Nat]
      /\ stack \in [Thread -> Seq(Instrumented)] /\ entry \in [Thread -> Entry]
      /\ tracedFunctionsInStack \in [Thread -> Nat]
      /\ file \in [Thread -> Nat] /\ samples \in [Thread -> Nat]
      /\ \A u \in Thread : file[u] \in {0, samples[u]}
      /\ out \in [Thread -> Seq(Record)]
      /\ exited \in {"no", "done", "mismatch"}
  BY DEF TypeOK
<1>2. NumValues \in Nat /\ Executed(t) \in Nat
  BY SetupType, ExecutedNat
<1>3. Executed(t) = InstCount(count[t], countInTraceFunc[t])
  BY DEF Executed
<1>4. ASSUME Serialize(t, "func", Executed(t)) \/ Serialize(t, "inst", Executed(t))
      PROVE  /\ file' \in [Thread -> Nat] /\ samples' \in [Thread -> Nat]
             /\ \A u \in Thread : file'[u] \in {0, samples'[u]}
             /\ out' \in [Thread -> Seq(Record)]
  <2> DEFINE f == IF file[t] = 0 THEN samples[t] + 1 ELSE file[t]
             r(e) == [event |-> e, n |-> Executed(t), file |-> f, entry |-> entry[t]]
  <2>1. f \in Nat /\ (file[t] # 0 => f = samples[t])
    BY <1>1
  <2>2. \A e \in {"func", "inst"} : r(e) \in Record
    BY <1>1, <1>2, <2>1 DEF Record
  <2>3. /\ file' = [file EXCEPT ![t] = f]
        /\ samples' = [samples EXCEPT ![t] = IF file[t] = 0 THEN f ELSE @]
        /\ out' = [out EXCEPT ![t] = Append(@, r("func"))]
           \/ out' = [out EXCEPT ![t] = Append(@, r("inst"))]
    BY <1>4 DEF Serialize
  <2> HIDE DEF f, r
  <2>4. out' \in [Thread -> Seq(Record)]
    <3>1. PICK e \in {"func", "inst"} : out' = [out EXCEPT ![t] = Append(@, r(e))]
      BY <2>3
    <3>2. Append(out[t], r(e)) \in Seq(Record)
      BY <1>1, <2>2
    <3>3. QED
      BY <1>1, <3>1, <3>2
  <2>5. file' \in [Thread -> Nat] /\ samples' \in [Thread -> Nat]
    BY <1>1, <2>1, <2>3
  <2>6. \A u \in Thread : file'[u] \in {0, samples'[u]}
    BY <1>1, <2>1, <2>3
  <2>7. QED
    BY <2>4, <2>5, <2>6
<1>5. CASE \E g \in Instrumented : PrintFuncEnter(t, g)
  <2>1. PICK g \in Instrumented : PrintFuncEnter(t, g)
    BY <1>5
  <2>2. /\ real' = [real EXCEPT ![t] = Append(@, g)] /\ left' = [left EXCEPT ![t] = NumValues]
        /\ pc' = [pc EXCEPT ![t] = "args"]
        /\ UNCHANGED <<op, intervals, count, countInTraceFunc, file, samples, out, exited>>
    BY <2>1 DEF PrintFuncEnter, Goto, counters, output
  <2>3. /\ real' \in [Thread -> Seq(Instrumented \cup External)]
        /\ left' \in [Thread -> 0 .. NumValues]
        /\ pc' \in [Thread -> {"run", "call", "args", "values", "switch", "pop", "finish"}]
    <3>1. Append(real[t], g) \in Seq(Instrumented \cup External)
      BY <1>1
    <3>2. real' \in [Thread -> Seq(Instrumented \cup External)]
      BY <1>1, <2>2, <3>1
    <3>3. left' \in [Thread -> 0 .. NumValues]
      BY <1>1, <1>2, <2>2
    <3>4. pc' \in [Thread -> {"run", "call", "args", "values", "switch", "pop", "finish"}]
      BY <1>1, <2>2
    <3>5. QED
      BY <3>2, <3>3, <3>4
  <2>4. stack' \in [Thread -> Seq(Instrumented)] /\ tracedFunctionsInStack' \in [Thread -> Nat]
    <3>1. CASE ROI = "SpecifiedFunction"
      <4>1. /\ stack' = [stack EXCEPT ![t] = Append(@, g)]
            /\ tracedFunctionsInStack' =
                 [tracedFunctionsInStack EXCEPT ![t] = IF g \in Traced THEN @ + 1 ELSE @]
        BY <2>1, <3>1 DEF PrintFuncEnter
      <4>2. Append(stack[t], g) \in Seq(Instrumented)
        BY <1>1
      <4>3. QED
        BY <1>1, <4>1, <4>2
    <3>2. CASE ROI # "SpecifiedFunction"
      BY <1>1, <2>1, <3>2 DEF PrintFuncEnter, frames
    <3>3. QED
      BY <3>1, <3>2
  <2>5. entry' \in [Thread -> Entry]
    <3>1. entry[t] \in Entry /\ OpenFuncEnter(entry[t], Executed(t)) \in Entry
      BY <1>1, <1>2, EntryType
    <3>2. entry' = [entry EXCEPT ![t] =
            IF ShouldLog(tracedFunctionsInStack'[t], Executed(t))
            THEN OpenFuncEnter(@, Executed(t)) ELSE @]
      BY <2>1 DEF PrintFuncEnter, Executed
    <3>3. QED
      BY <1>1, <3>1, <3>2
  <2>6. QED
    BY <1>1, <2>2, <2>3, <2>4, <2>5, TypeParts
<1>6. CASE PrintValue(t)
  <2>1. /\ left' = [left EXCEPT ![t] = @ - 1] /\ left[t] > 0
        /\ UNCHANGED <<real, pc, op, intervals, count, countInTraceFunc, stack,
                       tracedFunctionsInStack, file, samples, out, exited>>
    BY <1>6 DEF PrintValue, counters, frames, output
  <2>2. entry' = [entry EXCEPT ![t] = IF Logs(t) THEN AddValue(@) ELSE @]
    BY <1>6 DEF PrintValue
  <2>3. entry[t] \in Entry /\ AddValue(entry[t]) \in Entry
    BY <1>1, <1>2, EntryType
  <2>4. entry' \in [Thread -> Entry] /\ left' \in [Thread -> 0 .. NumValues]
    BY <1>1, <1>2, <2>1, <2>2, <2>3
  <2>5. QED
    BY <1>1, <2>1, <2>4, TypeParts
<1>7. CASE PrintFuncEnterEnd(t)
  <2>1. /\ pc' = [pc EXCEPT ![t] = "run"]
        /\ UNCHANGED <<real, left, op, intervals, count, countInTraceFunc, stack,
                       tracedFunctionsInStack, entry, exited>>
        /\ IF Logs(t) THEN Serialize(t, "func", Executed(t)) ELSE UNCHANGED <<file, samples, out>>
    BY <1>7 DEF PrintFuncEnterEnd, Goto, counters, frames, output, Executed, Serialize
  <2>2. pc' \in [Thread -> {"run", "call", "args", "values", "switch", "pop", "finish"}]
    BY <1>1, <2>1
  <2>3. /\ file' \in [Thread -> Nat] /\ samples' \in [Thread -> Nat]
        /\ \A u \in Thread : file'[u] \in {0, samples'[u]}
        /\ out' \in [Thread -> Seq(Record)]
    BY <1>1, <1>4, <2>1
  <2>4. QED
    BY <1>1, <2>1, <2>2, <2>3, TypeParts
<1>8. CASE \E g \in External : EnterExternal(t, g)
  <2>1. PICK g \in External : EnterExternal(t, g)
    BY <1>8
  <2>2. /\ real' = [real EXCEPT ![t] = Append(@, g)] /\ pc' = [pc EXCEPT ![t] = "run"]
        /\ UNCHANGED <<left, op, intervals, count, countInTraceFunc, stack,
                       tracedFunctionsInStack, entry, file, samples, out, exited>>
    BY <2>1 DEF EnterExternal, Goto, counters, frames, output
  <2>3. /\ real' \in [Thread -> Seq(Instrumented \cup External)]
        /\ pc' \in [Thread -> {"run", "call", "args", "values", "switch", "pop", "finish"}]
    <3>1. Append(real[t], g) \in Seq(Instrumented \cup External)
      BY <1>1
    <3>2. QED
      BY <1>1, <2>2, <3>1
  <2>4. QED
    BY <1>1, <2>2, <2>3, TypeParts
<1>9. CASE ReturnExternal(t)
  <2>1. /\ real' = [real EXCEPT ![t] = Front(@)] /\ real[t] # <<>>
        /\ UNCHANGED <<pc, left, op, intervals, count, countInTraceFunc, stack,
                       tracedFunctionsInStack, entry, file, samples, out, exited>>
    BY <1>9 DEF ReturnExternal, counters, frames, output
  <2>2. real' \in [Thread -> Seq(Instrumented \cup External)]
    BY <1>1, <2>1, FrontType
  <2>3. QED
    BY <1>1, <2>1, <2>2, TypeParts
<1>10. CASE \/ \E o \in {"op", "call", "ret"} : PrintInst(t, o)
            \/ \E k \in 1 .. MaxDepth : PrintLandingpad(t, k)
  <2>0. PICK k \in Nat, o \in {"op", "call", "ret", "landingpad"},
             q \in Seq(Instrumented), c \in Nat, n \in Nat : Begins(t, k, o, q, c, n)
    BY <1>10, InstBegins
  <2>1. /\ real' = [real EXCEPT ![t] = SubSeq(@, 1, k)] /\ k \in DOMAIN real[t]
        /\ stack' = [stack EXCEPT ![t] = q]
        /\ op' = [op EXCEPT ![t] = o] /\ pc' = [pc EXCEPT ![t] = "values"]
        /\ left' = [left EXCEPT ![t] = NumValues]
        /\ count' = [count EXCEPT ![t] = @ + 1]
        /\ countInTraceFunc' = [countInTraceFunc EXCEPT ![t] = c]
        /\ entry' = [entry EXCEPT ![t] =
             IF ShouldLog(tracedFunctionsInStack[t], n) THEN OpenInst(@, n) ELSE @]
        /\ UNCHANGED <<intervals, tracedFunctionsInStack, file, samples, out, exited>>
    BY ONLY <2>0 DEF Begins
  <2>2. real[t] \in Seq(Instrumented \cup External) /\ k \in 0 .. Len(real[t])
    <3>1. real[t] \in Seq(Instrumented \cup External)
      BY ONLY <1>1, t \in Thread
    <3>2. k \in DOMAIN real[t]
      BY ONLY <2>1
    <3>3. QED
      BY ONLY <3>1, <3>2
  <2>3. SubSeq(real[t], 1, k) \in Seq(Instrumented \cup External)
    BY <2>2
  <2>4. real' \in [Thread -> Seq(Instrumented \cup External)]
    BY <1>1, <2>1, <2>3
  <2>5. OpenInst(entry[t], n) \in Entry
    BY <1>1, EntryType
  <2>6. entry' \in [Thread -> Entry]
    BY <1>1, <2>1, <2>5
  <2>7. /\ stack' \in [Thread -> Seq(Instrumented)]
        /\ op' \in [Thread -> {"none", "op", "call", "ret", "landingpad"}]
        /\ pc' \in [Thread -> {"run", "call", "args", "values", "switch", "pop", "finish"}]
        /\ left' \in [Thread -> 0 .. NumValues]
    <3>1. NumValues \in 0 .. NumValues
      BY <1>2
    <3>2. stack' \in [Thread -> Seq(Instrumented)]
      BY ONLY <1>1, <2>1, ExceptType, q \in Seq(Instrumented)
    <3>3. op' \in [Thread -> {"none", "op", "call", "ret", "landingpad"}]
      BY ONLY <1>1, <2>1, ExceptType, o \in {"op", "call", "ret", "landingpad"}
    <3>4. pc' \in [Thread -> {"run", "call", "args", "values", "switch", "pop", "finish"}]
      BY ONLY <1>1, <2>1, ExceptType
    <3>5. left' \in [Thread -> 0 .. NumValues]
      BY ONLY <1>1, <2>1, <3>1, ExceptType
    <3>6. QED
      BY ONLY <3>2, <3>3, <3>4, <3>5
  <2>8. count' \in [Thread -> Nat] /\ countInTraceFunc' \in [Thread -> Nat]
    <3>1. count[t] + 1 \in Nat
      BY ONLY <1>1, t \in Thread
    <3>2. count' \in [Thread -> Nat]
      BY ONLY <1>1, <2>1, <3>1, ExceptType
    <3>3. countInTraceFunc' \in [Thread -> Nat]
      BY ONLY <1>1, <2>1, ExceptType, c \in Nat
    <3>4. QED
      BY ONLY <3>2, <3>3
  <2>9. QED
    BY <1>1, <2>1, <2>4, <2>6, <2>7, <2>8, TypeParts
<1>12. CASE InstEndLog(t)
  <2>1. /\ pc' \in {[pc EXCEPT ![t] = "switch"], [pc EXCEPT ![t] = "finish"]}
        /\ UNCHANGED <<real, left, op, intervals, count, countInTraceFunc, stack,
                       tracedFunctionsInStack, entry, exited>>
        /\ IF Logs(t) THEN Serialize(t, "inst", Executed(t)) ELSE UNCHANGED <<file, samples, out>>
    BY <1>12 DEF InstEndLog, Goto, counters, frames, output, Executed, Serialize
  <2>2. pc' \in [Thread -> {"run", "call", "args", "values", "switch", "pop", "finish"}]
    BY <1>1, <2>1
  <2>3. /\ file' \in [Thread -> Nat] /\ samples' \in [Thread -> Nat]
        /\ \A u \in Thread : file'[u] \in {0, samples'[u]}
        /\ out' \in [Thread -> Seq(Record)]
    BY <1>1, <1>4, <2>1
  <2>4. QED
    BY <1>1, <2>1, <2>2, <2>3, TypeParts
<1>13. CASE InstEndCheckSwitch(t)
  <2>1. /\ pc' \in {[pc EXCEPT ![t] = "pop"], [pc EXCEPT ![t] = "finish"]}
        /\ UNCHANGED <<real, left, op, intervals, count, countInTraceFunc, stack,
                       tracedFunctionsInStack, entry, file, samples, out, exited>>
    BY <1>13 DEF InstEndCheckSwitch, Goto, counters, frames, output
  <2>2. pc' \in [Thread -> {"run", "call", "args", "values", "switch", "pop", "finish"}]
    BY <1>1, <2>1
  <2>3. QED
    BY <1>1, <2>1, <2>2, TypeParts
<1>14. CASE InstEndSwitch(t)
  <2>1. /\ pc' = [pc EXCEPT ![t] = "finish"] /\ file' = [file EXCEPT ![t] = 0]
        /\ UNCHANGED <<real, left, op, count, countInTraceFunc, stack,
                       tracedFunctionsInStack, entry, samples, out, exited>>
        /\ UNCHANGED intervals \/ (intervals # <<>> /\ intervals' = Tail(intervals))
    BY <1>14 DEF InstEndSwitch, Goto, counters, frames
  <2>2. /\ pc' \in [Thread -> {"run", "call", "args", "values", "switch", "pop", "finish"}]
        /\ file' \in [Thread -> Nat] /\ \A u \in Thread : file'[u] \in {0, samples'[u]}
    BY <1>1, <2>1
  <2>3. QED
    BY <1>1, <2>1, <2>2, TypeParts
<1>15. CASE InstEndFinish(t)
  <2>1. /\ pc[t] = "finish"
        /\ real' = [real EXCEPT ![t] = IF op[t] = "ret" THEN Front(@) ELSE @]
        /\ op' = [op EXCEPT ![t] = "none"]
        /\ pc' \in {[pc EXCEPT ![t] = "call"], [pc EXCEPT ![t] = "run"]}
        /\ exited' \in {"done", exited}
        /\ UNCHANGED <<left, intervals, count, countInTraceFunc, entry, file, samples, out>>
    BY <1>15 DEF InstEndFinish, At, Goto, counters, output
  <2>2. real[t] # <<>> /\ Last(real[t]) \in Instrumented /\ real[t] \in Seq(Instrumented \cup External)
    BY <1>1, <2>1 DEF ControlInv
  <2>3. Front(real[t]) \in Seq(Instrumented \cup External)
    BY <2>2, FrontType
  <2>4. /\ real' \in [Thread -> Seq(Instrumented \cup External)]
        /\ op' \in [Thread -> {"none", "op", "call", "ret", "landingpad"}]
        /\ pc' \in [Thread -> {"run", "call", "args", "values", "switch", "pop", "finish"}]
        /\ exited' \in {"no", "done", "mismatch"}
    BY <1>1, <2>1, <2>3
  <2>5. stack' \in [Thread -> Seq(Instrumented)] /\ tracedFunctionsInStack' \in [Thread -> Nat]
    <3>1. CASE ROI = "SpecifiedFunction" /\ op[t] = "ret"
      <4>1. /\ stack' = [stack EXCEPT ![t] = Front(@)]
            /\ tracedFunctionsInStack' = [tracedFunctionsInStack EXCEPT ![t] =
                 IF Last(stack[t]) \in Traced THEN @ - 1 ELSE @]
        BY <1>15, <3>1 DEF InstEndFinish
      <4>2. IsPart(Instrumented, stack[t], real[t]) /\ stack[t] \in Seq(Instrumented)
        BY <1>1, <3>1 DEF FramesInv, StackExact
      <4>3. stack[t] # <<>> /\ Last(stack[t]) = Last(real[t])
        BY <2>2, <4>2, PartPop
      <4>4. Front(stack[t]) \in Seq(Instrumented)
        BY <4>2, <4>3, FrontType
      <4>5. ASSUME Last(stack[t]) \in Traced PROVE tracedFunctionsInStack[t] > 0
        <5>1. PICK m : m = Len(real[t])
          OBVIOUS
        <5>2. m \in Nat \ {0} /\ Last(real[t]) = real[t][m]
          BY <2>2, <5>1 DEF Last
        <5>7. m \in 1 .. m /\ m \in Nat /\ real[t][m] \in Traced
          BY <4>3, <4>5, <5>2
        <5>3. Frames(Traced, real[t], m) \in 1 .. Frames(Traced, real[t], m)
          BY ONLY <5>7, FramesSome
        <5>4. Frames(Traced, real[t], m) \in Nat
          BY <5>2, FramesNat
        <5>5. tracedFunctionsInStack[t] >= Frames(Traced, real[t], m)
          BY <3>1, <5>1 DEF FramesInv
        <5>6. QED
          BY <1>1, <5>3, <5>4, <5>5
      <4>6. stack' \in [Thread -> Seq(Instrumented)]
        BY <1>1, <4>1, <4>4
      <4>7. tracedFunctionsInStack' \in [Thread -> Nat]
        BY <1>1, <4>1, <4>5
      <4>8. QED
        BY <4>6, <4>7
    <3>2. CASE ~(ROI = "SpecifiedFunction" /\ op[t] = "ret")
      BY <1>1, <1>15, <3>2 DEF InstEndFinish, frames
    <3>3. QED
      BY <3>1, <3>2
  <2>6. QED
    BY <1>1, <2>1, <2>4, <2>5, TypeParts
<1>16. QED
  BY <1>5, <1>6, <1>7, <1>8, <1>9, <1>10, <1>12, <1>13, <1>14, <1>15 DEF Step

(* What the base invariant says of one thread. *)
BaseAt(t) ==
  /\ ControlInv(t)
  /\ ROI = "SpecifiedFunction" =>
       /\ IsPart(Instrumented, stack[t], real[t])
       /\ tracedFunctionsInStack[t] >= Frames(Traced, real[t], Len(real[t]))

LEMMA BaseAtStep ==
  ASSUME BaseInv, NEW t \in Thread, Step(t), UNCHANGED setup
  PROVE  BaseAt(t)' /\ exited' # "mismatch"
<1>1. /\ real \in [Thread -> Seq(Instrumented \cup External)]
      /\ pc \in [Thread -> {"run", "call", "args", "values", "switch", "pop", "finish"}]
      /\ count \in [Thread -> Nat]
      /\ stack \in [Thread -> Seq(Instrumented)]
      /\ tracedFunctionsInStack \in [Thread -> Nat]
  BY DEF TypeOK, BaseInv
<1> DEFINE A == Instrumented \cup External
           r == real[t]
<1>2. r \in Seq(A) /\ stack[t] \in Seq(Instrumented)
  BY <1>1
<1>3. exited # "mismatch" /\ ControlInv(t)
  BY DEF BaseInv, FramesInv
<1>4. ROI = "SpecifiedFunction" =>
        /\ IsPart(Instrumented, stack[t], r)
        /\ tracedFunctionsInStack[t] >= Frames(Traced, r, Len(r))
  BY DEF BaseInv, FramesInv, StackExact
<1>5. ROI' = ROI /\ Traced' = Traced /\ Instrumented' = Instrumented
      /\ Traced \subseteq Instrumented /\ Instrumented \cap External = {}
  BY FixedSetup, SetupType DEF BaseInv
<1> HIDE DEF A, r
<1>6. Frames(Traced, r, Len(r)) \in Nat /\ tracedFunctionsInStack[t] \in Nat
  BY <1>1, <1>2, TracedFrames
<1>7. ASSUME UNCHANGED <<real, stack, tracedFunctionsInStack, count>>,
             exited' \in {"done", exited},
             \/ pc'[t] = "run" \/ pc'[t] = pc[t]
             \/ pc[t] \in {"values", "switch", "pop"} /\ pc'[t] \in {"switch", "pop", "finish"}
             \/ pc[t] = "finish" /\ pc'[t] = "call"
      PROVE  BaseAt(t)' /\ exited' # "mismatch"
  <2>1. ControlInv(t)'
    BY <1>3, <1>5, <1>7 DEF ControlInv
  <2>2. QED
    BY <1>3, <1>4, <1>5, <1>7, <2>1 DEF BaseAt, r
<1>8. CASE \E g \in Instrumented : PrintFuncEnter(t, g)
  <2>1. PICK g \in Instrumented : PrintFuncEnter(t, g)
    BY <1>8
  <2>2. /\ real'[t] = Append(r, g) /\ pc'[t] = "args" /\ UNCHANGED exited /\ g \in A
    BY <1>1, <2>1 DEF PrintFuncEnter, Goto, r, A
  <2>3. Append(r, g) # <<>> /\ Last(Append(r, g)) = g
    BY <1>2, <2>2 DEF Last
  <2>4. ControlInv(t)'
    BY <1>5, <2>2, <2>3 DEF ControlInv
  <2>5. ASSUME ROI = "SpecifiedFunction"
        PROVE  /\ IsPart(Instrumented, stack'[t], real'[t])
               /\ tracedFunctionsInStack'[t] >= Frames(Traced, real'[t], Len(real'[t]))
    <3>1. /\ stack'[t] = Append(stack[t], g)
          /\ tracedFunctionsInStack'[t] = tracedFunctionsInStack[t] + (IF g \in Traced THEN 1 ELSE 0)
      BY <1>1, <2>1, <2>5 DEF PrintFuncEnter
    <3>2. IsPart(Instrumented, Append(stack[t], g), Append(r, g))
      BY <1>2, <1>4, <2>2, <2>5, PartPush
    <3>3. Frames(Traced, Append(r, g), Len(Append(r, g)))
            = Frames(Traced, r, Len(r)) + (IF g \in Traced THEN 1 ELSE 0)
      <4>1. PICK q, T : q = Append(r, g) /\ T = Traced
        OBVIOUS
      <4>2. r \in Seq(A) /\ g \in A
        BY ONLY <1>2, <2>2
      <4>3. /\ g \in T => Frames(T, q, Len(q)) = Frames(T, r, Len(r)) + 1
            /\ g \notin T => Frames(T, q, Len(q)) = Frames(T, r, Len(r))
        BY ONLY <4>1, <4>2, FramesPush, Zenon
      <4>4. QED
        BY ONLY <1>6, <4>1, <4>3
    <3>4. QED
      BY <1>4, <1>6, <2>2, <2>5, <3>1, <3>2, <3>3
  <2>6. QED
    BY <1>3, <1>5, <2>2, <2>4, <2>5 DEF BaseAt
<1>9. CASE PrintValue(t)
  BY <1>7, <1>9 DEF PrintValue, counters, frames
<1>10. CASE PrintFuncEnterEnd(t)
  <2>1. pc'[t] = "run" /\ UNCHANGED <<real, stack, tracedFunctionsInStack, count, exited>>
    BY <1>1, <1>10 DEF PrintFuncEnterEnd, counters, frames, Goto
  <2>2. QED
    BY <1>7, <2>1
<1>11. CASE \E g \in External : EnterExternal(t, g)
  <2>1. PICK g \in External : EnterExternal(t, g)
    BY <1>11
  <2>2. /\ real'[t] = Append(r, g) /\ pc'[t] = "run" /\ g \in A
        /\ UNCHANGED <<exited, stack, tracedFunctionsInStack>>
    BY <1>1, <2>1 DEF EnterExternal, Goto, r, A, frames
  <2>3. g \notin Instrumented /\ g \notin Traced
    BY <1>5
  <2>4. ASSUME ROI = "SpecifiedFunction" PROVE IsPart(Instrumented, stack[t], Append(r, g))
    BY <1>2, <1>4, <2>2, <2>3, <2>4, PartPush
  <2>5. Frames(Traced, Append(r, g), Len(Append(r, g))) = Frames(Traced, r, Len(r))
    <3>1. Frames(Traced, Append(r, g), Len(Append(r, g)))
            = Frames(Traced, r, Len(r)) + (IF g \in Traced THEN 1 ELSE 0)
      <4>1. PICK q, T : q = Append(r, g) /\ T = Traced
        OBVIOUS
      <4>2. r \in Seq(A) /\ g \in A
        BY ONLY <1>2, <2>2
      <4>3. /\ g \in T => Frames(T, q, Len(q)) = Frames(T, r, Len(r)) + 1
            /\ g \notin T => Frames(T, q, Len(q)) = Frames(T, r, Len(r))
        BY ONLY <4>1, <4>2, FramesPush, Zenon
      <4>4. QED
        BY ONLY <1>6, <4>1, <4>3
    <3>2. QED
      BY ONLY <1>6, <2>3, <3>1
  <2>6. ControlInv(t)'
    BY <2>2 DEF ControlInv
  <2>7. QED
    BY <1>3, <1>4, <1>5, <2>2, <2>4, <2>5, <2>6 DEF BaseAt
<1>12. CASE ReturnExternal(t)
  <2>1. /\ real'[t] = Front(r) /\ pc'[t] = "run" /\ r # <<>> /\ Last(r) \in External
        /\ UNCHANGED <<exited, stack, tracedFunctionsInStack>>
    BY <1>1, <1>12 DEF ReturnExternal, At, r, frames
  <2>2. Last(r) \notin Instrumented /\ Last(r) \notin Traced
    BY <1>5, <2>1
  <2>3. ASSUME ROI = "SpecifiedFunction" PROVE IsPart(Instrumented, stack[t], Front(r))
    BY <1>2, <1>4, <2>1, <2>2, <2>3, PartPop
  <2>4. Frames(Traced, Front(r), Len(Front(r))) = Frames(Traced, r, Len(r))
    BY <1>2, <1>6, <2>1, <2>2, TracedFrames
  <2>5. ControlInv(t)'
    BY <2>1 DEF ControlInv
  <2>6. QED
    BY <1>3, <1>4, <1>5, <2>1, <2>3, <2>4, <2>5 DEF BaseAt
<1>13. CASE \/ \E o \in {"op", "call", "ret"} : PrintInst(t, o)
            \/ \E k \in 1 .. MaxDepth : PrintLandingpad(t, k)
  <2>1. PICK k \in Nat, o \in {"op", "call", "ret", "landingpad"},
             q \in Seq(Instrumented), c \in Nat, n \in Nat : Begins(t, k, o, q, c, n)
    BY <1>13, InstBegins DEF BaseInv
  <2>2. /\ real'[t] = SubSeq(r, 1, k) /\ k \in DOMAIN r /\ r[k] \in Instrumented
        /\ stack'[t] = q /\ pc'[t] = "values" /\ count'[t] = count[t] + 1
        /\ ROI = "SpecifiedFunction" => IsPart(Instrumented, q, SubSeq(r, 1, k))
        /\ UNCHANGED <<tracedFunctionsInStack, exited>>
    BY <1>1, <2>1 DEF Begins, r
  <2>3. k \in 0 .. Len(r) /\ k > 0
    BY <1>2, <2>2
  <2>4. SubSeq(r, 1, k) # <<>> /\ Last(SubSeq(r, 1, k)) = r[k]
    <3>1. Len(SubSeq(r, 1, k)) = k /\ SubSeq(r, 1, k)[k] = r[k]
      BY <1>2, <2>3
    <3>2. QED
      BY <2>3, <3>1 DEF Last
  <2>5. ControlInv(t)'
    <3>1. count'[t] > 0
      BY <1>1, <2>2
    <3>2. real'[t] # <<>> /\ Last(real'[t]) \in Instrumented'
      BY ONLY <1>5, <2>2, <2>4
    <3>3. QED
      BY ONLY <3>1, <3>2 DEF ControlInv
  <2>6. Frames(Traced, SubSeq(r, 1, k), Len(SubSeq(r, 1, k))) <= Frames(Traced, r, Len(r))
    BY <1>2, <2>3, TracedFrames
  <2>7. Frames(Traced, SubSeq(r, 1, k), Len(SubSeq(r, 1, k))) \in Nat
    BY <1>2, <2>3, TracedFrames, SubSeq(r, 1, k) \in Seq(A)
  <2>8. QED
    BY <1>3, <1>4, <1>5, <1>6, <2>2, <2>5, <2>6, <2>7 DEF BaseAt
<1>14. CASE InstEndLog(t)
  <2>1. /\ pc[t] = "values" /\ pc'[t] \in {"switch", "finish"}
        /\ UNCHANGED <<real, stack, tracedFunctionsInStack, count, exited>>
    BY <1>1, <1>14 DEF InstEndLog, counters, frames, Goto, At
  <2>2. QED
    BY <1>7, <2>1
<1>15. CASE InstEndCheckSwitch(t)
  <2>1. /\ pc[t] = "switch" /\ pc'[t] \in {"pop", "finish"}
        /\ UNCHANGED <<real, stack, tracedFunctionsInStack, count, exited>>
    BY <1>1, <1>15 DEF InstEndCheckSwitch, counters, frames, Goto, At
  <2>2. QED
    BY <1>7, <2>1
<1>16. CASE InstEndSwitch(t)
  <2>1. /\ pc[t] = "pop" /\ pc'[t] = "finish"
        /\ UNCHANGED <<real, stack, tracedFunctionsInStack, count, exited>>
    BY <1>1, <1>16 DEF InstEndSwitch, counters, frames, Goto, At
  <2>2. QED
    BY <1>7, <2>1
<1>17. CASE InstEndFinish(t)
  <2>1. /\ pc[t] = "finish" /\ pc'[t] \in {"call", "run"} /\ count' = count
        /\ exited' \in {"done", exited}
        /\ real'[t] = IF op[t] = "ret" THEN Front(r) ELSE r
    BY <1>1, <1>17 DEF InstEndFinish, At, Goto, counters, r
  <2>2. r # <<>> /\ Last(r) \in Instrumented /\ count[t] > 0
    BY <1>3, <2>1 DEF ControlInv, r
  <2>3. ControlInv(t)'
    BY <2>1, <2>2 DEF ControlInv
  <2>4. ASSUME ROI = "SpecifiedFunction"
        PROVE  /\ IsPart(Instrumented, stack'[t], real'[t])
               /\ tracedFunctionsInStack'[t] >= Frames(Traced, real'[t], Len(real'[t]))
    <3>1. CASE op[t] = "ret"
      <4>1. /\ stack'[t] = Front(stack[t]) /\ real'[t] = Front(r)
            /\ tracedFunctionsInStack'[t]
                 = IF Last(stack[t]) \in Traced THEN tracedFunctionsInStack[t] - 1
                   ELSE tracedFunctionsInStack[t]
        BY <1>1, <1>17, <2>1, <2>4, <3>1 DEF InstEndFinish
      <4>2. Last(stack[t]) = Last(r) /\ IsPart(Instrumented, Front(stack[t]), Front(r))
        BY <1>2, <1>4, <2>2, <2>4, PartPop
      <4>3. Frames(Traced, Front(r), Len(Front(r)))
              = Frames(Traced, r, Len(r)) - (IF Last(r) \in Traced THEN 1 ELSE 0)
        BY <1>2, <2>2, TracedFrames
      <4>4. QED
        BY <1>4, <1>6, <2>4, <4>1, <4>2, <4>3
    <3>2. CASE op[t] # "ret"
      BY <1>4, <1>17, <2>1, <2>4, <3>2 DEF InstEndFinish, frames
    <3>3. QED
      BY <3>1, <3>2
  <2>5. QED
    BY <1>3, <1>5, <2>1, <2>3, <2>4 DEF BaseAt
<1>18. QED
  BY <1>8, <1>9, <1>10, <1>11, <1>12, <1>13, <1>14, <1>15, <1>16, <1>17 DEF Step

LEMMA BaseStep == BaseInv /\ [Next]_vars => BaseInv'
<1> SUFFICES ASSUME BaseInv, [Next]_vars PROVE BaseInv'
  OBVIOUS
<1>1. ASSUME NEW t \in Thread, Step(t), UNCHANGED setup PROVE BaseInv'
  <2>1. TypeOK'
    BY <1>1, TypeStep DEF BaseInv
  <2>2. BaseAt(t)' /\ exited' # "mismatch"
    BY <1>1, BaseAtStep
  <2>3. Frame(t)
    BY <1>1, StepFrame DEF BaseInv
  <2>4. ROI' = ROI /\ Traced' = Traced /\ Instrumented' = Instrumented
    BY <1>1, FixedSetup
  <2>5. ASSUME NEW u \in Thread \ {t} PROVE BaseAt(u)'
    <3>1. BaseAt(u)
      BY DEF BaseInv, FramesInv, StackExact, BaseAt
    <3>2. /\ real'[u] = real[u] /\ pc'[u] = pc[u] /\ count'[u] = count[u]
          /\ stack'[u] = stack[u] /\ tracedFunctionsInStack'[u] = tracedFunctionsInStack[u]
      BY <2>3 DEF Frame
    <3>3. QED
      BY ONLY <2>4, <3>1, <3>2 DEF BaseAt, ControlInv
  <2>6. \A u \in Thread : BaseAt(u)'
    BY <2>2, <2>5
  <2>7. FramesInv' /\ \A u \in Thread : ControlInv(u)'
    BY <2>2, <2>6 DEF BaseAt, FramesInv, StackExact
  <2>8. QED
    BY <2>1, <2>7 DEF BaseInv
<1>2. CASE UNCHANGED vars
  <2>1. UNCHANGED <<setup, real, pc, left, op, intervals, count, countInTraceFunc, stack,
                    tracedFunctionsInStack, entry, file, samples, out, exited>>
    BY <1>2 DEF vars, counters, frames, output
  <2>2. UNCHANGED <<ROI, Intervals, Instrumented, Traced, External>>
    BY <2>1, FixedSetup
  <2>3. UNCHANGED Popped
    BY <2>1, <2>2 DEF Popped
  <2>4. TypeOK'
    BY <2>1, <2>2, <2>3 DEF TypeOK, BaseInv, Entry, Record
  <2>5. FramesInv' /\ \A t \in Thread : ControlInv(t)'
    BY <2>1, <2>2 DEF FramesInv, BaseInv, StackExact, ControlInv
  <2>6. QED
    BY <2>4, <2>5 DEF BaseInv
<1>3. CASE Next
  <2>1. PICK t \in setup.threads : Step(t) /\ UNCHANGED setup
    BY <1>3 DEF Next
  <2>2. t \in Thread
    BY <2>1, WindowAssumption DEF WindowAssumption, BaseInv, TypeOK
  <2>3. QED
    BY <1>1, <2>1, <2>2
<1>4. QED
  BY <1>2, <1>3

(* The types are right in every state, for any number of threads and any    *)
(* setup: no counter goes below zero, no stack holds what is not            *)
(* instrumented, and the list of intervals is a rest of what was read.      *)
THEOREM TypeCorrect == Spec => []TypeOK
<1>1. Spec => []BaseInv
  BY BaseInit, BaseStep, PTL DEF Spec
<1>2. BaseInv => TypeOK
  BY DEF BaseInv
<1>3. QED
  BY <1>1, <1>2, PTL

(* The region of interest is not lost (Tracer.cpp:68, 569-645): the stack   *)
(* of the tracer is the instrumented part of the program's through calls    *)
(* from uninstrumented code, recursion and exceptions, and a thread with a  *)
(* traced function on its stack is in the region.                           *)
THEOREM ROIKept == Spec => []ROITracked
<1>1. Spec => []BaseInv
  BY BaseInit, BaseStep, PTL DEF Spec
<1>2. BaseInv => ROITracked
  <2> SUFFICES ASSUME BaseInv PROVE ROITracked
    OBVIOUS
  <2>1. StackExact
    BY DEF BaseInv, FramesInv
  <2>2. ASSUME NEW t \in Thread, ROI = "SpecifiedFunction",
               NEW i \in DOMAIN real[t], real[t][i] \in Traced
        PROVE  tracedFunctionsInStack[t] > 0
    <3>1. real[t] \in Seq(Instrumented \cup External) /\ tracedFunctionsInStack[t] \in Nat
      BY DEF BaseInv, TypeOK
    <3>2. PICK k \in Nat : k = Len(real[t])
      BY <3>1
    <3>3. i \in 1 .. k
      BY <3>1, <3>2
    <3>4. Frames(Traced, real[t], i) \in 1 .. Frames(Traced, real[t], k)
      BY <2>2, <3>3, FramesSome
    <3>5. tracedFunctionsInStack[t] >= Frames(Traced, real[t], k) /\ Frames(Traced, real[t], k) \in Nat
      BY <2>2, <3>2, FramesNat DEF BaseInv, FramesInv
    <3>6. QED
      BY <3>1, <3>4, <3>5
  <2>3. QED
    BY <2>1, <2>2 DEF ROITracked, NoCalleeMissed
<1>3. QED
  BY <1>1, <1>2, PTL

-----------------------------------------------------------------------------
(* What each action does, seen from its thread: the relations the remaining *)
(* proofs reason with.                                                      *)
Same(t) ==
  /\ Executed(t)' = Executed(t) /\ count'[t] = count[t]
  /\ tracedFunctionsInStack'[t] = tracedFunctionsInStack[t]

Quiet(t) ==
  /\ file'[t] = file[t] /\ samples'[t] = samples[t] /\ out'[t] = out[t]
  /\ intervals' = intervals

Written(t, kind) ==
  \E f : /\ f = (IF file[t] = 0 THEN samples[t] + 1 ELSE file[t])
         /\ file'[t] = f /\ samples'[t] = (IF file[t] = 0 THEN f ELSE samples[t])
         /\ out'[t] = Append(out[t], [event |-> kind, n |-> Executed(t), file |-> f,
                                      entry |-> entry[t]])
         /\ intervals' = intervals

Enters(t) ==
  /\ exited' = "no" /\ pc[t] \in {"run", "call"} /\ pc'[t] = "args"
  /\ pc[t] = "run" /\ real[t] # <<>> => Last(real[t]) \in External
  /\ left'[t] = NumValues
  /\ Executed(t)' = Executed(t) /\ count'[t] = count[t]
  /\ entry'[t] = IF ShouldLog(tracedFunctionsInStack'[t], Executed(t))
                 THEN OpenFuncEnter(entry[t], Executed(t)) ELSE entry[t]
  /\ Quiet(t)

TakesValue(t) ==
  /\ exited' = "no" /\ pc[t] \in {"args", "values"} /\ pc'[t] = pc[t]
  /\ left[t] > 0 /\ left'[t] = left[t] - 1 /\ real'[t] = real[t]
  /\ entry'[t] = IF Logs(t) THEN AddValue(entry[t]) ELSE entry[t]
  /\ Same(t) /\ Quiet(t)

Entered(t) ==
  /\ exited' = "no" /\ pc[t] = "args" /\ pc'[t] = "run" /\ left[t] = 0
  /\ real'[t] = real[t] /\ entry'[t] = entry[t] /\ Same(t)
  /\ IF Logs(t) THEN Written(t, "func") ELSE Quiet(t)

GoesOutside(t) ==
  /\ exited' = "no" /\ pc[t] \in {"run", "call"} /\ pc'[t] = "run"
  /\ pc[t] = "run" => Last(real[t]) \in External
  /\ entry'[t] = entry[t] /\ Same(t) /\ Quiet(t)

BeginsInst(t) ==
  /\ exited' = "no" /\ pc[t] = "run" /\ pc'[t] = "values" /\ left'[t] = NumValues
  /\ tracedFunctionsInStack'[t] = tracedFunctionsInStack[t]
  /\ count'[t] = count[t] + 1
  /\ Executed(t)' = Executed(t) + (IF InROI(tracedFunctionsInStack[t]) THEN 1 ELSE 0)
  /\ entry'[t] = IF ShouldLog(tracedFunctionsInStack[t], Executed(t)')
                 THEN OpenInst(entry[t], Executed(t)') ELSE entry[t]
  /\ Quiet(t)

EndsValues(t) ==
  /\ exited' = "no" /\ pc[t] = "values" /\ left[t] = 0
  /\ entry'[t] = entry[t] /\ Same(t)
  /\ IF Logs(t) THEN pc'[t] = "switch" /\ Written(t, "inst")
     ELSE pc'[t] = "finish" /\ Quiet(t)

AtLast(t) ==
  \/ /\ Mode = "TraceUniformInterval"
     /\ (Executed(t) - StartInst) % (MaxInst + SkipInst) = MaxInst - 1
  \/ /\ Mode = "TraceSpecifiedInterval"
     /\ intervals # <<>> /\ Executed(t) = Head(intervals).rhs - 1

ChecksSwitch(t) ==
  /\ exited' = "no" /\ pc[t] = "switch" /\ pc'[t] = IF AtLast(t) THEN "pop" ELSE "finish"
  /\ entry'[t] = entry[t] /\ Same(t) /\ Quiet(t)

Switches(t) ==
  /\ exited' = "no" /\ pc[t] = "pop" /\ pc'[t] = "finish"
  /\ entry'[t] = entry[t] /\ Same(t)
  /\ file'[t] = 0 /\ samples'[t] = samples[t] /\ out'[t] = out[t]
  /\ intervals' = IF Mode = "TraceSpecifiedInterval" /\ intervals # <<>>
                  THEN Tail(intervals) ELSE intervals

Finishes(t) ==
  /\ pc[t] = "finish" /\ pc'[t] \in {"run", "call"}
  /\ exited' = IF ShouldExit(t) THEN "done" ELSE "no"
  /\ Executed(t)' = Executed(t) /\ count'[t] = count[t]
  /\ entry'[t] = entry[t] /\ Quiet(t)

LEMMA StepEffect ==
  ASSUME BaseInv, NEW t \in Thread, Step(t), UNCHANGED setup
  PROVE  /\ exited = "no"
         /\ \/ Enters(t) \/ TakesValue(t) \/ Entered(t) \/ GoesOutside(t) \/ BeginsInst(t)
            \/ EndsValues(t) \/ ChecksSwitch(t) \/ Switches(t) \/ Finishes(t)
<1>1. /\ DOMAIN real = Thread /\ DOMAIN pc = Thread /\ DOMAIN left = Thread
      /\ DOMAIN op = Thread /\ DOMAIN count = Thread /\ DOMAIN countInTraceFunc = Thread
      /\ DOMAIN stack = Thread /\ DOMAIN tracedFunctionsInStack = Thread
      /\ DOMAIN entry = Thread /\ DOMAIN file = Thread /\ DOMAIN samples = Thread
      /\ DOMAIN out = Thread
  BY Domains DEF BaseInv
<1>2. /\ ROI' = ROI /\ count[t] \in Nat /\ countInTraceFunc[t] \in Nat
      /\ tracedFunctionsInStack[t] \in Nat
  BY FixedSetup DEF BaseInv, TypeOK
<1>3. ASSUME count' = count, countInTraceFunc' = countInTraceFunc
      PROVE  Executed(t)' = Executed(t)
  BY <1>2, <1>3 DEF Executed, InstCount
<1>4. Executed(t) = InstCount(count[t], countInTraceFunc[t])
  BY DEF Executed
<1>5. CASE \E g \in Instrumented : PrintFuncEnter(t, g)
  <2>1. PICK g \in Instrumented : PrintFuncEnter(t, g)
    BY <1>5
  <2>2. /\ exited = "no" /\ exited' = "no" /\ pc[t] \in {"run", "call"} /\ pc'[t] = "args"
        /\ pc[t] = "run" /\ real[t] # <<>> => Last(real[t]) \in External
        /\ left'[t] = NumValues /\ Quiet(t)
    BY <1>1, <2>1 DEF PrintFuncEnter, CanEnter, Goto, Quiet, output
  <2>3. count' = count /\ countInTraceFunc' = countInTraceFunc
    BY <2>1 DEF PrintFuncEnter, counters
  <2>4. entry'[t] = IF ShouldLog(tracedFunctionsInStack'[t], Executed(t))
                    THEN OpenFuncEnter(entry[t], Executed(t)) ELSE entry[t]
    BY <1>1, <1>4, <2>1 DEF PrintFuncEnter
  <2>5. Enters(t)
    BY <1>3, <2>2, <2>3, <2>4 DEF Enters
  <2>6. QED
    BY <2>2, <2>5
<1>6. CASE PrintValue(t)
  <2>1. /\ exited = "no" /\ exited' = "no" /\ pc[t] \in {"args", "values"} /\ pc'[t] = pc[t]
        /\ left[t] > 0 /\ left'[t] = left[t] - 1 /\ real'[t] = real[t]
        /\ entry'[t] = IF Logs(t) THEN AddValue(entry[t]) ELSE entry[t]
        /\ Quiet(t)
    BY <1>1, <1>6 DEF PrintValue, Quiet, output
  <2>2. Same(t)
    BY <1>3, <1>6 DEF PrintValue, counters, frames, Same
  <2>3. QED
    BY <2>1, <2>2 DEF TakesValue
<1>7. ASSUME NEW kind, Serialize(t, kind, Executed(t)), intervals' = intervals
      PROVE  Written(t, kind)
  <2> DEFINE f == IF file[t] = 0 THEN samples[t] + 1 ELSE file[t]
             r == [event |-> kind, n |-> Executed(t), file |-> f, entry |-> entry[t]]
  <2>1. /\ file' = [file EXCEPT ![t] = f]
        /\ samples' = [samples EXCEPT ![t] = IF file[t] = 0 THEN f ELSE @]
        /\ out' = [out EXCEPT ![t] = Append(@, r)]
    BY <1>7 DEF Serialize
  <2>2. /\ file'[t] = f /\ samples'[t] = (IF file[t] = 0 THEN f ELSE samples[t])
        /\ out'[t] = Append(out[t], r)
    <3> HIDE DEF f, r
    <3>1. QED
      BY <1>1, <2>1
  <2>3. QED
    BY <1>7, <2>2 DEF Written
<1>8. CASE PrintFuncEnterEnd(t)
  <2>1. /\ exited = "no" /\ exited' = "no" /\ pc[t] = "args" /\ pc'[t] = "run" /\ left[t] = 0
        /\ real'[t] = real[t] /\ entry'[t] = entry[t] /\ intervals' = intervals
    BY <1>1, <1>8 DEF PrintFuncEnterEnd, At, Goto
  <2>2. Same(t)
    BY <1>3, <1>8 DEF PrintFuncEnterEnd, counters, frames, Same
  <2>3. IF Logs(t) THEN Serialize(t, "func", Executed(t)) ELSE UNCHANGED <<file, samples, out>>
    BY <1>8 DEF PrintFuncEnterEnd, Executed, Serialize, output
  <2>4. IF Logs(t) THEN Written(t, "func") ELSE Quiet(t)
    BY <1>7, <2>1, <2>3 DEF Quiet
  <2>5. QED
    BY <2>1, <2>2, <2>4 DEF Entered
<1>9. CASE (\E g \in External : EnterExternal(t, g)) \/ ReturnExternal(t)
  <2>1. /\ exited = "no" /\ exited' = "no" /\ pc[t] \in {"run", "call"} /\ pc'[t] = "run"
        /\ pc[t] = "run" => Last(real[t]) \in External
        /\ entry'[t] = entry[t] /\ Quiet(t)
    BY <1>1, <1>9 DEF EnterExternal, ReturnExternal, CanEnter, At, Goto, Quiet, output
  <2>2. Same(t)
    BY <1>3, <1>9 DEF EnterExternal, ReturnExternal, counters, frames, Same
  <2>3. QED
    BY <2>1, <2>2 DEF GoesOutside
<1>10. CASE \/ \E o \in {"op", "call", "ret"} : PrintInst(t, o)
            \/ \E k \in 1 .. MaxDepth : PrintLandingpad(t, k)
  <2>1. PICK k \in Nat, o \in {"op", "call", "ret", "landingpad"},
             q \in Seq(Instrumented), c \in Nat, n \in Nat : Begins(t, k, o, q, c, n)
    BY <1>10, InstBegins DEF BaseInv
  <2>2. /\ exited = "no" /\ exited' = "no" /\ pc[t] = "run" /\ pc'[t] = "values"
        /\ left'[t] = NumValues /\ count'[t] = count[t] + 1
        /\ countInTraceFunc'[t] = c
        /\ tracedFunctionsInStack'[t] = tracedFunctionsInStack[t] /\ Quiet(t)
    BY <1>1, <2>1 DEF Begins, Quiet
  <2>3. n = InstCount(count[t] + 1, c)
        /\ c = (IF ROI = "SpecifiedFunction" /\ tracedFunctionsInStack[t] > 0
                THEN countInTraceFunc[t] + 1 ELSE countInTraceFunc[t])
    BY <2>1 DEF Begins
  <2>4. Executed(t)' = n
    BY <1>2, <2>2, <2>3 DEF Executed, InstCount
  <2>5. n = Executed(t) + (IF InROI(tracedFunctionsInStack[t]) THEN 1 ELSE 0)
    BY <1>2, <2>3, SetupType DEF Executed, InstCount, InROI, BaseInv
  <2>6. entry'[t] = IF ShouldLog(tracedFunctionsInStack[t], n)
                    THEN OpenInst(entry[t], n) ELSE entry[t]
    BY <1>1, <2>1 DEF Begins
  <2>7. BeginsInst(t)
    BY ONLY <2>2, <2>4, <2>5, <2>6 DEF BeginsInst
  <2>8. QED
    BY <2>2, <2>7
<1>11. CASE InstEndLog(t)
  <2>1. /\ exited = "no" /\ exited' = "no" /\ pc[t] = "values" /\ left[t] = 0
        /\ pc'[t] = (IF Logs(t) THEN "switch" ELSE "finish")
        /\ entry'[t] = entry[t] /\ intervals' = intervals
    BY <1>1, <1>11 DEF InstEndLog, At, Goto
  <2>2. Same(t)
    BY <1>3, <1>11 DEF InstEndLog, counters, frames, Same
  <2>3. IF Logs(t) THEN Serialize(t, "inst", Executed(t)) ELSE UNCHANGED <<file, samples, out>>
    BY <1>11 DEF InstEndLog, Executed, Serialize, output
  <2>4. IF Logs(t) THEN Written(t, "inst") ELSE Quiet(t)
    BY <1>7, <2>1, <2>3 DEF Quiet
  <2>5. QED
    BY <2>1, <2>2, <2>4 DEF EndsValues
<1>12. CASE InstEndCheckSwitch(t)
  <2>1. /\ exited = "no" /\ exited' = "no" /\ pc[t] = "switch"
        /\ entry'[t] = entry[t] /\ Quiet(t)
    BY <1>1, <1>12 DEF InstEndCheckSwitch, At, Quiet, output
  <2>2. Same(t)
    BY <1>3, <1>12 DEF InstEndCheckSwitch, counters, frames, Same
  <2>3. pc'[t] = IF AtLast(t) THEN "pop" ELSE "finish"
    <3>1. pc' = [pc EXCEPT ![t] = IF AtLast(t) THEN "pop" ELSE "finish"]
      BY <1>12 DEF InstEndCheckSwitch, Goto, AtLast, Executed
    <3>2. QED
      BY <1>1, <3>1
  <2>4. QED
    BY <2>1, <2>2, <2>3 DEF ChecksSwitch
<1>13. CASE InstEndSwitch(t)
  <2>1. /\ exited = "no" /\ exited' = "no" /\ pc[t] = "pop" /\ pc'[t] = "finish"
        /\ entry'[t] = entry[t]
        /\ file'[t] = 0 /\ samples'[t] = samples[t] /\ out'[t] = out[t]
        /\ intervals' = IF Mode = "TraceSpecifiedInterval" /\ intervals # <<>>
                        THEN Tail(intervals) ELSE intervals
    BY <1>1, <1>13 DEF InstEndSwitch, At, Goto
  <2>2. Same(t)
    BY <1>3, <1>13 DEF InstEndSwitch, counters, frames, Same
  <2>3. QED
    BY <2>1, <2>2 DEF Switches
<1>14. CASE InstEndFinish(t)
  <2>1. /\ exited = "no" /\ pc[t] = "finish" /\ pc'[t] \in {"run", "call"}
        /\ exited' = (IF ShouldExit(t) THEN "done" ELSE "no")
        /\ count' = count /\ countInTraceFunc' = countInTraceFunc
        /\ entry'[t] = entry[t] /\ Quiet(t)
    BY <1>1, <1>14 DEF InstEndFinish, At, Goto, Quiet, output, counters
  <2>2. QED
    BY <1>3, <2>1 DEF Finishes
<1>15. QED
  BY <1>5, <1>6, <1>8, <1>9, <1>10, <1>11, <1>12, <1>13, <1>14 DEF Step

-----------------------------------------------------------------------------
(* The interval at the front *)

LEMMA SameWindows ==
  ASSUME UNCHANGED setup
  PROVE  /\ \A n : /\ WindowOf(n)' = WindowOf(n)
                   /\ LastOfWindow(n)' <=> LastOfWindow(n)
                   /\ InROI(n)' <=> InROI(n)
         /\ intervals' = intervals => \A n : Open(n)' <=> Open(n)
<1>1. UNCHANGED <<ROI, Mode, StartInst, MaxInst, SkipInst, Intervals>>
  BY FixedSetup
<1>2. \A n : WindowOf(n)' = WindowOf(n)
  BY ONLY <1>1 DEF WindowOf, InWindow, InInterval
<1>3. \A n : LastOfWindow(n)' <=> LastOfWindow(n)
  BY ONLY <1>1 DEF LastOfWindow
<1>4. \A n : InROI(n)' <=> InROI(n)
  BY ONLY <1>1 DEF InROI
<1>5. intervals' = intervals => \A n : Open(n)' <=> Open(n)
  BY ONLY <1>1 DEF Open, InUniformWindow, InFrontInterval
<1>6. QED
  BY <1>2, <1>3, <1>4, <1>5

LEMMA FrontInterval ==
  ASSUME TypeOK, intervals # <<>>
  PROVE  /\ Head(intervals).lhs \in Nat /\ Head(intervals).rhs \in Nat
         /\ Head(intervals).lhs < Head(intervals).rhs
         /\ Intervals # <<>> /\ Last(Intervals).rhs \in Nat
         /\ Head(intervals).rhs <= Last(Intervals).rhs
<1>1. /\ Head(intervals) = Intervals[Popped + 1] /\ Popped + 1 \in 1 .. Len(Intervals)
  BY ListType
<1>2. Len(Intervals) \in Nat /\ DOMAIN Intervals = 1 .. Len(Intervals)
  BY IntervalsType
<1>3. Len(Intervals) \in 1 .. Len(Intervals)
  BY <1>1, <1>2
<1> DEFINE a == Popped + 1
           b == Len(Intervals)
<1>4. a \in DOMAIN Intervals /\ b \in DOMAIN Intervals /\ a <= b
  BY <1>1, <1>2, <1>3
<1>5. Last(Intervals) = Intervals[b] /\ Intervals # <<>>
  <2>1. Intervals = <<>> => Len(Intervals) = 0
    OBVIOUS
  <2>2. QED
    BY <1>2, <1>3, <2>1 DEF Last
<1> HIDE DEF a, b
<1>6. /\ Intervals[a].lhs \in Nat /\ Intervals[a].rhs \in Nat
      /\ Intervals[b].lhs \in Nat /\ Intervals[b].rhs \in Nat
      /\ Intervals[a].lhs < Intervals[a].rhs /\ Intervals[b].lhs < Intervals[b].rhs
      /\ a < b => Intervals[a].rhs <= Intervals[b].lhs
  BY <1>4, IntervalsType
<1>7. a \in Nat /\ b \in Nat
  BY <1>2, <1>4
<1>8. Intervals[a].rhs <= Intervals[b].rhs
  BY ONLY <1>4, <1>6, <1>7
<1>9. Head(intervals) = Intervals[a]
  BY <1>1 DEF a
<1>10. QED
  BY <1>5, <1>6, <1>8, <1>9

LEMMA NextFront ==
  ASSUME TypeOK, UNCHANGED setup, intervals # <<>>, intervals' = Tail(intervals),
         intervals' # <<>>
  PROVE  /\ Head(intervals').lhs \in Nat /\ Head(intervals').rhs \in Nat
         /\ Head(intervals').lhs < Head(intervals').rhs
         /\ Head(intervals).rhs <= Head(intervals').lhs
<1>1. Intervals' = Intervals
  BY FixedSetup
<1>2. /\ Popped' = Popped + 1 /\ Popped' \in 0 .. Len(Intervals)
      /\ intervals' = SubSeq(Intervals, Popped' + 1, Len(Intervals))
  BY <1>1, ListStep
<1> DEFINE A == [lhs : Nat, rhs : Nat]
<1>3. Intervals \in Seq(A)
  BY IntervalsType
<1> HIDE DEF A
<1>4. PICK p : p = Popped'
  OBVIOUS
<1>5. Head(intervals') = Intervals[p + 1] /\ p + 1 \in 1 .. Len(Intervals)
  <2>1. p \in 0 .. Len(Intervals) /\ intervals' = SubSeq(Intervals, p + 1, Len(Intervals))
    BY ONLY <1>2, <1>4
  <2>2. QED
    BY ONLY <1>3, <2>1, intervals' # <<>>, Rest
<1>6. Head(intervals) = Intervals[p] /\ p \in 1 .. Len(Intervals)
  BY <1>2, <1>4, ListType
<1>7. p \in DOMAIN Intervals /\ p + 1 \in DOMAIN Intervals /\ p < p + 1
  BY <1>5, <1>6, IntervalsType
<1> DEFINE q == p + 1
<1> HIDE DEF q
<1>8. /\ q \in DOMAIN Intervals /\ p \in DOMAIN Intervals /\ p < q
      /\ Head(intervals') = Intervals[q]
  BY <1>5, <1>7 DEF q
<1>9. /\ Intervals[q].lhs \in Nat /\ Intervals[q].rhs \in Nat
      /\ Intervals[q].lhs < Intervals[q].rhs /\ Intervals[p].rhs <= Intervals[q].lhs
  BY <1>8, IntervalsType
<1>10. QED
  BY <1>6, <1>8, <1>9

(* A step leaves the list alone or takes off its front. *)
LEMMA ListChange ==
  ASSUME BaseInv, NEW t \in Thread, Step(t), UNCHANGED setup
  PROVE  \/ intervals' = intervals
         \/ /\ pc[t] = "pop" /\ Mode = "TraceSpecifiedInterval" /\ intervals # <<>>
            /\ intervals' = Tail(intervals)
  BY StepEffect DEF Enters, TakesValue, Entered, GoesOutside, BeginsInst, EndsValues,
     ChecksSwitch, Switches, Finishes, Quiet, Written

(* Nobody is past the front, whoever takes a step. *)
LEMMA FrontStep ==
  ASSUME BaseInv, \A v \in Thread : FrontInv(v), NEW t \in Thread, Step(t), UNCHANGED setup,
         NEW u \in Thread
  PROVE  FrontInv(u)'
<1> SUFFICES ASSUME Mode = "TraceSpecifiedInterval", intervals' # <<>>
             PROVE  /\ Executed(u)' < Head(intervals').rhs
                    /\ \/ Executed(u)' < Head(intervals').rhs - 1
                       \/ pc'[u] \in {"switch", "pop"} \/ Pending(u)'
  BY FixedSetup DEF FrontInv
<1>1. TypeOK /\ FrontInv(u) /\ Executed(u) \in Nat
  BY ExecutedNat DEF BaseInv
<1>2. CASE intervals' = Tail(intervals) /\ intervals # <<>> /\ pc[t] = "pop"
  <2>1. /\ Head(intervals').lhs \in Nat /\ Head(intervals').rhs \in Nat
        /\ Head(intervals').lhs < Head(intervals').rhs
        /\ Head(intervals).rhs <= Head(intervals').lhs /\ Head(intervals).rhs \in Nat
    BY <1>1, <1>2, NextFront, FrontInterval
  <2>2. Executed(u) < Head(intervals).rhs
    BY <1>1, <1>2 DEF FrontInv
  <2>3. Executed(u)' = Executed(u)
    <3>1. CASE u = t
      BY <1>2, <3>1, StepEffect DEF Enters, TakesValue, Entered, GoesOutside, BeginsInst,
         EndsValues, ChecksSwitch, Switches, Finishes, Same
    <3>2. CASE u # t
      BY <1>1, <3>2, StepFrame, FixedSetup DEF Frame, Executed, InstCount
    <3>3. QED
      BY <3>1, <3>2
  <2>4. QED
    BY ONLY <1>1, <2>1, <2>2, <2>3
<1>3. CASE intervals' = intervals
  <2>1. /\ Head(intervals).lhs \in Nat /\ Head(intervals).rhs \in Nat
        /\ Head(intervals).lhs < Head(intervals).rhs
    BY <1>1, <1>3, FrontInterval
  <2>2. /\ Executed(u) < Head(intervals).rhs
        /\ \/ Executed(u) < Head(intervals).rhs - 1
           \/ pc[u] \in {"switch", "pop"} \/ Pending(u)
    BY <1>1, <1>3 DEF FrontInv
  <2>3. CASE u # t
    <3>1. /\ Executed(u)' = Executed(u) /\ pc'[u] = pc[u]
          /\ tracedFunctionsInStack'[u] = tracedFunctionsInStack[u]
      BY <1>1, <2>3, StepFrame, FixedSetup DEF Frame, Executed, InstCount
    <3>2. Pending(u)' <=> Pending(u)
      BY <3>1, SameWindows DEF Pending
    <3>3. QED
      BY ONLY <1>3, <2>2, <3>1, <3>2
  <2>4. CASE u = t
    <3>1. ASSUME Executed(t)' = Executed(t), pc[t] \notin {"switch", "pop", "values"}
          PROVE  Executed(t)' < Head(intervals).rhs - 1
      BY <2>1, <2>2, <2>4, <3>1 DEF Pending
    <3>2. CASE Enters(t) \/ Entered(t) \/ GoesOutside(t) \/ Finishes(t)
      <4>1. Executed(t)' < Head(intervals).rhs - 1
        BY <3>1, <3>2 DEF Enters, Entered, GoesOutside, Finishes, Same
      <4>2. QED
        BY ONLY <1>1, <1>3, <2>1, <2>2, <2>4, <4>1, <3>2
           DEF Enters, Entered, GoesOutside, Finishes, Same
    <3>3. CASE TakesValue(t)
      <4>1. /\ Executed(t)' = Executed(t) /\ pc'[t] = pc[t]
            /\ tracedFunctionsInStack'[t] = tracedFunctionsInStack[t]
        BY <3>3 DEF TakesValue, Same
      <4>2. Pending(t)' <=> Pending(t)
        BY <4>1, SameWindows DEF Pending
      <4>3. QED
        BY ONLY <1>3, <2>2, <2>4, <4>1, <4>2
    <3>4. CASE BeginsInst(t)
      <4>1. Executed(t) < Head(intervals).rhs - 1
        BY <2>2, <2>4, <3>4 DEF BeginsInst, Pending
      <4>2. CASE InROI(tracedFunctionsInStack[t])
        <5>1. Executed(t)' = Executed(t) + 1 /\ Pending(t)'
          BY <3>4, <4>2, SameWindows DEF BeginsInst, Pending
        <5>2. QED
          BY ONLY <1>1, <1>3, <2>1, <2>4, <4>1, <5>1
      <4>3. CASE ~InROI(tracedFunctionsInStack[t])
        <5>1. Executed(t)' = Executed(t)
          BY <1>1, <2>4, <3>4, <4>3 DEF BeginsInst
        <5>2. QED
          BY ONLY <1>1, <1>3, <2>1, <2>4, <4>1, <5>1
      <4>4. QED
        BY <4>2, <4>3
    <3>5. CASE EndsValues(t)
      <4>1. Executed(t)' = Executed(t) /\ pc[t] = "values"
        BY <3>5 DEF EndsValues, Same
      <4>2. CASE Logs(t)
        BY ONLY <1>3, <2>2, <2>4, <3>5, <4>1, <4>2 DEF EndsValues
      <4>3. CASE ~Logs(t)
        <5>1. ASSUME Pending(t), Executed(t) >= Head(intervals).rhs - 1 PROVE FALSE
          <6>1. InFrontInterval(Executed(t))
            BY <1>1, <1>3, <2>1, <2>2, <2>4, <5>1 DEF InFrontInterval
          <6>2. Logs(t)
            BY <5>1, <6>1 DEF Logs, ShouldLog, Open, Pending, Executed
          <6>3. QED
            BY <4>3, <6>2
        <5>2. QED
          BY ONLY <1>1, <1>3, <2>1, <2>2, <2>4, <4>1, <5>1
      <4>4. QED
        BY <4>2, <4>3
    <3>6. CASE ChecksSwitch(t)
      <4>1. Executed(t)' = Executed(t) /\ pc'[t] = IF AtLast(t) THEN "pop" ELSE "finish"
        BY <3>6 DEF ChecksSwitch, Same
      <4>2. Executed(t) = Head(intervals).rhs - 1 => AtLast(t)
        BY <1>3 DEF AtLast
      <4>3. QED
        BY ONLY <1>1, <1>3, <2>1, <2>2, <2>4, <4>1, <4>2
    <3>7. CASE Switches(t)
      <4>1. intervals' = Tail(intervals) /\ intervals # <<>>
        BY <1>3, <3>7 DEF Switches
      <4>2. QED
        BY <1>1, <1>2, <3>7, <4>1 DEF Switches
    <3>8. QED
      BY <2>4, <3>2, <3>3, <3>4, <3>5, <3>6, <3>7, StepEffect
  <2>5. QED
    BY <2>3, <2>4
<1>4. QED
  BY <1>2, <1>3, ListChange

(* What is behind the front is not logged after the pop. *)
LEMMA ClosedByPop ==
  ASSUME TypeOK, UNCHANGED setup, Mode = "TraceSpecifiedInterval", intervals # <<>>,
         intervals' = Tail(intervals), NEW n \in Nat, n < Head(intervals).rhs
  PROVE  ~Open(n)'
<1>1. Mode' = Mode
  BY FixedSetup
<1>2. ASSUME intervals' # <<>> PROVE n < Head(intervals').lhs
  <2>1. /\ Head(intervals').lhs \in Nat /\ Head(intervals).rhs <= Head(intervals').lhs
        /\ Head(intervals).rhs \in Nat
    BY <1>2, NextFront, FrontInterval
  <2>2. QED
    BY ONLY <2>1, n \in Nat, n < Head(intervals).rhs
<1>3. ASSUME intervals' # <<>> PROVE Head(intervals').lhs \in Nat
  BY <1>3, NextFront
<1>4. ~InFrontInterval(n)'
  BY <1>2, <1>3 DEF InFrontInterval
<1>5. QED
  BY ONLY <1>1, <1>4, Mode = "TraceSpecifiedInterval" DEF Open

LEMMA Unmoved ==
  ASSUME BaseInv, NEW t \in Thread, Step(t), UNCHANGED setup, NEW u \in Thread \ {t}
  PROVE  /\ Executed(u)' = Executed(u) /\ Same(u)
         /\ pc'[u] = pc[u] /\ left'[u] = left[u] /\ real'[u] = real[u]
         /\ count'[u] = count[u] /\ entry'[u] = entry[u] /\ file'[u] = file[u]
         /\ samples'[u] = samples[u] /\ out'[u] = out[u]
         /\ Pending(u)' <=> Pending(u)
         /\ Done(u)' = Done(u)
<1>1. /\ pc'[u] = pc[u] /\ left'[u] = left[u] /\ real'[u] = real[u]
      /\ count'[u] = count[u] /\ countInTraceFunc'[u] = countInTraceFunc[u]
      /\ tracedFunctionsInStack'[u] = tracedFunctionsInStack[u]
      /\ entry'[u] = entry[u] /\ file'[u] = file[u]
      /\ samples'[u] = samples[u] /\ out'[u] = out[u]
  BY StepFrame DEF BaseInv, Frame
<1>2. Executed(u)' = Executed(u)
  BY <1>1, FixedSetup DEF Executed, InstCount
<1>3. Pending(u)' <=> Pending(u)
  BY <1>1, SameWindows DEF Pending
<1>4. Done(u)' = Done(u)
  BY ONLY <1>2, <1>3 DEF Done
<1>5. QED
  BY ONLY <1>1, <1>2, <1>3, <1>4 DEF Same

LEMMA EntryStep ==
  ASSUME BaseInv, BaseInv', \A v \in Thread : FrontInv(v), NEW t \in Thread, Step(t),
         UNCHANGED setup, NEW u \in Thread, EntryInv(u)
  PROVE  EntryInv(u)'
<1>1. /\ TypeOK /\ NumValues \in Nat /\ Executed(u) \in Nat /\ left[u] \in 0 .. NumValues
      /\ entry[u] \in Entry /\ Instrumented \cap External = {}
  BY ExecutedNat, SetupType DEF BaseInv, TypeOK
<1>2. /\ pc[u] \in {"args", "values"} /\ Logs(u) =>
           entry[u] = [kind |-> IF pc[u] = "args" THEN "func" ELSE "inst",
                       at |-> Executed(u), vals |-> NumValues - left[u]]
      /\ entry[u].kind = "func" =>
           \/ ~Open(Executed(u))
           \/ /\ pc[u] \in {"args", "run"} /\ InROI(tracedFunctionsInStack[u])
              /\ real[u] # <<>> /\ Last(real[u]) \in Instrumented
  BY DEF EntryInv
<1>3. \A v \in Thread : Logs(v) <=> InROI(tracedFunctionsInStack[v]) /\ Open(Executed(v))
  BY DEF Logs, ShouldLog, Executed
<1>4. Logs(u)' <=> InROI(tracedFunctionsInStack[u])' /\ Open(Executed(u))'
  BY DEF Logs, ShouldLog, Executed
<1>5. /\ InROI(tracedFunctionsInStack[u])' <=> InROI(tracedFunctionsInStack'[u])
      /\ Instrumented' = Instrumented
  BY FixedSetup, SameWindows
<1>6. ASSUME intervals' = intervals, Executed(u)' = Executed(u)
      PROVE  Open(Executed(u))' <=> Open(Executed(u))
  BY <1>6, SameWindows
<1>7. ASSUME intervals' # intervals, Executed(u)' = Executed(u)
      PROVE  ~Open(Executed(u))'
  <2>1. /\ Mode = "TraceSpecifiedInterval" /\ intervals # <<>> /\ intervals' = Tail(intervals)
    BY <1>7, ListChange
  <2>2. Executed(u) < Head(intervals).rhs
    BY <2>1 DEF FrontInv
  <2>3. PICK n \in Nat : n = Executed(u)
    BY <1>1
  <2>4. ~Open(n)'
    BY <1>1, <2>1, <2>2, <2>3, ClosedByPop
  <2>5. QED
    BY <1>7, <2>3, <2>4
<1>8. ASSUME ~Open(Executed(u))'
      PROVE  EntryInv(u)'
  BY ONLY <1>4, <1>8 DEF EntryInv
<1>9. CASE u # t
  <2>1. /\ Executed(u)' = Executed(u) /\ pc'[u] = pc[u] /\ left'[u] = left[u]
        /\ real'[u] = real[u] /\ entry'[u] = entry[u]
        /\ tracedFunctionsInStack'[u] = tracedFunctionsInStack[u]
    BY <1>9, Unmoved DEF Same
  <2>2. CASE intervals' = intervals
    <3>1. Open(Executed(u))' <=> Open(Executed(u))
      BY <1>6, <2>1, <2>2
    <3>2. Logs(u)' <=> Logs(u)
      BY ONLY <1>3, <1>4, <1>5, <2>1, <3>1
    <3>3. InROI(tracedFunctionsInStack[u])' <=> InROI(tracedFunctionsInStack[u])
      BY ONLY <1>5, <2>1
    <3>4. QED
      BY ONLY <1>2, <1>5, <2>1, <3>1, <3>2, <3>3 DEF EntryInv
  <2>3. CASE intervals' # intervals
    BY <1>7, <1>8, <2>1, <2>3
  <2>4. QED
    BY <2>2, <2>3
<1>10. ASSUME u = t, pc'[t] \notin {"args", "values"}, Executed(t)' = Executed(t),
              entry'[t] = entry[t],
              \/ ~ (pc[t] \in {"args", "run"} /\ InROI(tracedFunctionsInStack[t])
                    /\ real[t] # <<>> /\ Last(real[t]) \in Instrumented)
              \/ pc'[t] = "run" /\ real'[t] = real[t]
                 /\ tracedFunctionsInStack'[t] = tracedFunctionsInStack[t]
       PROVE  EntryInv(u)'
  <2>1. CASE intervals' = intervals
    <3>1. Open(Executed(u))' <=> Open(Executed(u))
      BY <1>6, <1>10, <2>1
    <3>2. QED
      BY ONLY <1>2, <1>5, <1>10, <3>1 DEF EntryInv
  <2>2. CASE intervals' # intervals
    BY <1>7, <1>8, <1>10, <2>2
  <2>3. QED
    BY <2>1, <2>2
<1>11. CASE u = t
  <2>1. CASE Enters(t)
    <3>1. /\ Executed(t)' = Executed(t) /\ intervals' = intervals /\ pc'[t] = "args"
          /\ pc[t] \in {"run", "call"} /\ left'[t] = NumValues
          /\ pc[t] = "run" /\ real[t] # <<>> => Last(real[t]) \in External
      BY ONLY <2>1 DEF Enters, Quiet
    <3>2. Open(Executed(t))' <=> Open(Executed(t))
      BY <1>6, <1>11, <3>1
    <3>3. Open(Executed(t)) => entry[t].kind # "func"
      BY ONLY <1>1, <1>2, <1>11, <3>1
    <3>4. real'[t] # <<>> /\ Last(real'[t]) \in Instrumented'
      BY <3>1 DEF BaseInv, ControlInv
    <3>5. CASE Logs(t)'
      <4>1. InROI(tracedFunctionsInStack'[t]) /\ Open(Executed(t))
        BY ONLY <1>4, <1>5, <1>11, <3>2, <3>5
      <4>2. entry'[t] = OpenFuncEnter(entry[t], Executed(t))
        BY ONLY <2>1, <4>1 DEF Enters, ShouldLog
      <4>3. entry'[t] = [kind |-> "func", at |-> Executed(t), vals |-> 0]
        BY ONLY <3>3, <4>1, <4>2 DEF OpenFuncEnter
      <4>4. NumValues' - left'[t] = 0
        BY <1>1, <3>1
      <4>5. QED
        BY ONLY <1>5, <1>11, <3>1, <3>4, <4>1, <4>3, <4>4 DEF EntryInv
    <3>6. CASE ~Logs(t)'
      <4>1. ~ (InROI(tracedFunctionsInStack'[t]) /\ Open(Executed(t)))
        BY ONLY <1>4, <1>5, <1>11, <3>2, <3>6
      <4>2. entry'[t] = entry[t]
        BY ONLY <2>1, <4>1 DEF Enters, ShouldLog
      <4>3. QED
        BY ONLY <1>11, <3>2, <3>3, <3>6, <4>2 DEF EntryInv
    <3>7. QED
      BY <3>5, <3>6
  <2>2. CASE TakesValue(t)
    <3>1. /\ Executed(t)' = Executed(t) /\ intervals' = intervals /\ pc'[t] = pc[t]
          /\ pc[t] \in {"args", "values"} /\ left[t] > 0 /\ left'[t] = left[t] - 1
          /\ real'[t] = real[t] /\ tracedFunctionsInStack'[t] = tracedFunctionsInStack[t]
          /\ entry'[t] = IF Logs(t) THEN AddValue(entry[t]) ELSE entry[t]
      BY ONLY <2>2 DEF TakesValue, Same, Quiet
    <3>2. Open(Executed(t))' <=> Open(Executed(t))
      BY <1>6, <1>11, <3>1
    <3>3. Logs(t)' <=> Logs(t)
      BY ONLY <1>3, <1>4, <1>5, <1>11, <3>1, <3>2
    <3>4. real[t] # <<>> /\ Last(real[t]) \in Instrumented
      BY <3>1 DEF BaseInv, ControlInv
    <3>5. CASE Logs(t)
      <4>1. InROI(tracedFunctionsInStack[t])
        BY ONLY <1>3, <3>5, t \in Thread
      <4>2. PICK k \in {"func", "inst"} :
              /\ k = (IF pc[t] = "args" THEN "func" ELSE "inst")
              /\ entry[t] = [kind |-> k, at |-> Executed(t), vals |-> NumValues - left[t]]
        BY ONLY <1>2, <1>11, <3>1, <3>5
      <4>3. entry'[t] = [kind |-> k, at |-> Executed(t), vals |-> NumValues - left[t] + 1]
        BY ONLY <3>1, <3>5, <4>2 DEF AddValue
      <4>4. NumValues - left[t] + 1 = NumValues - left'[t]
        BY ONLY <1>1, <1>11, <3>1
      <4>5. entry'[t] = [kind |-> k, at |-> Executed(t), vals |-> NumValues - left'[t]]
        BY ONLY <4>3, <4>4
      <4>6. entry'[t].kind = k
        BY ONLY <4>5
      <4>7. QED
        BY ONLY <1>5, <1>11, <3>1, <3>4, <4>1, <4>2, <4>5, <4>6 DEF EntryInv
    <3>6. CASE ~Logs(t)
      BY ONLY <1>2, <1>5, <1>11, <3>1, <3>2, <3>3, <3>6 DEF EntryInv
    <3>7. QED
      BY <3>5, <3>6
  <2>3. CASE Entered(t)
    BY <1>10, <1>11, <2>3 DEF Entered, Same
  <2>4. CASE GoesOutside(t)
    BY <1>1, <1>10, <1>11, <2>4 DEF GoesOutside, Same
  <2>5. CASE BeginsInst(t)
    <3>1. /\ intervals' = intervals /\ pc'[t] = "values" /\ left'[t] = NumValues
          /\ pc[t] = "run" /\ tracedFunctionsInStack'[t] = tracedFunctionsInStack[t]
          /\ Executed(t)' = Executed(t) + (IF InROI(tracedFunctionsInStack[t]) THEN 1 ELSE 0)
          /\ entry'[t] = IF ShouldLog(tracedFunctionsInStack[t], Executed(t)')
                         THEN OpenInst(entry[t], Executed(t)') ELSE entry[t]
      BY ONLY <2>5 DEF BeginsInst, Quiet
    <3>2. PICK n : n = Executed(t)'
      OBVIOUS
    <3>3. Open(n)' <=> Open(n)
      BY <3>1, SameWindows
    <3>4. Open(Executed(t))' <=> Open(n)
      BY <3>2, <3>3
    <3>5. CASE InROI(tracedFunctionsInStack[t]) /\ Open(n)
      <4>1. entry'[t] = [kind |-> "inst", at |-> n, vals |-> 0]
        BY ONLY <3>1, <3>2, <3>5 DEF ShouldLog, OpenInst
      <4>2. NumValues' - left'[t] = 0
        BY <1>1, <3>1
      <4>3. QED
        BY ONLY <1>11, <3>1, <3>2, <4>1, <4>2 DEF EntryInv
    <3>6. CASE ~ (InROI(tracedFunctionsInStack[t]) /\ Open(n))
      <4>1. entry'[t] = entry[t] /\ ~Logs(t)'
        BY ONLY <1>4, <1>5, <1>11, <3>1, <3>2, <3>4, <3>6 DEF ShouldLog
      <4>2. CASE InROI(tracedFunctionsInStack[t])
        BY <1>8, <1>11, <3>4, <3>6, <4>2
      <4>3. CASE ~InROI(tracedFunctionsInStack[t])
        <5>1. n = Executed(t)
          BY ONLY <1>1, <1>11, <3>1, <3>2, <4>3
        <5>2. entry[t].kind = "func" => ~Open(n)
          BY ONLY <1>2, <1>11, <4>3, <5>1
        <5>3. QED
          BY ONLY <1>11, <3>4, <4>1, <5>2 DEF EntryInv
      <4>4. QED
        BY <4>2, <4>3
    <3>7. QED
      BY <3>5, <3>6
  <2>6. CASE EndsValues(t)
    BY <1>10, <1>11, <2>6 DEF EndsValues, Same
  <2>7. CASE ChecksSwitch(t)
    BY <1>10, <1>11, <2>7 DEF ChecksSwitch, Same
  <2>8. CASE Switches(t)
    BY <1>10, <1>11, <2>8 DEF Switches, Same
  <2>9. CASE Finishes(t)
    BY <1>10, <1>11, <2>9 DEF Finishes
  <2>10. QED
    BY <2>1, <2>2, <2>3, <2>4, <2>5, <2>6, <2>7, <2>8, <2>9, StepEffect
<1>12. QED
  BY <1>9, <1>11

-----------------------------------------------------------------------------
(* What has been written *)

(* An entry that is appended; the others keep their places. *)
LEMMA Appended ==
  ASSUME NEW A, NEW s \in Seq(A), NEW r \in A, NEW q, q = Append(s, r)
  PROVE  \E k \in Nat \ {0} :
           /\ k = Len(s) + 1 /\ DOMAIN q = 1 .. k /\ q[k] = r /\ DOMAIN s = 1 .. k - 1
           /\ k - 1 \in Nat /\ DOMAIN q = DOMAIN s \cup {k} /\ k \notin DOMAIN s
           /\ \A i \in DOMAIN s : q[i] = s[i] /\ i \in Nat /\ i < k
<1>1. PICK k \in Nat \ {0} : k = Len(s) + 1
  OBVIOUS
<1>2. Len(s) = k - 1 /\ Len(s) \in Nat
  BY <1>1
<1>3. DOMAIN s = 1 .. k - 1 /\ DOMAIN q = 1 .. k /\ q[k] = r
  BY <1>1, <1>2
<1>4. \A i \in DOMAIN s : q[i] = s[i]
  BY <1>1
<1>5. QED
  BY ONLY <1>1, <1>2, <1>3, <1>4

(* What Written writes is an entry of the event. *)
LEMMA WrittenEntry ==
  ASSUME TypeOK, NEW t \in Thread, EntryInv(t), Logs(t), NEW kind, Written(t, kind),
         \/ pc[t] = "args" /\ kind = "func"
         \/ pc[t] = "values" /\ kind = "inst",
         left[t] = 0
  PROVE  \E k \in Nat \ {0}, r \in Record :
           /\ out'[t] = Append(out[t], r) /\ k = Len(out[t]) + 1
           /\ DOMAIN out'[t] = 1 .. k /\ DOMAIN out[t] = 1 .. k - 1
           /\ DOMAIN out'[t] = DOMAIN out[t] \cup {k} /\ k \notin DOMAIN out[t]
           /\ out'[t][k] = r
           /\ \A i \in DOMAIN out[t] : out'[t][i] = out[t][i] /\ i \in Nat /\ i < k
           /\ r.event = kind /\ r.n = Executed(t) /\ r.file = file'[t]
           /\ r.entry = [kind |-> kind, at |-> Executed(t), vals |-> NumValues]
           /\ file'[t] \in 1 .. samples'[t] /\ samples'[t] \in Nat /\ samples[t] <= samples'[t]
           /\ IF file[t] = 0 THEN file'[t] = samples[t] + 1 ELSE file'[t] = file[t]
<1>1. /\ file[t] \in Nat /\ samples[t] \in Nat /\ file[t] \in {0, samples[t]}
      /\ out[t] \in Seq(Record) /\ entry[t] \in Entry /\ Executed(t) \in Nat
      /\ NumValues \in Nat
  BY ExecutedNat, SetupType DEF TypeOK
<1>2. PICK f : /\ f = (IF file[t] = 0 THEN samples[t] + 1 ELSE file[t])
               /\ file'[t] = f /\ samples'[t] = (IF file[t] = 0 THEN f ELSE samples[t])
               /\ out'[t] = Append(out[t], [event |-> kind, n |-> Executed(t), file |-> f,
                                            entry |-> entry[t]])
  BY DEF Written
<1>3. /\ f \in Nat \ {0} /\ f \in 1 .. samples'[t] /\ samples'[t] \in Nat
      /\ samples[t] <= samples'[t]
  BY ONLY <1>1, <1>2
<1>4. PICK r : r = [event |-> kind, n |-> Executed(t), file |-> f, entry |-> entry[t]]
  OBVIOUS
<1>5. r \in Record
  BY <1>1, <1>3, <1>4 DEF Record
<1>6. entry[t] = [kind |-> kind, at |-> Executed(t), vals |-> NumValues]
  <2>1. entry[t] = [kind |-> IF pc[t] = "args" THEN "func" ELSE "inst",
                    at |-> Executed(t), vals |-> NumValues - left[t]]
    BY DEF EntryInv
  <2>2. NumValues - left[t] = NumValues /\ kind = IF pc[t] = "args" THEN "func" ELSE "inst"
    BY <1>1
  <2>3. QED
    BY ONLY <2>1, <2>2
<1>7. PICK q : q = out'[t]
  OBVIOUS
<1>8. q = Append(out[t], r) /\ out[t] \in Seq(Record)
  BY ONLY <1>1, <1>2, <1>4, <1>7
<1>9. PICK k \in Nat \ {0} :
           /\ k = Len(out[t]) + 1 /\ DOMAIN q = 1 .. k /\ q[k] = r /\ DOMAIN out[t] = 1 .. k - 1
           /\ DOMAIN q = DOMAIN out[t] \cup {k} /\ k \notin DOMAIN out[t]
           /\ \A i \in DOMAIN out[t] : q[i] = out[t][i] /\ i \in Nat /\ i < k
  BY ONLY <1>5, <1>8, Appended
<1>10. /\ r.event = kind /\ r.n = Executed(t) /\ r.file = f /\ r.entry = entry[t]
  BY ONLY <1>4
<1>11. QED
  BY ONLY <1>2, <1>3, <1>5, <1>6, <1>7, <1>8, <1>9, <1>10

LEMMA OutStep ==
  ASSUME BaseInv, NEW t \in Thread, Step(t), UNCHANGED setup,
         EntryInv(t), NEW u \in Thread, OutInv(u)
  PROVE  OutInv(u)'
<1>1. TypeOK /\ Executed(u) \in Nat /\ samples[u] \in Nat
  BY ExecutedNat DEF BaseInv, TypeOK
<1>2. \A n : WindowOf(n)' = WindowOf(n)
  BY SameWindows
<1>3. Done(u) \in Int
  BY <1>1 DEF Done
<1>4. /\ \A i \in DOMAIN out[u] :
           /\ out[u][i].event \in {"func", "inst"}
           /\ out[u][i].entry = [kind |-> out[u][i].event, at |-> out[u][i].n, vals |-> NumValues]
           /\ out[u][i].n \in 0 .. Done(u) /\ WindowOf(out[u][i].n) # 0
           /\ out[u][i].file \in 1 .. samples[u]
      /\ \A i, j \in DOMAIN out[u] : i < j =>
           /\ out[u][i].n <= out[u][j].n
           /\ out[u][i].event = "inst" /\ out[u][j].event = "inst" => out[u][i].n < out[u][j].n
  BY DEF OutInv
<1>5. ASSUME out'[u] = out[u], samples'[u] = samples[u], Done(u)' \in Int, Done(u)' >= Done(u)
      PROVE  OutInv(u)'
  <2>1. \A n \in 0 .. Done(u) : n \in 0 .. Done(u)'
    BY ONLY <1>3, <1>5
  <2>2. QED
    BY ONLY <1>2, <1>4, <1>5, <2>1 DEF OutInv
<1>6. CASE u # t
  <2>0. u \in Thread \ {t}
    BY <1>6
  <2>1. out'[u] = out[u] /\ samples'[u] = samples[u] /\ Done(u)' = Done(u)
    BY <2>0, Unmoved
  <2>2. Done(u)' \in Int /\ Done(u)' >= Done(u)
    BY ONLY <1>3, <2>1
  <2>3. QED
    BY ONLY <1>5, <2>1, <2>2
<1>7. ASSUME u = t,
             \/ Written(t, "func") /\ pc[t] = "args"
             \/ Written(t, "inst") /\ pc[t] = "values",
             Logs(t), Executed(t)' = Executed(t), pc'[t] # "values", left[t] = 0
      PROVE  OutInv(u)'
  <2>1. PICK kind \in {"func", "inst"} :
          /\ Written(t, kind)
          /\ \/ pc[t] = "args" /\ kind = "func"
             \/ pc[t] = "values" /\ kind = "inst"
    BY <1>7
  <2>2. PICK k \in Nat \ {0}, r \in Record :
           /\ DOMAIN out'[t] = DOMAIN out[t] \cup {k} /\ k \notin DOMAIN out[t]
           /\ out'[t][k] = r
           /\ \A i \in DOMAIN out[t] : out'[t][i] = out[t][i] /\ i \in Nat /\ i < k
           /\ r.event = kind /\ r.n = Executed(t) /\ r.file = file'[t]
           /\ r.entry = [kind |-> kind, at |-> Executed(t), vals |-> NumValues]
           /\ file'[t] \in 1 .. samples'[t] /\ samples'[t] \in Nat /\ samples[t] <= samples'[t]
    BY ONLY <1>1, <1>7, <2>1, EntryInv(t), t \in Thread, WrittenEntry
  <2>3. Done(t)' = Executed(t)
    BY ONLY <1>7 DEF Done, Pending
  <2>4. /\ Logs(t) => Open(Executed(t)) /\ InROI(tracedFunctionsInStack[t])
    BY DEF Logs, ShouldLog, Executed
  <2>5. WindowOf(Executed(t)) # 0
    BY ONLY <1>1, <1>7, <2>4, OpenInWindow
  <2>6. /\ Done(t) <= Executed(t)
        /\ kind = "inst" => Done(t) < Executed(t)
    BY ONLY <1>1, <1>7, <2>1, <2>4 DEF Done, Pending
  <2>7. samples'[t] \in Int
    BY ONLY <2>2
  <2>8. \A i \in DOMAIN out[t] :
           /\ out[t][i].n \in 0 .. Executed(t) /\ out[t][i].file \in 1 .. samples'[t]
           /\ kind = "inst" => out[t][i].n < Executed(t)
    <3>1. file'[t] \in 1 .. samples'[t] /\ samples[t] <= samples'[t]
      BY ONLY <2>2
    <3>2. samples'[t] \in Int
      BY ONLY <2>7
    <3>3. QED
      <4> SUFFICES ASSUME NEW i \in DOMAIN out[t]
                   PROVE  /\ out[t][i].n \in 0 .. Executed(t)
                          /\ out[t][i].file \in 1 .. samples'[t]
                          /\ kind = "inst" => out[t][i].n < Executed(t)
        OBVIOUS
      <4>1. /\ out[t][i].n \in 0 .. Done(t) /\ out[t][i].file \in 1 .. samples[t]
            /\ Done(t) \in Int /\ Executed(t) \in Nat /\ samples[t] \in Nat
        BY ONLY <1>1, <1>3, <1>4, <1>7, i \in DOMAIN out[t]
      <4>2. QED
        BY ONLY <2>6, <3>1, <3>2, <4>1
  <2> DEFINE s == out'[t]
  <2>9. \A i \in DOMAIN s :
           /\ s[i].event \in {"func", "inst"}
           /\ s[i].entry = [kind |-> s[i].event, at |-> s[i].n, vals |-> NumValues]
           /\ s[i].n \in 0 .. Executed(t) /\ WindowOf(s[i].n) # 0
           /\ s[i].file \in 1 .. samples'[t]
    <3> SUFFICES ASSUME NEW i \in DOMAIN s
                 PROVE  /\ s[i].event \in {"func", "inst"}
                        /\ s[i].entry = [kind |-> s[i].event, at |-> s[i].n, vals |-> NumValues]
                        /\ s[i].n \in 0 .. Executed(t) /\ WindowOf(s[i].n) # 0
                        /\ s[i].file \in 1 .. samples'[t]
      OBVIOUS
    <3>1. CASE i = k
      <4>1. Executed(t) \in 0 .. Executed(t)
        BY <1>1, <1>7
      <4>2. s[i] = r
        BY <2>2, <3>1
      <4>3. QED
        BY ONLY <2>1, <2>2, <2>5, <4>1, <4>2
    <3>2. CASE i \in DOMAIN out[t]
      <4>1. s[i] = out[t][i]
        BY <2>2, <3>2
      <4>2. QED
        BY ONLY <1>4, <1>7, <2>8, <3>2, <4>1
    <3>3. QED
      BY <2>2, <3>1, <3>2
  <2>10. \A i, j \in DOMAIN s : i < j =>
           /\ s[i].n <= s[j].n
           /\ s[i].event = "inst" /\ s[j].event = "inst" => s[i].n < s[j].n
    <3> SUFFICES ASSUME NEW i \in DOMAIN s, NEW j \in DOMAIN s, i < j
                 PROVE  /\ s[i].n <= s[j].n
                        /\ s[i].event = "inst" /\ s[j].event = "inst" => s[i].n < s[j].n
      OBVIOUS
    <3>1. i \in DOMAIN out[t]
      BY <2>2
    <3>2. s[i] = out[t][i]
      BY <2>2, <3>1
    <3>3. CASE j = k
      <4>1. s[j] = r
        BY <2>2, <3>3
      <4>2. QED
        BY ONLY <1>1, <1>7, <2>2, <2>8, <3>1, <3>2, <4>1
    <3>4. CASE j \in DOMAIN out[t]
      <4>1. s[j] = out[t][j]
        BY <2>2, <3>4
      <4>2. QED
        BY ONLY <1>4, <1>7, <3>1, <3>2, <3>4, <4>1, i < j
    <3>5. QED
      BY <2>2, <3>3, <3>4
  <2> HIDE DEF s
  <2>11. QED
    BY ONLY <1>2, <1>7, <2>3, <2>9, <2>10 DEF OutInv, s
<1>8. CASE u = t
  <2>1. Pending(t)' <=> pc'[t] = "values" /\ InROI(tracedFunctionsInStack'[t])
    BY SameWindows DEF Pending
  <2>2. CASE Enters(t) \/ GoesOutside(t) \/ ChecksSwitch(t) \/ Switches(t) \/ Finishes(t)
    <3>1. /\ out'[t] = out[t] /\ samples'[t] = samples[t] /\ Executed(t)' = Executed(t)
          /\ pc'[t] # "values" /\ pc[t] # "values"
      BY ONLY <2>2 DEF Enters, GoesOutside, ChecksSwitch, Switches, Finishes, Same, Quiet
    <3>2. Done(t)' = Done(t)
      BY ONLY <3>1 DEF Done, Pending
    <3>3. QED
      BY ONLY <1>3, <1>5, <1>8, <3>1, <3>2
  <2>3. CASE TakesValue(t)
    <3>1. /\ out'[t] = out[t] /\ samples'[t] = samples[t] /\ Executed(t)' = Executed(t)
          /\ pc'[t] = pc[t] /\ tracedFunctionsInStack'[t] = tracedFunctionsInStack[t]
      BY ONLY <2>3 DEF TakesValue, Same, Quiet
    <3>2. Done(t)' = Done(t)
      BY ONLY <2>1, <3>1 DEF Done, Pending
    <3>3. QED
      BY ONLY <1>3, <1>5, <1>8, <3>1, <3>2
  <2>4. CASE Entered(t)
    <3>1. CASE Logs(t)
      <4>1. /\ Written(t, "func") /\ pc[t] = "args" /\ Executed(t)' = Executed(t)
            /\ pc'[t] # "values" /\ left[t] = 0
        BY ONLY <2>4, <3>1 DEF Entered, Same
      <4>2. QED
        BY ONLY <1>7, <1>8, <3>1, <4>1
    <3>2. CASE ~Logs(t)
      <4>1. /\ out'[t] = out[t] /\ samples'[t] = samples[t] /\ Executed(t)' = Executed(t)
            /\ pc'[t] # "values" /\ pc[t] # "values"
        BY ONLY <2>4, <3>2 DEF Entered, Same, Quiet
      <4>2. Done(t)' = Done(t)
        BY ONLY <4>1 DEF Done, Pending
      <4>3. QED
        BY ONLY <1>3, <1>5, <1>8, <4>1, <4>2
    <3>3. QED
      BY <3>1, <3>2
  <2>5. CASE BeginsInst(t)
    <3>1. /\ out'[t] = out[t] /\ samples'[t] = samples[t] /\ pc[t] = "run" /\ pc'[t] = "values"
          /\ tracedFunctionsInStack'[t] = tracedFunctionsInStack[t]
          /\ Executed(t)' = Executed(t) + (IF InROI(tracedFunctionsInStack[t]) THEN 1 ELSE 0)
      BY ONLY <2>5 DEF BeginsInst, Quiet
    <3>2. Done(t) = Executed(t)
      BY ONLY <3>1 DEF Done, Pending
    <3>3. Done(t)' = IF InROI(tracedFunctionsInStack[t]) THEN Executed(t)' - 1 ELSE Executed(t)'
      BY ONLY <2>1, <3>1 DEF Done
    <3>4. Done(t)' = Done(t)
      BY ONLY <1>1, <1>8, <3>1, <3>2, <3>3
    <3>5. QED
      BY ONLY <1>3, <1>5, <1>8, <3>1, <3>4
  <2>6. CASE EndsValues(t)
    <3>1. CASE Logs(t)
      BY ONLY <1>7, <1>8, <2>6, <3>1 DEF EndsValues, Same
    <3>2. CASE ~Logs(t)
      <4>1. /\ out'[t] = out[t] /\ samples'[t] = samples[t] /\ Executed(t)' = Executed(t)
            /\ pc'[t] # "values"
        BY ONLY <2>6, <3>2 DEF EndsValues, Same, Quiet
      <4>2. Done(t)' = Executed(t)
        BY ONLY <4>1 DEF Done, Pending
      <4>3. Done(t)' >= Done(t) /\ Done(t)' \in Int
        BY ONLY <1>1, <1>8, <4>2 DEF Done
      <4>4. QED
        BY ONLY <1>5, <1>8, <4>1, <4>3
    <3>3. QED
      BY <3>1, <3>2
  <2>7. QED
    BY <2>2, <2>3, <2>4, <2>5, <2>6, StepEffect
<1>9. QED
  BY <1>6, <1>8

(* The process has not run past its end. *)
LEMMA ExitStep ==
  ASSUME BaseInv, NEW t \in Thread, Step(t), UNCHANGED setup, FrontInv(t),
         NEW u \in Thread, ExitInv(u)
  PROVE  ExitInv(u)'
<1>1. UNCHANGED <<Mode, HardExitCount, EndInst, Intervals>> /\ TypeOK
  BY FixedSetup DEF BaseInv
<1>2. exited = "no"
  BY StepEffect
<1>3. ASSUME pc[u] \in {"run", "call", "args"} \/ pc'[u] \notin {"run", "call", "args"},
             count'[u] = count[u] \/ pc'[u] \notin {"run", "call", "args"},
             Executed(u)' = Executed(u) \/ pc'[u] \notin {"run", "call", "args"}
      PROVE  ExitInv(u)'
  BY ONLY <1>1, <1>2, <1>3, ExitInv(u) DEF ExitInv
<1>4. CASE u # t
  <2>1. pc'[u] = pc[u] /\ count'[u] = count[u] /\ Executed(u)' = Executed(u)
    BY <1>4, Unmoved
  <2>2. QED
    BY ONLY <1>3, <2>1
<1>5. CASE u = t
  <2>1. CASE \/ Enters(t) \/ TakesValue(t) \/ Entered(t) \/ GoesOutside(t) \/ BeginsInst(t)
             \/ EndsValues(t) \/ ChecksSwitch(t) \/ Switches(t)
    BY ONLY <1>3, <1>5, <2>1 DEF Enters, TakesValue, Entered, GoesOutside, BeginsInst,
       EndsValues, ChecksSwitch, Switches, Same
  <2>2. CASE Finishes(t)
    <3> SUFFICES ASSUME exited' = "no" PROVE ExitInv(t)'
      BY <1>5 DEF ExitInv
    <3>1. /\ ~ShouldExit(t) /\ Executed(t)' = Executed(t) /\ count'[t] = count[t]
          /\ pc[t] = "finish"
      BY ONLY <2>2, exited' = "no" DEF Finishes
    <3>2. /\ count[t] # HardExitCount
          /\ Mode = "TraceUniformInterval" => Executed(t) # EndInst
          /\ Mode = "TraceSpecifiedInterval" => intervals # <<>>
      BY ONLY <3>1 DEF ShouldExit, Executed
    <3>3. ASSUME Mode = "TraceSpecifiedInterval"
          PROVE  Intervals # <<>> /\ Executed(t) < Last(Intervals).rhs - 1
      <4>1. Executed(t) < Head(intervals).rhs - 1 /\ Executed(t) \in Nat
        BY <1>1, <3>1, <3>2, <3>3, ExecutedNat DEF FrontInv, Pending
      <4>2. /\ Intervals # <<>> /\ Head(intervals).rhs \in Nat /\ Last(Intervals).rhs \in Nat
            /\ Head(intervals).rhs <= Last(Intervals).rhs
        BY <1>1, <3>2, <3>3, FrontInterval
      <4>3. QED
        BY ONLY <4>1, <4>2
    <3>4. QED
      BY ONLY <1>1, <3>1, <3>2, <3>3 DEF ExitInv
  <2>3. QED
    BY <2>1, <2>2, StepEffect
<1>6. QED
  BY <1>4, <1>5

-----------------------------------------------------------------------------
(* A thread that runs alone *)

LEMMA LargestElement ==
  ASSUME NEW n \in Nat, NEW T, T \subseteq 1 .. n, T # {}
  PROVE  \E x \in T : \A y \in T : y <= x
<1> DEFINE U == {n - y : y \in T}
<1>1. U \subseteq Nat /\ U # {}
  <2>1. PICK y \in T : TRUE
    OBVIOUS
  <2>2. n - y \in U
    BY <2>1
  <2>3. \A v \in T : n - v \in Nat
    OBVIOUS
  <2>4. QED
    BY <2>2, <2>3
<1>2. PICK z \in U : \A y \in U : z <= y
  BY <1>1, LeastElement
<1>3. PICK x \in T : z = n - x
  OBVIOUS
<1>4. \A y \in T : n - x <= n - y
  BY <1>2, <1>3
<1>5. QED
  BY <1>4

(* What is logged in an interval is in the one at the front.               *)
LEMMA InFront ==
  ASSUME TypeOK, Mode = "TraceSpecifiedInterval", NEW n \in Nat, Open(n)
  PROVE  /\ intervals # <<>> /\ Head(intervals) = Intervals[Popped + 1]
         /\ Popped + 1 \in DOMAIN Intervals
         /\ LastOfWindow(n) => n = Head(intervals).rhs - 1
         /\ n = Head(intervals).rhs - 1 => LastOfWindow(n)
<1>1. InFrontInterval(n)
  BY DEF Open
<1>2. /\ intervals # <<>> /\ Head(intervals) = Intervals[Popped + 1]
      /\ Popped + 1 \in DOMAIN Intervals
  BY <1>1, ListType, IntervalsType DEF InFrontInterval
<1>3. PICK p : p = Popped + 1
  OBVIOUS
<1>4. InInterval(p, n) /\ p \in DOMAIN Intervals
  BY <1>1, <1>2, <1>3 DEF InFrontInterval, InInterval
<1>5. ASSUME NEW i \in DOMAIN Intervals, n = Intervals[i].rhs - 1
      PROVE  i = p
  <2>1. /\ Intervals[i].lhs \in Nat /\ Intervals[i].rhs \in Nat
        /\ Intervals[i].lhs < Intervals[i].rhs
    BY IntervalsType
  <2>2. InInterval(i, n)
    BY ONLY <1>5, <2>1 DEF InInterval
  <2>3. QED
    BY <1>4, <2>2, IntervalWindow
<1>6. LastOfWindow(n) => n = Intervals[p].rhs - 1
  BY <1>5 DEF LastOfWindow
<1>7. n = Intervals[p].rhs - 1 => LastOfWindow(n)
  BY <1>4 DEF LastOfWindow
<1>8. QED
  BY ONLY <1>2, <1>3, <1>6, <1>7

(* What is not logged is in no window, if the popped intervals are over.   *)
LEMMA NotOpen ==
  ASSUME TypeOK, NEW n \in Nat, ~Open(n),
         \A i \in 1 .. Popped : Intervals[i].rhs <= n,
         Mode = "TraceSpecifiedInterval" /\ intervals # <<>> => n < Head(intervals).rhs
  PROVE  WindowOf(n) = 0
<1>1. CASE Mode = "TraceAll"
  BY <1>1 DEF Open
<1>2. CASE Mode = "Profile"
  BY <1>2 DEF WindowOf
<1>3. CASE Mode = "TraceUniformInterval"
  BY <1>3, UniformWindow DEF Open
<1>4. CASE Mode = "TraceSpecifiedInterval"
  <2> SUFFICES ASSUME WindowOf(n) # 0 PROVE FALSE
    OBVIOUS
  <2>1. PICK i \in DOMAIN Intervals : InInterval(i, n)
    BY <1>4, IntervalWindow
  <2>2. /\ i \in Nat \ {0} /\ i <= Len(Intervals) /\ Len(Intervals) \in Nat
        /\ Intervals[i].lhs \in Nat /\ Intervals[i].rhs \in Nat
        /\ Popped \in 0 .. Len(Intervals) /\ Len(intervals) = Len(Intervals) - Popped
    <3>1. /\ DOMAIN Intervals = 1 .. Len(Intervals) /\ Len(Intervals) \in Nat
          /\ \A j \in DOMAIN Intervals : Intervals[j].lhs \in Nat /\ Intervals[j].rhs \in Nat
      BY IntervalsType
    <3>2. Popped \in 0 .. Len(Intervals) /\ Len(intervals) = Len(Intervals) - Popped
      BY ListType
    <3>3. i \in 1 .. Len(Intervals)
      BY ONLY <3>1, i \in DOMAIN Intervals
    <3>4. Intervals[i].lhs \in Nat /\ Intervals[i].rhs \in Nat
      BY ONLY <3>1, i \in DOMAIN Intervals
    <3>5. QED
      BY ONLY <3>1, <3>2, <3>3, <3>4
  <2>3. Intervals[i].lhs <= n /\ n < Intervals[i].rhs
    BY <2>1 DEF InInterval
  <2>4. i > Popped
    <3> SUFFICES ASSUME i <= Popped PROVE FALSE
      BY <2>2
    <3>1. i \in 1 .. Popped
      BY <2>2
    <3>2. QED
      BY <2>2, <2>3, <3>1
  <2>5. intervals # <<>>
    <3>1. Len(intervals) # 0
      BY ONLY <2>2, <2>4
    <3>2. QED
      BY <3>1
  <2>6. Head(intervals) = Intervals[Popped + 1] /\ Popped + 1 \in DOMAIN Intervals
    BY <2>5, ListType, IntervalsType
  <2>7. PICK p : p = Popped + 1
    OBVIOUS
  <2>8. /\ p \in DOMAIN Intervals /\ Intervals[p].lhs \in Nat /\ Intervals[p].rhs \in Nat
        /\ n < Intervals[p].rhs
    BY <1>4, <2>5, <2>6, <2>7, IntervalsType
  <2>9. CASE i = p
    <3>1. InFrontInterval(n)
      BY <2>3, <2>5, <2>6, <2>7, <2>9 DEF InFrontInterval
    <3>2. QED
      BY <1>4, <3>1 DEF Open
  <2>10. CASE i # p
    <3>1. p < i
      BY ONLY <2>2, <2>4, <2>7, <2>10
    <3>2. Intervals[p].rhs <= Intervals[i].lhs
      BY <2>8, <3>1, IntervalsType
    <3>3. QED
      BY ONLY <2>2, <2>3, <2>8, <3>2, n \in Nat
  <2>11. QED
    BY <2>9, <2>10
<1>5. QED
  BY <1>1, <1>2, <1>3, <1>4, SetupType

(* The file of a new sample, or of the sample that goes on.                *)
LEMMA AppendSample ==
  ASSUME TypeOK, NEW t \in Thread, OutInv(t), FilesAreSamples(t), FileInv(t),
         pc[t] \notin {"switch", "pop"}, WindowOf(Executed(t)) # 0,
         NEW f, IF file[t] = 0 THEN f = samples[t] + 1 ELSE f = file[t],
         \/ Executed(t) = Done(t) /\ ~LastOfWindow(Executed(t))
         \/ Executed(t) = Done(t) + 1
  PROVE  \A j \in Sampled(t) :
           out[t][j].file = f <=> WindowOf(out[t][j].n) = WindowOf(Executed(t))
<1> SUFFICES ASSUME NEW x \in Sampled(t)
             PROVE  out[t][x].file = f <=> WindowOf(out[t][x].n) = WindowOf(Executed(t))
  OBVIOUS
<1>1. /\ Executed(t) \in Nat /\ file[t] \in Nat /\ samples[t] \in Nat /\ out[t] \in Seq(Record)
  BY ExecutedNat DEF TypeOK
<1>3. Sampled(t) \subseteq DOMAIN out[t]
  BY DEF Sampled, Insts
<1>2. Done(t) \in Nat
  <2>1. x \in DOMAIN out[t]
    BY <1>3
  <2>2. out[t][x].n \in 0 .. Done(t)
    BY <2>1 DEF OutInv
  <2>3. Done(t) \in Int
    BY ONLY <1>1 DEF Done
  <2>4. QED
    BY ONLY <2>2, <2>3
<1>4. \A j \in Sampled(t) : /\ out[t][j].n \in Nat /\ out[t][j].n <= Done(t)
                            /\ WindowOf(out[t][j].n) # 0
                            /\ out[t][j].file \in Nat \ {0} /\ out[t][j].file <= samples[t]
  <2> SUFFICES ASSUME NEW j \in Sampled(t)
               PROVE  /\ out[t][j].n \in Nat /\ out[t][j].n <= Done(t)
                      /\ WindowOf(out[t][j].n) # 0
                      /\ out[t][j].file \in Nat \ {0} /\ out[t][j].file <= samples[t]
    OBVIOUS
  <2>1. /\ out[t][j].n \in 0 .. Done(t) /\ WindowOf(out[t][j].n) # 0
        /\ out[t][j].file \in 1 .. samples[t]
    BY <1>3 DEF OutInv
  <2>2. QED
    BY ONLY <1>1, <1>2, <2>1
<1>5. \A i, j \in Sampled(t) : i <= j => out[t][i].n <= out[t][j].n
  <2> SUFFICES ASSUME NEW i \in Sampled(t), NEW j \in Sampled(t), i <= j
               PROVE  out[t][i].n <= out[t][j].n
    OBVIOUS
  <2>1. CASE i = j
    BY ONLY <1>4, <2>1
  <2>2. CASE i # j
    <3>1. i \in DOMAIN out[t] /\ j \in DOMAIN out[t]
      BY <1>3
    <3>2. i \in Nat /\ j \in Nat
      BY <1>1, <3>1
    <3>3. i < j
      BY <2>2, <3>2
    <3>4. QED
      BY <3>1, <3>3 DEF OutInv
  <2>3. QED
    BY <2>1, <2>2
<1>6. PICK m \in Sampled(t) : \A i \in Sampled(t) : i <= m
  <2>1. PICK k \in Nat : k = Len(out[t])
    BY <1>1
  <2>2. Sampled(t) \subseteq 1 .. k
    BY <1>1, <1>3, <2>1
  <2>3. QED
    BY <2>2, LargestElement
<1>7. IF file[t] = out[t][m].file
      THEN out[t][m].n = Done(t) /\ ~LastOfWindow(out[t][m].n)
      ELSE LastOfWindow(out[t][m].n) /\ \A i \in Sampled(t) : out[t][i].file # file[t]
  BY <1>6 DEF FileInv
<1>8. PICK nm \in Nat, nx \in Nat, e \in Nat :
        nm = out[t][m].n /\ nx = out[t][x].n /\ e = Executed(t)
  BY <1>1, <1>4
<1>9. nx <= nm /\ nm <= Done(t) /\ WindowOf(nm) # 0 /\ WindowOf(nx) # 0 /\ WindowOf(e) # 0
  BY <1>4, <1>5, <1>6, <1>8
<1>10. CASE file[t] = out[t][m].file
  <2>1. f = out[t][m].file
    BY <1>4, <1>6, <1>10
  <2>2. nm = Done(t) /\ ~LastOfWindow(nm)
    BY <1>7, <1>8, <1>10
  <2>3. WindowOf(e) = WindowOf(nm)
    <3>1. CASE e = Done(t)
      BY ONLY <2>2, <3>1
    <3>2. CASE e = Done(t) + 1
      <4>1. e = nm + 1
        BY <2>2, <3>2
      <4>2. WindowOf(nm + 1) = WindowOf(nm)
        BY <1>9, <2>2, WindowGoesOn
      <4>3. QED
        BY <4>1, <4>2
    <3>3. QED
      BY <1>8, <3>1, <3>2
  <2>4. out[t][x].file = out[t][m].file <=> WindowOf(out[t][x].n) = WindowOf(out[t][m].n)
    BY <1>6 DEF FilesAreSamples
  <2>5. QED
    BY ONLY <1>8, <2>1, <2>3, <2>4
<1>11. CASE file[t] # out[t][m].file
  <2>1. LastOfWindow(nm) /\ \A i \in Sampled(t) : out[t][i].file # file[t]
    BY <1>7, <1>8, <1>11
  <2>2. nm < e
    BY <1>2, <1>8, <1>9, <2>1
  <2>3. WindowOf(nm) < WindowOf(e)
    BY <1>9, <2>1, <2>2, WindowOver
  <2>4. WindowOf(nx) <= WindowOf(nm)
    BY <1>9, WindowMonotone
  <2>5. WindowOf(nx) \in Nat /\ WindowOf(nm) \in Nat /\ WindowOf(e) \in Nat
    BY WindowNat
  <2>6. WindowOf(nx) # WindowOf(e)
    BY ONLY <2>3, <2>4, <2>5
  <2>7. out[t][x].file # f
    BY <1>1, <1>4, <2>1
  <2>8. QED
    BY ONLY <1>8, <2>6, <2>7
<1>12. QED
  BY <1>10, <1>11

(* Who runs alone has run alone so far, and keeps the list to itself.       *)
LEMMA AloneBefore ==
  ASSUME BaseInv, NEW t \in Thread, Step(t), UNCHANGED setup, NEW u \in Thread, Alone(u)'
  PROVE  Alone(u) /\ (u # t => intervals' = intervals)
<1>1. count[t] \in Nat /\ (count'[t] = count[t] \/ count'[t] = count[t] + 1)
  BY StepEffect DEF BaseInv, TypeOK, Enters, TakesValue, Entered, GoesOutside, BeginsInst,
     EndsValues, ChecksSwitch, Switches, Finishes, Same
<1>2. \A v \in Thread \ {u} : count'[v] = 0
  BY DEF Alone
<1>3. \A v \in Thread \ {t} : count'[v] = count[v]
  BY Unmoved
<1>4. \A v \in Thread \ {u} : count[v] = 0
  BY ONLY <1>1, <1>2, <1>3
<1>5. ASSUME u # t PROVE intervals' = intervals
  <2>1. count[t] = 0
    BY <1>4, <1>5
  <2>2. pc[t] # "pop"
    BY <2>1 DEF BaseInv, ControlInv
  <2>3. QED
    BY <2>2, ListChange
<1>6. QED
  BY <1>4, <1>5 DEF Alone

(* Logging depends on nothing else.                                         *)
LEMMA SameLogs ==
  ASSUME UNCHANGED setup, UNCHANGED intervals, NEW u, Same(u)
  PROVE  Logs(u)' <=> Logs(u)
<1>1. UNCHANGED <<ROI, Mode, StartInst, MaxInst, SkipInst>>
  BY FixedSetup
<1>2. /\ Executed(u)' = Executed(u)
      /\ tracedFunctionsInStack'[u] = tracedFunctionsInStack[u]
  BY DEF Same
<1>3. Logs(u) <=> ShouldLog(tracedFunctionsInStack[u], Executed(u))
  BY DEF Logs, Executed
<1>4. Logs(u)' <=> ShouldLog(tracedFunctionsInStack[u], Executed(u))'
  BY DEF Logs, Executed
<1>5. ShouldLog(tracedFunctionsInStack[u], Executed(u))'
        <=> ShouldLog(tracedFunctionsInStack[u], Executed(u))
  BY ONLY <1>1, <1>2, UNCHANGED intervals
     DEF ShouldLog, Open, InROI, InUniformWindow, InFrontInterval
<1>6. QED
  BY ONLY <1>3, <1>4, <1>5

(* What the invariant of a thread that runs alone depends on.               *)
LEMMA AloneSame ==
  ASSUME TypeOK, UNCHANGED setup, UNCHANGED intervals, NEW u \in Thread, AloneInv(u),
         out'[u] = out[u], file'[u] = file[u], Done(u)' = Done(u),
         \/ pc'[u] = pc[u] /\ Same(u)
         \/ pc[u] \notin {"switch", "pop"} /\ pc'[u] \notin {"switch", "pop"}
  PROVE  AloneInv(u)'
<1>1. \A n : WindowOf(n)' = WindowOf(n) /\ (LastOfWindow(n)' <=> LastOfWindow(n))
  BY SameWindows
<1>2. Mode' = Mode /\ Intervals' = Intervals
  BY FixedSetup
<1>3. Popped' = Popped
  BY <1>2 DEF Popped
<1>4. Insts(u)' = Insts(u) /\ Sampled(u)' = Sampled(u)
  BY <1>2 DEF Insts, Sampled
<1>5. ASSUME pc'[u] = pc[u], Same(u)
      PROVE  Executed(u)' = Executed(u) /\ (Logs(u)' <=> Logs(u))
  BY <1>5, SameLogs DEF Same
<1>6. pc'[u] \in {"switch", "pop"} <=> pc[u] \in {"switch", "pop"}
  OBVIOUS
<1>7. PoppedInv(u)'
  <2>1. PoppedInv(u)
    BY DEF AloneInv
  <2>2. QED
    BY ONLY <1>2, <1>3, <1>5, <2>1, Done(u)' = Done(u),
            \/ pc'[u] = pc[u] /\ Same(u)
            \/ pc[u] \notin {"switch", "pop"} /\ pc'[u] \notin {"switch", "pop"}
       DEF PoppedInv
<1>8. SwitchInv(u)'
  BY <1>1, <1>5 DEF AloneInv, SwitchInv
<1>9. CompleteInv(u)'
  BY ONLY <1>1, <1>4, AloneInv(u), Done(u)' = Done(u), out'[u] = out[u] DEF AloneInv, CompleteInv
<1>10. FilesAreSamples(u)'
  BY ONLY <1>1, <1>4, AloneInv(u), out'[u] = out[u] DEF AloneInv, FilesAreSamples
<1>11. FileInv(u)'
  BY ONLY <1>1, <1>4, <1>6, AloneInv(u), out'[u] = out[u], file'[u] = file[u],
          Done(u)' = Done(u) DEF AloneInv, FileInv
<1>12. QED
  BY <1>7, <1>8, <1>9, <1>10, <1>11 DEF AloneInv

LEMMA PoppedRhs ==
  ASSUME TypeOK, NEW i \in 1 .. Popped
  PROVE  i \in DOMAIN Intervals /\ Intervals[i].rhs \in Nat
<1>1. Popped \in 0 .. Len(Intervals) /\ Len(Intervals) \in Nat
  BY ListType, IntervalsType
<1>2. i \in 1 .. Len(Intervals)
  BY ONLY <1>1, i \in 1 .. Popped
<1>3. QED
  BY <1>2, IntervalsType

(* The values end an instruction that is in no window.                      *)
LEMMA AloneUnlogged ==
  ASSUME TypeOK, UNCHANGED setup, NEW t \in Thread, FrontInv(t), OutInv(t), AloneInv(t),
         EndsValues(t), ~Logs(t)
  PROVE  AloneInv(t)'
<1>1. /\ pc[t] = "values" /\ pc'[t] = "finish" /\ Same(t) /\ intervals' = intervals
      /\ out'[t] = out[t] /\ file'[t] = file[t]
  BY DEF EndsValues, Quiet
<1>2. Executed(t)' = Executed(t) /\ Executed(t) \in Nat
  BY <1>1, ExecutedNat DEF Same
<1>3. Done(t)' = Executed(t)
  BY ONLY <1>1, <1>2 DEF Done, Pending
<1>4. CASE ~InROI(tracedFunctionsInStack[t])
  <2>1. Done(t)' = Done(t)
    BY ONLY <1>3, <1>4 DEF Done, Pending
  <2>2. QED
    BY <1>1, <2>1, AloneSame
<1>5. CASE InROI(tracedFunctionsInStack[t])
  <2>1. Done(t) = Executed(t) - 1
    BY ONLY <1>1, <1>5 DEF Done, Pending
  <2>2. PICK e \in Nat : e = Executed(t)
    BY <1>2
  <2>3. ~Open(e)
    BY <1>5, <2>2 DEF Logs, ShouldLog, Executed
  <2>4. /\ PoppedInv(t) /\ CompleteInv(t) /\ FilesAreSamples(t) /\ FileInv(t)
        /\ \A i \in DOMAIN Intervals : Intervals[i].rhs \in Nat
        /\ Popped \in 0 .. Len(Intervals) /\ DOMAIN Intervals = 1 .. Len(Intervals)
        /\ Len(Intervals) \in Nat
    BY IntervalsType, ListType DEF AloneInv
  <2>5. \A i \in 1 .. Popped : Intervals[i].rhs <= e
    BY ONLY <1>1, <2>1, <2>2, <2>4 DEF PoppedInv
  <2>6. WindowOf(e) = 0
    <3>1. Mode = "TraceSpecifiedInterval" /\ intervals # <<>> => e < Head(intervals).rhs
      BY <2>2 DEF FrontInv
    <3>2. QED
      BY <2>3, <2>5, <3>1, NotOpen
  <2>7. \A n : WindowOf(n)' = WindowOf(n) /\ (LastOfWindow(n)' <=> LastOfWindow(n))
    BY SameWindows
  <2>8. Mode' = Mode /\ Intervals' = Intervals
    BY FixedSetup
  <2>9. Popped' = Popped
    BY <1>1, <2>8 DEF Popped
  <2>10. Insts(t)' = Insts(t) /\ Sampled(t)' = Sampled(t)
    BY <1>1, <2>8 DEF Insts, Sampled
  <2>11. PoppedInv(t)'
    <3>1. \A i \in 1 .. Popped : Intervals[i].rhs <= e + 1
      BY ONLY <2>2, <2>4, <2>5
    <3>2. QED
      BY ONLY <1>1, <1>3, <2>2, <2>8, <2>9, <3>1 DEF PoppedInv
  <2>12. SwitchInv(t)'
    BY ONLY <1>1 DEF SwitchInv
  <2>13. CompleteInv(t)'
    <3>1. \A n \in 1 .. e : n \in 1 .. Done(t) \/ n = e
      BY ONLY <2>1, <2>2
    <3>2. QED
      BY ONLY <1>1, <1>3, <2>2, <2>4, <2>6, <2>7, <2>10, <3>1 DEF CompleteInv
  <2>14. FilesAreSamples(t)'
    BY ONLY <1>1, <2>4, <2>7, <2>10 DEF FilesAreSamples
  <2>15. FileInv(t)'
    <3>1. ASSUME NEW m \in Sampled(t), \A i \in Sampled(t) : i <= m
          PROVE  /\ file[t] # out[t][m].file /\ LastOfWindow(out[t][m].n)
                 /\ \A i \in Sampled(t) : out[t][i].file # file[t]
      <4>1. IF file[t] = out[t][m].file
            THEN out[t][m].n = Done(t) /\ ~LastOfWindow(out[t][m].n)
            ELSE LastOfWindow(out[t][m].n) /\ \A i \in Sampled(t) : out[t][i].file # file[t]
        BY ONLY <1>1, <2>4, <3>1 DEF FileInv
      <4>2. SUFFICES ASSUME file[t] = out[t][m].file PROVE FALSE
        BY <4>1
      <4>3. m \in DOMAIN out[t]
        BY DEF Sampled, Insts
      <4>4. out[t][m].n \in 0 .. Done(t) /\ WindowOf(out[t][m].n) # 0
        BY <4>3 DEF OutInv
      <4>5. PICK n \in Nat : n = out[t][m].n /\ e = n + 1
        BY ONLY <2>1, <2>2, <4>1, <4>2, <4>4
      <4>6. WindowOf(n + 1) = WindowOf(n)
        BY <4>1, <4>2, <4>4, <4>5, WindowGoesOn
      <4>7. QED
        BY ONLY <2>6, <4>4, <4>5, <4>6
    <3>2. QED
      BY ONLY <1>1, <2>7, <2>10, <3>1 DEF FileInv
  <2>16. QED
    BY ONLY <2>11, <2>12, <2>13, <2>14, <2>15 DEF AloneInv
<1>6. QED
  BY <1>4, <1>5

(* The end of a window closes the file, and takes the interval off.         *)
LEMMA AloneChecks ==
  ASSUME TypeOK, UNCHANGED setup, NEW t \in Thread, AloneInv(t), ChecksSwitch(t)
  PROVE  AloneInv(t)'
<1>1. /\ pc[t] = "switch" /\ pc'[t] = (IF AtLast(t) THEN "pop" ELSE "finish") /\ Same(t)
      /\ out'[t] = out[t] /\ file'[t] = file[t] /\ intervals' = intervals
  BY DEF ChecksSwitch, Quiet
<1>2. PICK e \in Nat : e = Executed(t)
  BY ExecutedNat
<1>3. Executed(t)' = e /\ Done(t) = e /\ Done(t)' = e
  BY ONLY <1>1, <1>2 DEF Same, Done, Pending
<1>4. /\ PoppedInv(t) /\ SwitchInv(t) /\ CompleteInv(t) /\ FilesAreSamples(t) /\ FileInv(t)
  BY DEF AloneInv
<1>5. Logs(t)
  BY <1>1, <1>4 DEF SwitchInv
<1>6. Logs(t)'
  BY <1>1, <1>5, SameLogs
<1>7. AtLast(t) <=> LastOfWindow(e)
  <2>1. Open(e)
    BY <1>2, <1>5 DEF Logs, ShouldLog, Executed
  <2>2. CASE Mode = "TraceSpecifiedInterval"
    <3>1. intervals # <<>> /\ (LastOfWindow(e) <=> e = Head(intervals).rhs - 1)
      BY <2>1, <2>2, InFront
    <3>2. QED
      BY ONLY <1>2, <2>2, <3>1 DEF AtLast
  <2>3. CASE Mode # "TraceSpecifiedInterval"
    BY ONLY <1>2, <2>3 DEF AtLast, LastOfWindow
  <2>4. QED
    BY <2>2, <2>3
<1>8. \A n : WindowOf(n)' = WindowOf(n) /\ (LastOfWindow(n)' <=> LastOfWindow(n))
  BY SameWindows
<1>9. Mode' = Mode /\ Intervals' = Intervals
  BY FixedSetup
<1>10. Popped' = Popped
  BY <1>1, <1>9 DEF Popped
<1>11. Insts(t)' = Insts(t) /\ Sampled(t)' = Sampled(t)
  BY <1>1, <1>9 DEF Insts, Sampled
<1>12. PoppedInv(t)'
  <2>1. \A i \in 1 .. Popped : Intervals[i].rhs <= e
    BY ONLY <1>1, <1>2, <1>4 DEF PoppedInv
  <2>2. \A i \in 1 .. Popped : Intervals[i].rhs <= e + 1
    <3>1. \A i \in 1 .. Popped : Intervals[i].rhs \in Nat
      BY PoppedRhs
    <3>2. QED
      BY ONLY <2>1, <3>1, e \in Nat
  <2>3. QED
    BY ONLY <1>1, <1>3, <1>9, <1>10, <2>1, <2>2 DEF PoppedInv
<1>13. SwitchInv(t)'
  BY ONLY <1>1, <1>3, <1>6, <1>7, <1>8 DEF SwitchInv
<1>14. CompleteInv(t)'
  BY ONLY <1>1, <1>3, <1>4, <1>8, <1>11 DEF CompleteInv
<1>15. FilesAreSamples(t)'
  BY ONLY <1>1, <1>4, <1>8, <1>11 DEF FilesAreSamples
<1>16. FileInv(t)'
  BY ONLY <1>1, <1>3, <1>4, <1>7, <1>8, <1>11 DEF FileInv
<1>17. QED
  BY ONLY <1>12, <1>13, <1>14, <1>15, <1>16 DEF AloneInv

LEMMA AloneSwitches ==
  ASSUME TypeOK, UNCHANGED setup, NEW t \in Thread, OutInv(t), AloneInv(t), Switches(t)
  PROVE  AloneInv(t)'
<1>1. /\ pc[t] = "pop" /\ pc'[t] = "finish" /\ Same(t)
      /\ out'[t] = out[t] /\ file'[t] = 0
      /\ intervals' = IF Mode = "TraceSpecifiedInterval" /\ intervals # <<>>
                      THEN Tail(intervals) ELSE intervals
  BY DEF Switches
<1>2. PICK e \in Nat : e = Executed(t)
  BY ExecutedNat
<1>3. Executed(t)' = e /\ Done(t) = e /\ Done(t)' = e
  BY ONLY <1>1, <1>2 DEF Same, Done, Pending
<1>4. /\ PoppedInv(t) /\ SwitchInv(t) /\ CompleteInv(t) /\ FilesAreSamples(t) /\ FileInv(t)
  BY DEF AloneInv
<1>5. Logs(t) /\ LastOfWindow(e)
  BY <1>1, <1>2, <1>4 DEF SwitchInv
<1>6. Open(e)
  BY <1>2, <1>5 DEF Logs, ShouldLog, Executed
<1>8. \A n : WindowOf(n)' = WindowOf(n) /\ (LastOfWindow(n)' <=> LastOfWindow(n))
  BY SameWindows
<1>9. Mode' = Mode /\ Intervals' = Intervals
  BY FixedSetup
<1>11. Insts(t)' = Insts(t) /\ Sampled(t)' = Sampled(t)
  BY <1>1, <1>9 DEF Insts, Sampled
<1>12. PoppedInv(t)'
  <2>1. \A i \in 1 .. Popped : Intervals[i].rhs <= e /\ Intervals[i].rhs \in Nat
    <3>1. \A i \in 1 .. Popped : Intervals[i].rhs <= e
      BY ONLY <1>1, <1>2, <1>4 DEF PoppedInv
    <3>2. QED
      BY <3>1, PoppedRhs
  <2>2. \A i \in 1 .. Popped' : Intervals[i].rhs <= e + 1
    <3>1. CASE intervals' = intervals
      <4>1. Popped' = Popped
        BY <1>9, <3>1 DEF Popped
      <4>2. QED
        BY ONLY <2>1, <4>1, e \in Nat
    <3>2. CASE intervals' # intervals
      <4>1. /\ Mode = "TraceSpecifiedInterval" /\ intervals # <<>>
            /\ intervals' = Tail(intervals)
        BY ONLY <1>1, <3>2
      <4>2. Popped' = Popped + 1
        BY <4>1, ListStep
      <4>3. /\ Head(intervals) = Intervals[Popped + 1] /\ e = Head(intervals).rhs - 1
        BY <1>5, <1>6, <4>1, InFront
      <4>4. Head(intervals).rhs \in Nat /\ Popped \in Nat
        BY <4>1, FrontInterval, ListType, IntervalsType
      <4>5. PICK p \in Nat, h \in Nat : p = Popped /\ h = Head(intervals).rhs
        BY <4>4
      <4>6. Intervals[p + 1].rhs = e + 1
        BY ONLY <4>3, <4>5, e \in Nat
      <4>7. \A i \in 1 .. p + 1 : i \in 1 .. p \/ i = p + 1
        BY ONLY p \in Nat
      <4>8. QED
        BY ONLY <2>1, <4>2, <4>5, <4>6, <4>7, e \in Nat
    <3>3. QED
      BY <3>1, <3>2
  <2>3. QED
    BY ONLY <1>1, <1>3, <1>9, <2>2 DEF PoppedInv
<1>13. SwitchInv(t)'
  BY ONLY <1>1 DEF SwitchInv
<1>14. CompleteInv(t)'
  BY ONLY <1>1, <1>3, <1>4, <1>8, <1>11 DEF CompleteInv
<1>15. FilesAreSamples(t)'
  BY ONLY <1>1, <1>4, <1>8, <1>11 DEF FilesAreSamples
<1>16. FileInv(t)'
  <2>1. \A i \in Sampled(t) : out[t][i].file # 0
    <3>1. \A i \in Sampled(t) : out[t][i].file \in 1 .. samples[t]
      BY DEF Sampled, Insts, OutInv
    <3>2. samples[t] \in Nat
      BY DEF TypeOK
    <3>3. QED
      BY ONLY <3>1, <3>2
  <2>2. ASSUME NEW m \in Sampled(t), \A i \in Sampled(t) : i <= m
        PROVE  LastOfWindow(out[t][m].n)
    <3>1. out[t][m].n = Done(t)
      BY ONLY <1>1, <1>4, <2>2 DEF FileInv
    <3>2. QED
      BY ONLY <1>3, <1>5, <3>1
  <2>3. QED
    BY ONLY <1>1, <1>8, <1>11, <2>1, <2>2 DEF FileInv
<1>17. QED
  BY ONLY <1>12, <1>13, <1>14, <1>15, <1>16 DEF AloneInv

(* An entry of a sample is written.                                         *)
LEMMA SampleWritten ==
  ASSUME TypeOK, UNCHANGED setup, NEW t \in Thread, OutInv(t), AloneInv(t),
         pc[t] \notin {"switch", "pop"}, pc'[t] \in {"switch", "run"},
         NEW k \in Nat \ {0}, NEW r \in Record, k \notin DOMAIN out[t],
         Sampled(t)' = Sampled(t) \cup {k}, out'[t][k] = r,
         \A i \in DOMAIN out[t] : out'[t][i] = out[t][i] /\ i \in Nat /\ i < k,
         r.n = Executed(t), r.file = file'[t], Done(t)' = Executed(t),
         WindowOf(Executed(t)) # 0,
         IF file[t] = 0 THEN file'[t] = samples[t] + 1 ELSE file'[t] = file[t],
         \/ Executed(t) = Done(t) /\ ~LastOfWindow(Executed(t))
         \/ Executed(t) = Done(t) + 1 /\ pc'[t] = "switch"
  PROVE  FilesAreSamples(t)' /\ FileInv(t)'
<1>1. FilesAreSamples(t) /\ FileInv(t)
  BY DEF AloneInv
<1>2. PICK f : f = file'[t]
  OBVIOUS
<1>3. \A j \in Sampled(t) :
        out[t][j].file = f <=> WindowOf(out[t][j].n) = WindowOf(Executed(t))
  BY <1>1, <1>2, AppendSample
<1>4. Sampled(t) \subseteq DOMAIN out[t]
  BY DEF Sampled, Insts
<1>5. PICK e, q, S : e = Executed(t) /\ q = out'[t] /\ S = Sampled(t)
  OBVIOUS
<1>6. /\ q[k] = r /\ r.n = e /\ r.file = f
      /\ \A i \in S : q[i] = out[t][i] /\ i \in Nat /\ i < k
  BY ONLY <1>2, <1>4, <1>5, out'[t][k] = r, r.n = Executed(t), r.file = file'[t],
          \A i \in DOMAIN out[t] : out'[t][i] = out[t][i] /\ i \in Nat /\ i < k
<1>7. \A n : WindowOf(n)' = WindowOf(n) /\ (LastOfWindow(n)' <=> LastOfWindow(n))
  BY SameWindows
<1>8. FilesAreSamples(t)'
  <2>1. \A j \in S : q[j].file = f <=> WindowOf(q[j].n) = WindowOf(e)
    BY ONLY <1>3, <1>5, <1>6
  <2>2. \A i, j \in S : q[i].file = q[j].file <=> WindowOf(q[i].n) = WindowOf(q[j].n)
    BY ONLY <1>1, <1>5, <1>6 DEF FilesAreSamples
  <2>3. \A i, j \in S \cup {k} :
          q[i].file = q[j].file <=> WindowOf(q[i].n) = WindowOf(q[j].n)
    BY ONLY <1>6, <2>1, <2>2
  <2>4. QED
    BY ONLY <1>5, <1>7, <2>3, Sampled(t)' = Sampled(t) \cup {k} DEF FilesAreSamples
<1>9. FileInv(t)'
  <2>1. \A m \in S \cup {k} : (\A i \in S \cup {k} : i <= m) => m = k
    <3>1. \A i \in S : i \in Nat /\ i < k
      BY ONLY <1>6
    <3>2. QED
      BY ONLY <3>1, k \in Nat \ {0}
  <2>2. pc'[t] \in {"switch", "pop"} \/ ~LastOfWindow(e)
    BY <1>5
  <2>3. QED
    BY ONLY <1>2, <1>5, <1>6, <1>7, <2>1, <2>2, Sampled(t)' = Sampled(t) \cup {k},
            Done(t)' = Executed(t) DEF FileInv
<1>10. QED
  BY <1>8, <1>9

(* The entry of a callee is written: in uniform windows it is no sample.    *)
LEMMA CalleeWritten ==
  ASSUME TypeOK, UNCHANGED setup, NEW t \in Thread, OutInv(t), AloneInv(t),
         pc[t] \notin {"switch", "pop"}, pc'[t] = "run",
         Sampled(t)' = Sampled(t), Done(t)' = Done(t),
         \A i \in DOMAIN out[t] : out'[t][i] = out[t][i],
         IF file[t] = 0 THEN file'[t] = samples[t] + 1 ELSE file'[t] = file[t]
  PROVE  FilesAreSamples(t)' /\ FileInv(t)'
<1>1. FilesAreSamples(t) /\ FileInv(t)
  BY DEF AloneInv
<1>2. PICK q, S : q = out'[t] /\ S = Sampled(t)
  OBVIOUS
<1>3. Sampled(t) \subseteq DOMAIN out[t]
  BY DEF Sampled, Insts
<1>4. \A i \in S : q[i] = out[t][i]
  BY <1>2, <1>3
<1>5. \A n : WindowOf(n)' = WindowOf(n) /\ (LastOfWindow(n)' <=> LastOfWindow(n))
  BY SameWindows
<1>6. FilesAreSamples(t)'
  <2>1. \A i, j \in S : q[i].file = q[j].file <=> WindowOf(q[i].n) = WindowOf(q[j].n)
    BY ONLY <1>1, <1>2, <1>4 DEF FilesAreSamples
  <2>2. QED
    BY ONLY <1>2, <1>5, <2>1, Sampled(t)' = Sampled(t) DEF FilesAreSamples
<1>7. FileInv(t)'
  <2>1. \A i \in S : out[t][i].file \in 1 .. samples[t]
    BY <1>2, <1>3 DEF OutInv
  <2>2. samples[t] \in Nat
    BY DEF TypeOK
  <2>3. \A i \in S : out[t][i].file # 0 /\ out[t][i].file # samples[t] + 1
    BY ONLY <2>1, <2>2
  <2>4. PICK f : f = file'[t]
    OBVIOUS
  <2>5. ASSUME NEW m \in S, \A i \in S : i <= m
        PROVE  IF f = q[m].file
               THEN q[m].n = Done(t) /\ ~LastOfWindow(q[m].n)
               ELSE LastOfWindow(q[m].n) /\ \A i \in S : q[i].file # f
    <3>1. IF file[t] = out[t][m].file
          THEN out[t][m].n = Done(t) /\ ~LastOfWindow(out[t][m].n)
          ELSE LastOfWindow(out[t][m].n) /\ \A i \in S : out[t][i].file # file[t]
      BY <1>1, <1>2, <2>5 DEF FileInv
    <3>2. CASE file[t] = 0
      <4>1. file[t] # out[t][m].file /\ \A i \in S : out[t][i].file # f
        BY <2>3, <2>4, <3>2
      <4>2. LastOfWindow(out[t][m].n)
        BY ONLY <3>1, <4>1
      <4>3. QED
        BY ONLY <1>4, <2>5, <4>1, <4>2
    <3>3. CASE file[t] # 0
      <4>1. f = file[t]
        BY <2>4, <3>3
      <4>2. QED
        BY ONLY <1>4, <2>5, <3>1, <4>1
    <3>4. QED
      BY <3>2, <3>3
  <2>6. QED
    BY ONLY <1>2, <1>5, <2>4, <2>5, Sampled(t)' = Sampled(t), Done(t)' = Done(t),
            pc'[t] = "run" DEF FileInv
<1>8. QED
  BY <1>6, <1>7

(* What is logged without having just been counted is not the last of its   *)
(* window, other than in uniform windows.                                   *)
LEMMA EntryGoesOn ==
  ASSUME TypeOK, NEW t \in Thread, FrontInv(t), Logs(t), pc[t] = "args",
         Mode # "TraceUniformInterval"
  PROVE  ~LastOfWindow(Executed(t))
<1>1. PICK e \in Nat : e = Executed(t)
  BY ExecutedNat
<1>2. Open(e)
  BY <1>1 DEF Logs, ShouldLog, Executed
<1>3. SUFFICES ASSUME LastOfWindow(e) PROVE FALSE
  BY <1>1
<1>4. Mode = "TraceSpecifiedInterval"
  BY <1>3 DEF LastOfWindow
<1>5. intervals # <<>> /\ e = Head(intervals).rhs - 1
  BY <1>2, <1>3, <1>4, InFront
<1>6. e < Head(intervals).rhs - 1
  BY <1>1, <1>4, <1>5 DEF FrontInv, Pending
<1>7. Head(intervals).rhs \in Nat
  BY <1>5, FrontInterval
<1>8. QED
  BY ONLY <1>5, <1>6, <1>7, e \in Nat

LEMMA AloneWritten ==
  ASSUME TypeOK, UNCHANGED setup, NEW t \in Thread, FrontInv(t), EntryInv(t), OutInv(t),
         AloneInv(t), Same(t), Logs(t), left[t] = 0,
         \/ Written(t, "func") /\ pc[t] = "args" /\ pc'[t] = "run"
         \/ Written(t, "inst") /\ pc[t] = "values" /\ pc'[t] = "switch"
  PROVE  AloneInv(t)'
<1>1. PICK kind \in {"func", "inst"} :
        /\ Written(t, kind)
        /\ \/ pc[t] = "args" /\ kind = "func" /\ pc'[t] = "run"
           \/ pc[t] = "values" /\ kind = "inst" /\ pc'[t] = "switch"
  OBVIOUS
<1>2. PICK k \in Nat \ {0}, r \in Record :
         /\ out'[t] = Append(out[t], r) /\ k = Len(out[t]) + 1
         /\ DOMAIN out'[t] = 1 .. k /\ DOMAIN out[t] = 1 .. k - 1
         /\ DOMAIN out'[t] = DOMAIN out[t] \cup {k} /\ k \notin DOMAIN out[t]
         /\ out'[t][k] = r
         /\ \A i \in DOMAIN out[t] : out'[t][i] = out[t][i] /\ i \in Nat /\ i < k
         /\ r.event = kind /\ r.n = Executed(t) /\ r.file = file'[t]
         /\ r.entry = [kind |-> kind, at |-> Executed(t), vals |-> NumValues]
         /\ file'[t] \in 1 .. samples'[t] /\ samples'[t] \in Nat /\ samples[t] <= samples'[t]
         /\ IF file[t] = 0 THEN file'[t] = samples[t] + 1 ELSE file'[t] = file[t]
  <2>1. \/ pc[t] = "args" /\ kind = "func"
        \/ pc[t] = "values" /\ kind = "inst"
    BY <1>1
  <2>2. Written(t, kind)
    BY <1>1
  <2>3. QED
    BY ONLY <2>1, <2>2, TypeOK, t \in Thread, EntryInv(t), Logs(t), left[t] = 0, WrittenEntry
<1>3. /\ Logs(t) => Open(Executed(t)) /\ InROI(tracedFunctionsInStack[t])
  BY DEF Logs, ShouldLog, Executed
<1>4. Executed(t) \in Nat /\ Executed(t)' = Executed(t) /\ intervals' = intervals
  BY <1>1, ExecutedNat DEF Same, Written
<1>5. WindowOf(Executed(t)) # 0
  BY ONLY <1>3, <1>4, TypeOK, Logs(t), OpenInWindow
<1>6. /\ Done(t)' = Executed(t)
      /\ kind = "func" => Done(t) = Executed(t)
      /\ kind = "inst" => Done(t) = Executed(t) - 1
  BY ONLY <1>1, <1>3, <1>4, Logs(t) DEF Done, Pending
<1>7. PICK e \in Nat : e = Executed(t)
  BY <1>4
<1>8. Mode' = Mode /\ Intervals' = Intervals
  BY FixedSetup
<1>9. Popped' = Popped
  BY <1>4, <1>8 DEF Popped
<1>10. /\ Insts(t)' = (IF kind = "inst" THEN Insts(t) \cup {k} ELSE Insts(t))
  <2>1. PICK q : q = out'[t]
    OBVIOUS
  <2>2. Insts(t)' = {i \in DOMAIN q : q[i].event = "inst"}
    BY <2>1 DEF Insts
  <2>3. {i \in DOMAIN q : q[i].event = "inst"}
          = (IF kind = "inst" THEN Insts(t) \cup {k} ELSE Insts(t))
    BY ONLY <1>1, <1>2, <2>1 DEF Insts
  <2>4. QED
    BY <2>2, <2>3
<1>11. Sampled(t)' = IF kind = "inst" \/ Mode # "TraceUniformInterval"
                     THEN Sampled(t) \cup {k} ELSE Sampled(t)
  BY ONLY <1>2, <1>8, <1>10 DEF Sampled
<1>12. \A n : WindowOf(n)' = WindowOf(n)
  BY SameWindows
<1>13. PoppedInv(t)'
  <2>1. \A i \in 1 .. Popped : Intervals[i].rhs <= (IF kind = "inst" THEN e ELSE e + 1)
    <3>1. PoppedInv(t)
      BY DEF AloneInv
    <3>2. kind = "inst" => Done(t) + 1 = e
      BY ONLY <1>6, <1>7
    <3>3. QED
      BY ONLY <1>1, <1>6, <1>7, <3>1, <3>2 DEF PoppedInv
  <2>2. QED
    BY ONLY <1>1, <1>4, <1>6, <1>7, <1>8, <1>9, <2>1 DEF PoppedInv
<1>14. SwitchInv(t)'
  <2>1. Logs(t)'
    BY <1>4, SameLogs
  <2>2. QED
    BY ONLY <1>1, <2>1 DEF SwitchInv
<1>15. CompleteInv(t)'
  <2>1. \A n \in 1 .. Done(t) : WindowOf(n) # 0 => \E i \in Insts(t) : out[t][i].n = n
    BY DEF AloneInv, CompleteInv
  <2>2. Insts(t) \subseteq DOMAIN out[t]
    BY DEF Insts
  <2>3. \A n \in 1 .. e : n \in 1 .. Done(t) \/ (kind = "inst" /\ n = e)
    BY ONLY <1>1, <1>6, <1>7
  <2>4. ASSUME NEW n \in 1 .. e, WindowOf(n) # 0
        PROVE  \E i \in Insts(t)' : out'[t][i].n = n
    <3>1. CASE n \in 1 .. Done(t)
      <4>1. PICK i \in Insts(t) : out[t][i].n = n
        BY <2>1, <2>4, <3>1
      <4>2. i \in Insts(t)' /\ out'[t][i].n = n
        BY ONLY <1>2, <1>10, <2>2, <4>1
      <4>3. QED
        BY ONLY <4>2
    <3>2. CASE kind = "inst" /\ n = e
      BY ONLY <1>2, <1>7, <1>10, <3>2
    <3>3. QED
      BY <2>3, <3>1, <3>2
  <2>5. QED
    BY ONLY <1>6, <1>7, <1>12, <2>4 DEF CompleteInv
<1>16. FilesAreSamples(t)' /\ FileInv(t)'
  <2>1. pc[t] \notin {"switch", "pop"} /\ pc'[t] \in {"switch", "run"}
    BY <1>1
  <2>2. CASE kind = "inst"
    <3>1. Executed(t) = Done(t) + 1 /\ pc'[t] = "switch"
      BY ONLY <1>1, <1>4, <1>6, <2>2
    <3>2. Sampled(t)' = Sampled(t) \cup {k}
      BY <1>11, <2>2
    <3>3. QED
      BY ONLY <1>2, <1>5, <1>6, <2>1, <3>1, <3>2, TypeOK, UNCHANGED setup, t \in Thread,
              OutInv(t), AloneInv(t), SampleWritten
  <2>3. CASE kind = "func" /\ Mode # "TraceUniformInterval"
    <3>1. Executed(t) = Done(t)
      BY ONLY <1>6, <2>3
    <3>2. ~LastOfWindow(Executed(t))
      BY <1>1, <2>3, EntryGoesOn
    <3>3. Sampled(t)' = Sampled(t) \cup {k}
      BY <1>11, <2>3
    <3>4. QED
      BY ONLY <1>2, <1>5, <1>6, <2>1, <3>1, <3>2, <3>3, TypeOK, UNCHANGED setup,
              t \in Thread, OutInv(t), AloneInv(t), SampleWritten
  <2>4. CASE kind = "func" /\ Mode = "TraceUniformInterval"
    <3>1. Done(t)' = Done(t) /\ pc'[t] = "run"
      BY ONLY <1>1, <1>6, <2>4
    <3>2. Sampled(t)' = Sampled(t)
      BY <1>11, <2>4
    <3>3. QED
      BY ONLY <1>2, <2>1, <3>1, <3>2, TypeOK, UNCHANGED setup, t \in Thread, OutInv(t),
              AloneInv(t), CalleeWritten
  <2>5. QED
    BY <1>1, <2>2, <2>3, <2>4
<1>17. QED
  BY ONLY <1>13, <1>14, <1>15, <1>16 DEF AloneInv

LEMMA AloneStep ==
  ASSUME BaseInv, NEW t \in Thread, Step(t), UNCHANGED setup,
         NEW u \in Thread, FrontInv(u), EntryInv(u), OutInv(u),
         Alone(u) => AloneInv(u), Alone(u)'
  PROVE  AloneInv(u)'
<1>1. AloneInv(u) /\ (u # t => intervals' = intervals) /\ TypeOK
  BY AloneBefore DEF BaseInv
<1>2. CASE u # t
  <2>1. /\ pc'[u] = pc[u] /\ Same(u) /\ out'[u] = out[u] /\ file'[u] = file[u]
        /\ Done(u)' = Done(u)
    BY <1>2, Unmoved
  <2>2. QED
    BY <1>1, <1>2, <2>1, AloneSame
<1>3. CASE u = t
  <2>1. Pending(t)' <=> pc'[t] = "values" /\ InROI(tracedFunctionsInStack'[t])
    BY SameWindows DEF Pending
  <2>2. CASE Enters(t) \/ GoesOutside(t) \/ Finishes(t)
    <3>1. /\ out'[t] = out[t] /\ file'[t] = file[t] /\ Executed(t)' = Executed(t)
          /\ pc'[t] \notin {"values", "switch", "pop"}
          /\ pc[t] \notin {"values", "switch", "pop"} /\ intervals' = intervals
      BY ONLY <2>2 DEF Enters, GoesOutside, Finishes, Same, Quiet
    <3>2. Done(t)' = Done(t)
      BY ONLY <3>1 DEF Done, Pending
    <3>3. QED
      BY <1>1, <1>3, <3>1, <3>2, AloneSame
  <2>3. CASE TakesValue(t)
    <3>1. /\ out'[t] = out[t] /\ file'[t] = file[t] /\ Same(t)
          /\ pc'[t] = pc[t] /\ intervals' = intervals
      BY ONLY <2>3 DEF TakesValue, Quiet
    <3>2. Done(t)' = Done(t)
      BY ONLY <2>1, <3>1 DEF Done, Pending, Same
    <3>3. QED
      BY <1>1, <1>3, <3>1, <3>2, AloneSame
  <2>4. CASE Entered(t)
    <3>1. pc[t] = "args" /\ pc'[t] = "run" /\ left[t] = 0 /\ Same(t)
      BY ONLY <2>4 DEF Entered
    <3>2. CASE Logs(t)
      <4>1. Written(t, "func")
        BY ONLY <2>4, <3>2 DEF Entered
      <4>2. QED
        BY <1>1, <1>3, <3>1, <3>2, <4>1, AloneWritten
    <3>3. CASE ~Logs(t)
      <4>1. out'[t] = out[t] /\ file'[t] = file[t] /\ intervals' = intervals
        BY ONLY <2>4, <3>3 DEF Entered, Quiet
      <4>2. Done(t)' = Done(t)
        BY ONLY <3>1 DEF Done, Pending, Same
      <4>3. QED
        BY <1>1, <1>3, <3>1, <4>1, <4>2, AloneSame
    <3>4. QED
      BY <3>2, <3>3
  <2>5. CASE BeginsInst(t)
    <3>1. /\ out'[t] = out[t] /\ file'[t] = file[t] /\ pc[t] = "run" /\ pc'[t] = "values"
          /\ tracedFunctionsInStack'[t] = tracedFunctionsInStack[t] /\ intervals' = intervals
          /\ Executed(t)' = Executed(t) + (IF InROI(tracedFunctionsInStack[t]) THEN 1 ELSE 0)
      BY ONLY <2>5 DEF BeginsInst, Quiet
    <3>2. Done(t) = Executed(t) /\ Executed(t) \in Nat
      BY <1>1, <3>1, ExecutedNat DEF Done, Pending
    <3>3. Done(t)' = IF InROI(tracedFunctionsInStack[t]) THEN Executed(t)' - 1 ELSE Executed(t)'
      BY ONLY <2>1, <3>1 DEF Done
    <3>4. Done(t)' = Done(t)
      BY ONLY <3>1, <3>2, <3>3
    <3>5. QED
      BY <1>1, <1>3, <3>1, <3>4, AloneSame
  <2>6. CASE EndsValues(t)
    <3>1. CASE Logs(t)
      <4>1. /\ pc[t] = "values" /\ pc'[t] = "switch" /\ left[t] = 0 /\ Same(t)
            /\ Written(t, "inst")
        BY ONLY <2>6, <3>1 DEF EndsValues
      <4>2. QED
        BY <1>1, <1>3, <3>1, <4>1, AloneWritten
    <3>2. CASE ~Logs(t)
      BY <1>1, <1>3, <2>6, <3>2, AloneUnlogged
    <3>3. QED
      BY <3>1, <3>2
  <2>7. CASE ChecksSwitch(t)
    BY <1>1, <1>3, <2>7, AloneChecks
  <2>8. CASE Switches(t)
    BY <1>1, <1>3, <2>8, AloneSwitches
  <2>9. QED
    BY <2>2, <2>3, <2>4, <2>5, <2>6, <2>7, <2>8, StepEffect
<1>4. QED
  BY <1>2, <1>3

-----------------------------------------------------------------------------
(* The inductive invariant *)

(* Every setup has the intervals it traces hold an instruction; then nothing *)
(* has to be taken off the list before the first.                           *)
LEMMA InvInit ==
  ASSUME IntervalsNotEmpty, Init
  PROVE  IInv
<1>1. BaseInv /\ TypeOK
  BY BaseInit DEF BaseInv
<1>2. /\ intervals = Intervals /\ exited = "no"
      /\ \A t \in Thread : /\ count[t] = 0 /\ countInTraceFunc[t] = 0 /\ pc[t] = "run"
                           /\ entry[t].kind = "none" /\ out[t] = <<>>
  BY DEF Init
<1>3. Popped = 0
  <2>1. Len(Intervals) \in Nat
    BY <1>1, IntervalsType
  <2>2. QED
    BY <1>2, <2>1 DEF Popped
<1> SUFFICES ASSUME NEW t \in Thread
             PROVE  /\ FrontInv(t) /\ EntryInv(t) /\ OutInv(t) /\ ExitInv(t)
                    /\ AloneInv(t)
  BY <1>1, <1>2 DEF IInv
<1>4. Executed(t) = 0 /\ Done(t) = 0
  BY ONLY <1>2, t \in Thread DEF Executed, InstCount, Done, Pending
<1>5. DOMAIN out[t] = {}
  BY <1>2
<1>6. FrontInv(t)
  <2>0. PICK h : h = Head(intervals).rhs
    OBVIOUS
  <2> SUFFICES ASSUME intervals # <<>> PROVE 0 < h /\ 0 < h - 1
    BY <1>4, <2>0, Zenon DEF FrontInv
  <2>1. Head(intervals) = Intervals[Popped + 1] /\ Popped + 1 \in 1 .. Len(Intervals)
    BY <1>1, ListType
  <2>2. Popped + 1 \in DOMAIN Intervals
    BY <1>1, <2>1, IntervalsType
  <2>3. \A i \in DOMAIN Intervals : Intervals[i].rhs > 1 /\ Intervals[i].rhs \in Nat
    BY <1>1, IntervalsType DEF IntervalsNotEmpty, Intervals, TypeOK
  <2>4. QED
    BY <2>0, <2>1, <2>2, <2>3
<1>7. EntryInv(t)
  BY <1>2 DEF EntryInv
<1>8. OutInv(t)
  BY ONLY <1>5 DEF OutInv
<1>9. ExitInv(t)
  BY ONLY <1>2, t \in Thread DEF ExitInv
<1>10. PoppedInv(t)
  BY ONLY <1>3 DEF PoppedInv
<1>11. SwitchInv(t) /\ CompleteInv(t)
  BY ONLY <1>2, <1>4, t \in Thread DEF SwitchInv, CompleteInv
<1>12. Sampled(t) = {}
  BY ONLY <1>5 DEF Sampled, Insts
<1>13. FilesAreSamples(t) /\ FileInv(t)
  BY ONLY <1>12 DEF FilesAreSamples, FileInv
<1>14. QED
  BY <1>6, <1>7, <1>8, <1>9, <1>10, <1>11, <1>13 DEF AloneInv

LEMMA InvStutter ==
  ASSUME IInv, UNCHANGED vars
  PROVE  IInv'
<1>1. UNCHANGED <<setup, real, pc, left, op, intervals, count, countInTraceFunc, stack,
                  tracedFunctionsInStack, entry, file, samples, out, exited>>
  BY DEF vars, counters, frames, output
<1>2. UNCHANGED <<ROI, Mode, StartInst, MaxInst, SkipInst, EndInst, Intervals,
                  HardExitCount, Instrumented, Traced, External>>
  BY <1>1, FixedSetup
<1>3. BaseInv'
  BY BaseStep DEF IInv
<1>4. \A n : /\ WindowOf(n)' = WindowOf(n) /\ (LastOfWindow(n)' <=> LastOfWindow(n))
             /\ (Open(n)' <=> Open(n)) /\ (InROI(n)' <=> InROI(n))
  BY <1>1, SameWindows
<1>5. \A t : Executed(t)' = Executed(t)
  BY ONLY <1>1, <1>2 DEF Executed, InstCount
<1>6. \A t : (Pending(t)' <=> Pending(t))
  BY ONLY <1>1, <1>4 DEF Pending
<1>7. \A t : Done(t)' = Done(t)
  BY ONLY <1>5, <1>6 DEF Done
<1>8. Popped' = Popped
  BY ONLY <1>1, <1>2 DEF Popped
<1>9. \A t : Logs(t)' <=> Logs(t)
  BY <1>1, SameLogs, <1>5 DEF Same
<1>10. \A t : Insts(t)' = Insts(t) /\ Sampled(t)' = Sampled(t)
  BY ONLY <1>1, <1>2 DEF Insts, Sampled
<1>11. \A t \in Thread : FrontInv(t)'
  BY ONLY <1>1, <1>2, <1>5, <1>6, IInv DEF IInv, FrontInv
<1>12. \A t \in Thread : EntryInv(t)'
  <2> SUFFICES ASSUME NEW t \in Thread PROVE EntryInv(t)'
    OBVIOUS
  <2>1. EntryInv(t)
    BY DEF IInv
  <2>2. Open(Executed(t))' <=> Open(Executed(t))
    BY ONLY <1>1, <1>2, <1>5 DEF Open, InUniformWindow, InFrontInterval
  <2>3. InROI(tracedFunctionsInStack[t])' <=> InROI(tracedFunctionsInStack[t])
    BY ONLY <1>1, <1>2 DEF InROI
  <2>4. QED
    BY ONLY <1>1, <1>2, <1>5, <1>9, <2>1, <2>2, <2>3 DEF EntryInv
<1>13. \A t \in Thread : OutInv(t)'
  <2> SUFFICES ASSUME NEW t \in Thread PROVE OutInv(t)'
    OBVIOUS
  <2>1. OutInv(t)
    BY DEF IInv
  <2>2. QED
    BY ONLY <1>1, <1>4, <1>7, <2>1 DEF OutInv
<1>14. \A t \in Thread : ExitInv(t)'
  BY ONLY <1>1, <1>2, <1>5, IInv DEF IInv, ExitInv
<1>15. \A t \in Thread : Alone(t)' => AloneInv(t)'
  <2> SUFFICES ASSUME NEW t \in Thread, Alone(t)' PROVE AloneInv(t)'
    OBVIOUS
  <2>1. AloneInv(t)
    BY <1>1 DEF IInv, Alone
  <2>2. TypeOK
    BY DEF IInv, BaseInv
  <2>3. pc'[t] = pc[t] /\ Same(t)
    BY ONLY <1>1, <1>5 DEF Same
  <2>4. QED
    BY <1>1, <1>7, <2>1, <2>2, <2>3, AloneSame
<1>16. (Mode = "TraceUniformInterval" /\ exited = "done" =>
          \E t \in Thread : count[t] = HardExitCount \/ Executed(t) = EndInst)'
  BY ONLY <1>1, <1>2, <1>5, IInv DEF IInv
<1>17. QED
  BY ONLY <1>3, <1>11, <1>12, <1>13, <1>14, <1>15, <1>16 DEF IInv

LEMMA InvStep == IInv /\ [Next]_vars => IInv'
<1> SUFFICES ASSUME IInv, [Next]_vars PROVE IInv'
  OBVIOUS
<1>1. CASE UNCHANGED vars
  BY <1>1, InvStutter
<1>2. CASE Next
  <2>1. UNCHANGED setup
    BY <1>2 DEF Next
  <2>2. PICK t \in setup.threads : Step(t)
    BY <1>2 DEF Next
  <2>3. BaseInv /\ BaseInv' /\ TypeOK
    BY BaseStep DEF IInv, BaseInv
  <2>4. t \in Thread
    BY <2>3, WindowAssumption DEF WindowAssumption, TypeOK
  <2>5. \A u \in Thread : FrontInv(u) /\ EntryInv(u) /\ OutInv(u) /\ ExitInv(u)
    BY DEF IInv
  <2>6. \A u \in Thread : FrontInv(u)'
    BY <2>1, <2>2, <2>3, <2>4, <2>5, FrontStep
  <2>7. \A u \in Thread : EntryInv(u)'
    BY <2>1, <2>2, <2>3, <2>4, <2>5, EntryStep
  <2>8. \A u \in Thread : OutInv(u)'
    BY <2>1, <2>2, <2>3, <2>4, <2>5, OutStep
  <2>9. \A u \in Thread : ExitInv(u)'
    BY <2>1, <2>2, <2>3, <2>4, <2>5, ExitStep
  <2>10. \A u \in Thread : Alone(u)' => AloneInv(u)'
    <3> SUFFICES ASSUME NEW u \in Thread, Alone(u)' PROVE AloneInv(u)'
      OBVIOUS
    <3>1. Alone(u) => AloneInv(u)
      BY DEF IInv
    <3>2. QED
      BY <2>1, <2>2, <2>3, <2>4, <2>5, <3>1, AloneStep
  <2>11. (Mode = "TraceUniformInterval" /\ exited = "done" =>
            \E u \in Thread : count[u] = HardExitCount \/ Executed(u) = EndInst)'
    <3>1. UNCHANGED <<Mode, HardExitCount, EndInst>>
      BY <2>1, FixedSetup
    <3> SUFFICES ASSUME Mode = "TraceUniformInterval", exited' = "done"
                 PROVE  count'[t] = HardExitCount \/ Executed(t)' = EndInst
      BY <2>4, <3>1
    <3>2. Finishes(t)
      BY <2>1, <2>2, <2>3, <2>4, StepEffect DEF Enters, TakesValue, Entered, GoesOutside,
         BeginsInst, EndsValues, ChecksSwitch, Switches
    <3>3. ShouldExit(t) /\ count'[t] = count[t] /\ Executed(t)' = Executed(t)
      BY <3>2 DEF Finishes
    <3>4. QED
      BY ONLY <3>3, Mode = "TraceUniformInterval" DEF ShouldExit, Executed
  <2>12. QED
    BY ONLY <2>3, <2>6, <2>7, <2>8, <2>9, <2>10, <2>11 DEF IInv
<1>3. QED
  BY <1>1, <1>2

(* The invariant behind the trace files, for any number of threads: entries *)
(* belong to their event, nobody is past the interval at the front, and a   *)
(* thread that runs alone has taken off the list what is over and no more.  *)
THEOREM InvariantCorrect == ASSUME IntervalsNotEmpty PROVE Spec => []IInv
<1>1. Init => IInv
  BY InvInit
<1>2. IInv /\ [Next]_vars => IInv'
  BY InvStep
<1>3. QED
  BY <1>1, <1>2, PTL DEF Spec

(* Entries are written whole, by the event that opened them and with all    *)
(* its values, and a thread that runs alone puts two of them into the same  *)
(* file exactly if they belong to the same window (TracerProtobuf.cpp).     *)
THEOREM TraceFilesWhole == ASSUME IntervalsNotEmpty PROVE Spec => []FilesWhole
<1>1. ASSUME IInv PROVE FilesWhole
  <2>1. SerializedWhole
    BY ONLY <1>1 DEF IInv, OutInv, SerializedWhole
  <2>2. AloneOneSamplePerFile
    BY ONLY <1>1 DEF IInv, AloneInv, AloneOneSamplePerFile
  <2>3. QED
    BY ONLY <2>1, <2>2 DEF FilesWhole
<1>2. QED
  BY <1>1, InvariantCorrect, PTL

(* A thread that runs alone traces every instruction of every window, and   *)
(* whatever others do, each is traced once, in order, and only in windows;  *)
(* the process stops at its last window or where it is told to.             *)
THEOREM WindowsTracedExactly == ASSUME IntervalsNotEmpty PROVE Spec => []WindowsExact
<1>1. ASSUME IInv PROVE WindowsExact
  <2>1. OnlyWindowsTraced
    BY ONLY <1>1 DEF IInv, OutInv, OnlyWindowsTraced, Insts
  <2>2. AloneWindowsTraced
    <3> SUFFICES ASSUME NEW t \in Thread, Alone(t), pc[t] \in {"run", "call"}
                 PROVE  \A n \in 1 .. Executed(t) : WindowOf(n) # 0 =>
                          \E i \in Insts(t) : out[t][i].n = n
      BY DEF AloneWindowsTraced, MissesNone
    <3>1. CompleteInv(t)
      BY <1>1 DEF IInv, AloneInv
    <3>2. Done(t) = Executed(t)
      BY ONLY pc[t] \in {"run", "call"} DEF Done, Pending
    <3>3. QED
      BY ONLY <3>1, <3>2 DEF CompleteInv
  <2>3. StopsOnTime
    <3>1. \A t \in Thread : ExitInv(t)
      BY <1>1 DEF IInv
    <3>2. Mode = "TraceUniformInterval" /\ exited = "done" =>
            \E t \in Thread : count[t] = HardExitCount \/ Executed(t) = EndInst
      BY <1>1 DEF IInv
    <3>3. QED
      BY ONLY <3>1, <3>2 DEF StopsOnTime, ExitInv
  <2>4. QED
    BY ONLY <2>1, <2>2, <2>3 DEF WindowsExact
<1>2. QED
  BY <1>1, InvariantCorrect, PTL

=============================================================================
