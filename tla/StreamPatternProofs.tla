------------------------ MODULE StreamPatternProofs ------------------------
(***************************************************************************)
(* Proofs about StreamPattern, for words of any size and histories of any  *)
(* length.                                                                 *)
(***************************************************************************)
EXTENDS StreamPattern, FiniteSetTheorems, WellFoundedInduction, TLAPS

-----------------------------------------------------------------------------
(* Numbers modulo m *)

LEMMA DivMod ==
  ASSUME NEW m \in Nat \ {0}, NEW a \in Int
  PROVE  /\ a \div m \in Int /\ a % m \in 0 .. m - 1
         /\ a = m * (a \div m) + (a % m)
  OBVIOUS

LEMMA DivModUnique ==
  ASSUME NEW m \in Nat \ {0}, NEW a \in Int, NEW q \in Int, NEW r \in 0 .. m - 1,
         a = m * q + r
  PROVE  a \div m = q /\ a % m = r
<1>1. PICK p \in Int, s \in 0 .. m - 1 : p = a \div m /\ s = a % m
  BY DivMod
<1>2. a = m * p + s
  BY <1>1, DivMod
<1>3. PICK u \in Int, v \in Int : u = m * p /\ v = m * q
  OBVIOUS
<1>4. u - v < m /\ v - u < m
  BY <1>2, <1>3
<1>5. ~ q < p
  <2> SUFFICES ASSUME q < p PROVE FALSE
    OBVIOUS
  <2>1. PICK d \in Nat : p = q + 1 + d
    BY q + 1 + (p - q - 1) = p
  <2>2. u = v + m + m * d /\ m * d >= 0
    BY ONLY <1>3, <2>1, p \in Int, q \in Int, m \in Nat \ {0}, d \in Nat
  <2>3. QED
    BY <1>4, <2>2
<1>6. ~ p < q
  <2> SUFFICES ASSUME p < q PROVE FALSE
    OBVIOUS
  <2>1. PICK d \in Nat : q = p + 1 + d
    BY p + 1 + (q - p - 1) = q
  <2>2. v = u + m + m * d /\ m * d >= 0
    BY ONLY <1>3, <2>1, p \in Int, q \in Int, m \in Nat \ {0}, d \in Nat
  <2>3. QED
    BY <1>4, <2>2
<1>7. p = q /\ s = r
  BY <1>2, <1>3, <1>5, <1>6
<1>8. QED
  BY <1>1, <1>7

LEMMA ModSmall ==
  ASSUME NEW m \in Nat \ {0}, NEW a \in 0 .. m - 1
  PROVE  a % m = a
<1>1. a = m * 0 + a
  OBVIOUS
<1>2. QED
  BY <1>1, DivModUnique

(* Multiples of m do not count. *)
LEMMA ModTurns ==
  ASSUME NEW m \in Nat \ {0}, NEW a \in Int, NEW q \in Int
  PROVE  (a + m * q) % m = a % m
<1>1. PICK p \in Int, r \in 0 .. m - 1 : p = a \div m /\ r = a % m
  BY DivMod
<1>2. a = m * p + r
  BY <1>1, DivMod
<1>3. PICK b \in Int : b = a + m * q
  OBVIOUS
<1>4. b = m * (p + q) + r
  BY ONLY <1>2, <1>3, m \in Nat \ {0}, p \in Int, q \in Int, r \in 0 .. m - 1
<1>5. b % m = r
  BY <1>4, p + q \in Int, DivModUnique
<1>6. QED
  BY <1>1, <1>3, <1>5

LEMMA ModPlus ==
  ASSUME NEW m \in Nat \ {0}, NEW a \in Int, NEW b \in Int
  PROVE  ((a % m) + b) % m = (a + b) % m
<1>1. PICK p \in Int, r \in 0 .. m - 1 : p = a \div m /\ r = a % m
  BY DivMod
<1>2. a = m * p + r
  BY <1>1, DivMod
<1>3. PICK c \in Int : c = r + b
  OBVIOUS
<1>4. (c + m * p) % m = c % m
  BY ModTurns
<1>5. a + b = c + m * p
  BY ONLY <1>2, <1>3, m \in Nat \ {0}, p \in Int, r \in 0 .. m - 1, b \in Int,
     a \in Int
<1>6. QED
  BY <1>1, <1>3, <1>4, <1>5

(* Products can be divided by a positive number. *)
LEMMA Cancel ==
  ASSUME NEW a \in Int, NEW b \in Int, NEW d \in Nat \ {0}, a * d = b * d
  PROVE  a = b
<1>1. ~ a < b
  <2> SUFFICES ASSUME a < b PROVE FALSE
    OBVIOUS
  <2>1. PICK e \in Nat : b = a + 1 + e
    BY a + 1 + (b - a - 1) = b
  <2>2. b * d = a * d + d + e * d /\ e * d >= 0
    BY ONLY <2>1, a \in Int, d \in Nat \ {0}, e \in Nat
  <2>3. PICK u \in Int, w \in Int : u = a * d /\ w = e * d
    OBVIOUS
  <2>4. QED
    BY <2>2, <2>3
<1>2. ~ b < a
  <2> SUFFICES ASSUME b < a PROVE FALSE
    OBVIOUS
  <2>1. PICK e \in Nat : a = b + 1 + e
    BY b + 1 + (a - b - 1) = a
  <2>2. a * d = b * d + d + e * d /\ e * d >= 0
    BY ONLY <2>1, b \in Int, d \in Nat \ {0}, e \in Nat
  <2>3. PICK u \in Int, w \in Int : u = b * d /\ w = e * d
    OBVIOUS
  <2>4. QED
    BY <2>2, <2>3
<1>3. QED
  BY <1>1, <1>2

-----------------------------------------------------------------------------
(* The types of the state machines *)

Word == 0 .. M - 1
States == {"UNKNOWN", "SUCCESS", "FAILURE"}
FSM == [state : States, updates : Nat, prev : Word, confirmed : Seq(Nat \X Word),
        base : Word, strideI : Word, i : Nat, ni : Nat, strideJ : Word, j : Nat]

(* Values confirmed before the n-th update, in order. *)
InOrder(c, n) ==
  /\ \A k \in DOMAIN c : c[k][1] < n
  /\ \A k, l \in DOMAIN c : k < l => c[k][1] < c[l][1]

(* A state machine that has seen at most n entries. *)
FSMType(f, n) ==
  /\ f \in FSM
  /\ f.updates <= n /\ f.i <= n /\ f.j <= n /\ f.ni <= n
  /\ (f.state = "UNKNOWN" => Len(f.confirmed) <= 2) /\ InOrder(f.confirmed, f.updates)

LEMMA PatternNames ==
  /\ ValuePattern = {"UNKNOWN", "CONSTANT", "LINEAR", "QUARDRIC", "RANDOM"}
  /\ AccessPattern = {"UNCOND", "COND_ACCESS", "COND_UPDATE", "SAME_COND"}
<1>1. /\ DOMAIN ValueOrder = 1 .. 5 /\ DOMAIN AccessOrder = 1 .. 4
      /\ ValueOrder[1] = "UNKNOWN" /\ ValueOrder[2] = "CONSTANT" /\ ValueOrder[3] = "LINEAR"
      /\ ValueOrder[4] = "QUARDRIC" /\ ValueOrder[5] = "RANDOM"
      /\ AccessOrder[1] = "UNCOND" /\ AccessOrder[2] = "COND_ACCESS"
      /\ AccessOrder[3] = "COND_UPDATE" /\ AccessOrder[4] = "SAME_COND"
  BY DEF ValueOrder, AccessOrder
<1>2. /\ \A k : k \in 1 .. 5 <=> k \in {1, 2, 3, 4, 5}
      /\ \A k : k \in 1 .. 4 <=> k \in {1, 2, 3, 4}
  OBVIOUS
<1>3. QED
  BY <1>1, <1>2 DEF ValuePattern, AccessPattern, ToSet

LEMMA WordType ==
  /\ M \in Nat \ {0} /\ 0 \in Word
  /\ \A a \in Int : a % M \in Word
  /\ \A a \in Word : a \in Nat /\ a < M
  /\ Vals \subseteq Word
<1>1. M \in Nat \ {0} /\ Vals \subseteq 0 .. M - 1
  BY PatternAssumption DEF PatternAssumption
<1>2. \A a \in Int : a % M \in 0 .. M - 1
  BY <1>1, DivMod
<1>3. QED
  BY <1>1, <1>2 DEF Word

LEMMA FreshType ==
  ASSUME NEW v
  PROVE  FSMType(FreshValueFSM(v), 0)
<1>1. 0 \in Word
  BY WordType
<1>2. <<>> \in Seq(Nat \X Word) /\ Len(<<>>) = 0 /\ InOrder(<<>>, 0)
  BY DEF InOrder
<1> DEFINE f == FreshValueFSM(v)
<1>3. /\ f \in FSM /\ f.updates = 0 /\ f.i = 0 /\ f.j = 0 /\ f.ni = 0 /\ f.confirmed = <<>>
  BY <1>1, <1>2 DEF FreshValueFSM, FSM, States
<1> HIDE DEF f
<1>4. FSMType(f, 0)
  BY <1>2, <1>3 DEF FSMType
<1>5. QED
  BY <1>4 DEF f

(* More entries for others do no harm. *)
LEMMA FSMTypeGrows ==
  ASSUME NEW f, NEW n \in Nat, FSMType(f, n)
  PROVE  FSMType(f, n + 1)
  BY DEF FSMType, FSM

LEMMA FSMFields ==
  ASSUME NEW f \in FSM
  PROVE  /\ f.state \in States /\ f.updates \in Nat /\ f.prev \in Word
         /\ f.confirmed \in Seq(Nat \X Word) /\ f.base \in Word /\ f.strideI \in Word
         /\ f.i \in Nat /\ f.ni \in Nat /\ f.strideJ \in Word /\ f.j \in Nat
  BY DEF FSM

LEMMA DivSmaller ==
  ASSUME NEW a \in Nat, NEW d \in Nat \ {0}
  PROVE  a \div d \in 0 .. a
<1>1. PICK q \in Int, r \in 0 .. d - 1 : q = a \div d /\ r = a % d
  BY DivMod
<1>2. a = d * q + r
  BY <1>1, DivMod
<1>3. ~ q < 0
  <2> SUFFICES ASSUME q < 0 PROVE FALSE
    OBVIOUS
  <2>1. PICK e \in Nat : q = 0 - 1 - e
    BY 0 - 1 - (0 - 1 - q) = q
  <2>2. d * q = 0 - d - d * e /\ d * e >= 0
    BY ONLY <2>1, d \in Nat \ {0}, e \in Nat
  <2>3. PICK u \in Int : u = d * e
    OBVIOUS
  <2>4. QED
    BY <1>2, <2>2, <2>3
<1>4. q <= a
  <2>1. PICK e \in Nat : d = 1 + e
    BY 1 + (d - 1) = d
  <2>2. d * q = q + e * q /\ e * q >= 0
    BY ONLY <1>3, <2>1, e \in Nat, q \in Int
  <2>3. PICK u \in Int : u = e * q
    OBVIOUS
  <2>4. QED
    BY <1>2, <2>2, <2>3
<1>5. QED
  BY <1>1, <1>3, <1>4

LEMMA LineType ==
  ASSUME NEW r \in Nat \X Word, NEW s \in Nat \X Word, r[1] < s[1]
  PROVE  /\ IdxDiff(r, s) \in Nat \ {0} /\ IdxDiff(r, s) = s[1] - r[1]
         /\ ValDiff(r, s) \in Word /\ StrideOf(r, s) \in Word /\ BaseOf(r, s) \in Word
<1>1. r[1] \in Nat /\ s[1] \in Nat /\ r[2] \in Int /\ s[2] \in Int
  BY WordType
<1>2. IdxDiff(r, s) \in Nat \ {0} /\ IdxDiff(r, s) = s[1] - r[1]
  BY <1>1 DEF IdxDiff
<1>3. ValDiff(r, s) \in Word
  BY <1>1, WordType DEF ValDiff
<1>4. StrideOf(r, s) \in Word
  <2>1. PICK d \in Nat \ {0}, a \in Nat : d = IdxDiff(r, s) /\ a = ValDiff(r, s) /\ a \in Word
    BY <1>2, <1>3, WordType
  <2>2. a \div d \in 0 .. a
    BY DivSmaller
  <2>3. a \div d \in Word
    BY <2>1, <2>2, WordType DEF Word
  <2>4. QED
    BY <2>1, <2>3 DEF StrideOf
<1>5. BaseOf(r, s) \in Word
  <2>1. PICK t \in Int : t = StrideOf(r, s)
    BY <1>4, WordType
  <2>2. r[2] - r[1] * t \in Int
    BY <1>1
  <2>3. QED
    BY <2>1, <2>2, WordType DEF BaseOf
<1>6. QED
  BY <1>2, <1>3, <1>4, <1>5

(* The sequence d is c with an update more. *)
Extended(c, u, x, d) ==
  /\ d \in Seq(Nat \X Word) /\ Len(c) \in Nat /\ Len(d) = Len(c) + 1
  /\ DOMAIN d = 1 .. Len(c) + 1 /\ DOMAIN c = 1 .. Len(c)
  /\ \A k \in 1 .. Len(c) : d[k] = c[k]
  /\ d[Len(c) + 1] = <<u, x>>
  /\ \A k \in 1 .. Len(c) + 1 : d[k] \in Nat \X Word
  /\ InOrder(d, u + 1)

LEMMA Extend ==
  ASSUME NEW c \in Seq(Nat \X Word), NEW u \in Nat, NEW x \in Word, InOrder(c, u)
  PROVE  Extended(c, u, x, Append(c, <<u, x>>))
<1> DEFINE d == Append(c, <<u, x>>)
<1>1. <<u, x>> \in Nat \X Word /\ <<u, x>>[1] = u
  OBVIOUS
<1>2. /\ d \in Seq(Nat \X Word) /\ Len(c) \in Nat /\ Len(d) = Len(c) + 1
      /\ DOMAIN d = 1 .. Len(c) + 1 /\ DOMAIN c = 1 .. Len(c)
      /\ \A k \in 1 .. Len(c) : d[k] = c[k]
      /\ d[Len(c) + 1] = <<u, x>>
      /\ \A k \in 1 .. Len(c) : c[k] \in Nat \X Word
  BY <1>1
<1> HIDE DEF d
<1>3. PICK n \in Nat : n = Len(c)
  BY <1>2
<1>4. \A k \in 1 .. n + 1 : k \in 1 .. n \/ k = n + 1
  BY ONLY n \in Nat
<1>5. \A k \in 1 .. n + 1 : d[k] \in Nat \X Word
  BY ONLY <1>1, <1>2, <1>3, <1>4
<1>6. \A k \in 1 .. n : d[k][1] < u
  BY ONLY <1>2, <1>3, InOrder(c, u) DEF InOrder
<1>7. \A k \in 1 .. n + 1 : d[k][1] \in Nat
  BY ONLY <1>5
<1>8. ASSUME NEW k \in 1 .. n + 1
      PROVE  d[k][1] < u + 1
  <2>1. CASE k \in 1 .. n
    BY ONLY <1>6, <1>7, <2>1, u \in Nat, k \in 1 .. n + 1
  <2>2. CASE k = n + 1
    BY ONLY <1>1, <1>2, <1>3, <2>2, u \in Nat
  <2>3. QED
    BY <1>4, <2>1, <2>2
<1>9. ASSUME NEW k \in 1 .. n + 1, NEW l \in 1 .. n + 1, k < l
      PROVE  d[k][1] < d[l][1]
  <2>1. k \in 1 .. n
    BY <1>3, <1>9
  <2>2. CASE l \in 1 .. n
    BY ONLY <1>2, <1>3, <1>9, <2>1, <2>2, InOrder(c, u) DEF InOrder
  <2>3. CASE l = n + 1
    BY ONLY <1>1, <1>2, <1>3, <1>6, <2>1, <2>3
  <2>4. QED
    BY <1>4, <2>2, <2>3
<1>10. InOrder(d, u + 1)
  BY ONLY <1>2, <1>3, <1>8, <1>9 DEF InOrder
<1>11. Extended(c, u, x, d)
  BY ONLY <1>2, <1>3, <1>5, <1>10 DEF Extended
<1>12. QED
  BY <1>11 DEF d

-----------------------------------------------------------------------------
(* What an update may change, types of the results *)

(* The states between the cases of an update. *)
LEMMA FSMChange ==
  ASSUME NEW f \in FSM, NEW n \in Nat, NEW g \in FSM,
         f.updates <= n, f.i <= n, f.j <= n, f.ni <= n,
         g.updates \in {f.updates, f.updates + 1},
         g.i \in {f.i, f.i + 1, f.updates, 0}, g.j \in {f.j, f.j + 1, 1},
         g.ni \in {f.ni, f.updates},
         g.state = "UNKNOWN" => Len(g.confirmed) <= 2, InOrder(g.confirmed, g.updates)
  PROVE  FSMType(g, n + 1)
<1>1. /\ f.updates \in Nat /\ f.i \in Nat /\ f.j \in Nat /\ f.ni \in Nat
  BY FSMFields
<1>2. g.updates <= n + 1 /\ g.i <= n + 1 /\ g.j <= n + 1 /\ g.ni <= n + 1
  BY <1>1
<1>3. QED
  BY <1>2 DEF FSMType

(* Confirmed values stay in order when updates are counted. *)
LEMMA StillInOrder ==
  ASSUME NEW c \in Seq(Nat \X Word), NEW u \in Nat, InOrder(c, u)
  PROVE  InOrder(c, u + 1)
<1>1. \A k \in DOMAIN c : c[k] \in Nat \X Word
  OBVIOUS
<1>2. \A k \in DOMAIN c : c[k][1] \in Nat
  BY ONLY <1>1
<1>3. QED
  BY ONLY <1>2, u \in Nat, InOrder(c, u) DEF InOrder

LEMMA UpdateConstType ==
  ASSUME NEW n \in Nat, NEW f, FSMType(f, n), NEW x \in Word
  PROVE  FSMType(UpdateConst(f, x), n + 1)
<1> DEFINE g == UpdateConst(f, x)
<1>1. f \in FSM /\ f.updates <= n /\ f.i <= n /\ f.j <= n /\ f.ni <= n
      /\ (f.state = "UNKNOWN" => Len(f.confirmed) <= 2) /\ InOrder(f.confirmed, f.updates)
  BY DEF FSMType
<1>2. f.updates \in Nat /\ f.confirmed \in Seq(Nat \X Word) /\ f.prev \in Word
  BY <1>1, FSMFields
<1>3. PICK p \in Word, s \in States, u \in Nat :
        /\ u = f.updates + 1
        /\ p = (IF f.state = "UNKNOWN" THEN x ELSE f.prev)
        /\ s = (IF f.state = "SUCCESS" /\ f.prev # x THEN "FAILURE" ELSE "SUCCESS")
  BY <1>2 DEF States
<1>4. g = [f EXCEPT !.updates = u, !.prev = p, !.state = s]
  BY <1>3 DEF UpdateConst
<1>5. /\ g \in FSM /\ g.updates = u /\ g.i = f.i /\ g.j = f.j /\ g.ni = f.ni
      /\ g.confirmed = f.confirmed /\ g.state = s /\ s # "UNKNOWN" /\ g.prev = p
  BY ONLY <1>1, <1>3, <1>4 DEF FSM
<1>6. InOrder(f.confirmed, u)
  BY <1>1, <1>2, <1>3, StillInOrder
<1> HIDE DEF g
<1>7. FSMType(g, n + 1)
  BY <1>1, <1>3, <1>5, <1>6, FSMChange
<1>8. QED
  BY <1>7 DEF g

LEMMA FailedType ==
  ASSUME NEW n \in Nat, NEW f, FSMType(f, n)
  PROVE  FSMType(Failed(f), n)
<1> DEFINE g == Failed(f)
<1>1. /\ f \in FSM /\ g \in FSM /\ g.updates = f.updates /\ g.i = f.i /\ g.j = f.j
      /\ g.ni = f.ni /\ g.confirmed = f.confirmed /\ g.state # "UNKNOWN"
  BY DEF FSMType, FSM, Failed, States
<1> HIDE DEF g
<1>2. FSMType(g, n)
  BY ONLY <1>1, FSMType(f, n) DEF FSMType
<1>3. QED
  BY <1>2 DEF g

(* The entry counted, before the case is decided. *)
Counted(f, x) == [f EXCEPT !.prev = x, !.updates = @ + 1]

LEMMA CountedType ==
  ASSUME NEW n \in Nat, NEW f, FSMType(f, n), NEW x \in Word, NEW g, g = Counted(f, x)
  PROVE  /\ FSMType(g, n + 1) /\ g.updates = f.updates + 1 /\ g.prev = x
         /\ g.state = f.state /\ g.confirmed = f.confirmed /\ g.base = f.base
         /\ g.strideI = f.strideI /\ g.i = f.i /\ g.ni = f.ni
         /\ g.strideJ = f.strideJ /\ g.j = f.j
<1>1. f \in FSM /\ f.updates <= n /\ f.i <= n /\ f.j <= n /\ f.ni <= n
      /\ (f.state = "UNKNOWN" => Len(f.confirmed) <= 2) /\ InOrder(f.confirmed, f.updates)
  BY DEF FSMType
<1>2. f.updates \in Nat /\ f.confirmed \in Seq(Nat \X Word)
  BY <1>1, FSMFields
<1>3. PICK u \in Nat : u = f.updates + 1
  BY <1>2
<1>4. g = [f EXCEPT !.prev = x, !.updates = u]
  BY <1>3 DEF Counted
<1>5. /\ g \in FSM /\ g.updates = u /\ g.i = f.i /\ g.j = f.j /\ g.ni = f.ni
      /\ g.confirmed = f.confirmed /\ g.prev = x /\ g.state = f.state
      /\ g.base = f.base /\ g.strideI = f.strideI /\ g.strideJ = f.strideJ
  BY ONLY <1>1, <1>3, <1>4, x \in Word DEF FSM
<1>6. InOrder(f.confirmed, u)
  BY <1>1, <1>2, <1>3, StillInOrder
<1>7. FSMType(g, n + 1)
  BY <1>1, <1>3, <1>5, <1>6, FSMChange
<1>8. QED
  BY ONLY <1>3, <1>5, <1>7

(* What a linear state machine does with a value, case by case. *)
LinearStep(f, x, w) ==
  \/ w.state = "FAILURE"
  \/ /\ f.state = "SUCCESS" /\ x = NextLinear(f)
     /\ w.state = "SUCCESS" /\ w.i = f.i + 1
     /\ w.base = f.base /\ w.strideI = f.strideI
  \/ /\ f.state = "UNKNOWN" /\ Len(f.confirmed) = 0
     /\ w.state = "UNKNOWN" /\ Len(w.confirmed) = 1 /\ w.confirmed[1] = <<f.updates, x>>
  \/ /\ f.state = "UNKNOWN" /\ Len(f.confirmed) = 1
     /\ HasStride(f.confirmed[1], <<f.updates, x>>)
     /\ w.state = "SUCCESS" /\ w.i = f.updates
     /\ w.base = BaseOf(f.confirmed[1], <<f.updates, x>>)
     /\ w.strideI = StrideOf(f.confirmed[1], <<f.updates, x>>)

LEMMA UpdateLinearStep ==
  ASSUME NEW n \in Nat, NEW f, FSMType(f, n), NEW x \in Word
  PROVE  \E w \in FSM : /\ w = UpdateLinear(f, x) /\ FSMType(w, n + 1)
                        /\ w.updates = f.updates + 1 /\ w.prev = x
                        /\ LinearStep(f, x, w)
<1>1. f \in FSM /\ f.updates <= n /\ f.i <= n /\ f.j <= n /\ f.ni <= n
      /\ (f.state = "UNKNOWN" => Len(f.confirmed) <= 2) /\ InOrder(f.confirmed, f.updates)
  BY DEF FSMType
<1>2. /\ f.updates \in Nat /\ f.confirmed \in Seq(Nat \X Word) /\ f.prev \in Word
      /\ f.i \in Nat /\ f.state \in States
  BY <1>1, FSMFields
<1>0. PICK g : g = Counted(f, x)
  OBVIOUS
<1>3. /\ FSMType(g, n + 1) /\ g.updates = f.updates + 1 /\ g.prev = x
      /\ g.state = f.state /\ g.confirmed = f.confirmed /\ g.base = f.base
      /\ g.strideI = f.strideI /\ g.i = f.i /\ g.ni = f.ni
      /\ g.strideJ = f.strideJ /\ g.j = f.j
  BY <1>0, CountedType
<1>4. g \in FSM
  BY <1>3 DEF FSMType
<1>d. PICK u \in Nat, v \in Nat, fc \in Seq(Nat \X Word) :
        u = f.updates /\ v = f.i + 1 /\ fc = f.confirmed
  BY <1>2
<1>a. PICK c : c = Append(fc, <<u, x>>)
  OBVIOUS
<1>b. PICK m \in Nat : m = Len(fc)
  OBVIOUS
<1>5. /\ c \in Seq(Nat \X Word) /\ Len(c) = m + 1 /\ DOMAIN c = 1 .. m + 1
      /\ \A k \in 1 .. m : c[k] = fc[k]
      /\ c[m + 1] = <<u, x>>
      /\ \A k \in 1 .. m + 1 : c[k] \in Nat \X Word
      /\ InOrder(c, u + 1)
  <2>1. InOrder(fc, u)
    BY <1>1, <1>d
  <2>2. Extended(fc, u, x, c)
    BY <1>a, <2>1, Extend
  <2>3. QED
    BY ONLY <1>b, <2>2 DEF Extended
<1>e. Len(c) = m + 1
  BY ONLY <1>5
<1>c. PICK w : w = UpdateLinear(f, x)
  OBVIOUS
<1>6. w = CASE f.state = "SUCCESS" /\ x = NextLinear(f) -> [g EXCEPT !.i = @ + 1]
          [] f.state = "UNKNOWN" /\ Len(c) = 1 -> [g EXCEPT !.confirmed = c]
          [] f.state = "UNKNOWN" /\ Len(c) = 2 /\ HasStride(c[1], c[2]) ->
               [g EXCEPT !.state = "SUCCESS", !.confirmed = c, !.i = f.updates,
                         !.base = BaseOf(c[1], c[2]), !.strideI = StrideOf(c[1], c[2])]
          [] OTHER -> Failed(g)
  BY ONLY <1>0, <1>a, <1>c, <1>d DEF UpdateLinear, Counted
<1>7. CASE f.state = "SUCCESS" /\ x = NextLinear(f)
  <2>1. w = [g EXCEPT !.i = v]
    BY ONLY <1>3, <1>d, <1>6, <1>7
  <2>2. /\ w \in FSM /\ w.updates = g.updates /\ w.i = v /\ w.j = g.j /\ w.ni = g.ni
        /\ w.confirmed = g.confirmed /\ w.prev = g.prev /\ w.state = g.state
        /\ w.base = g.base /\ w.strideI = g.strideI
    BY ONLY <1>4, <2>1, v \in Nat DEF FSM
  <2>3. (w.state = "UNKNOWN" => Len(w.confirmed) <= 2) /\ InOrder(w.confirmed, w.updates)
    BY ONLY <1>3, <2>2 DEF FSMType
  <2>4. FSMType(w, n + 1)
    BY <1>1, <1>3, <1>d, <2>2, <2>3, FSMChange
  <2>5. LinearStep(f, x, w)
    BY ONLY <1>3, <1>7, <1>d, <2>2 DEF LinearStep
  <2>6. QED
    BY ONLY <1>3, <1>c, <2>2, <2>4, <2>5
<1>8. CASE f.state = "UNKNOWN" /\ Len(c) = 1
  <2>a. Len(c) = 1 /\ m + 1 = 1
    BY ONLY <1>e, <1>8
  <2>0. m = 0
    BY ONLY <2>a, m \in Nat
  <2>1. w = [g EXCEPT !.confirmed = c]
    BY ONLY <1>6, <1>8
  <2>2. /\ w \in FSM /\ w.updates = g.updates /\ w.i = g.i /\ w.j = g.j /\ w.ni = g.ni
        /\ w.confirmed = c /\ w.prev = g.prev /\ w.state = g.state
        /\ w.base = g.base /\ w.strideI = g.strideI
    <3>1. c \in Seq(Nat \X Word)
      BY ONLY <1>5
    <3>2. QED
      BY ONLY <1>4, <2>1, <3>1 DEF FSM
  <2>3. (w.state = "UNKNOWN" => Len(w.confirmed) <= 2) /\ InOrder(w.confirmed, w.updates)
    BY ONLY <1>3, <1>5, <1>d, <2>2, <2>a
  <2>4. FSMType(w, n + 1)
    BY <1>1, <1>3, <2>2, <2>3, FSMChange
  <2>5. LinearStep(f, x, w)
    <3>1. c[1] = <<f.updates, x>>
      BY ONLY <1>5, <1>d, <2>0
    <3>2. QED
      BY ONLY <1>3, <1>8, <1>b, <1>d, <2>0, <2>2, <3>1 DEF LinearStep
  <2>6. QED
    BY ONLY <1>3, <1>c, <2>2, <2>4, <2>5
<1>9. CASE f.state = "UNKNOWN" /\ Len(c) = 2 /\ HasStride(c[1], c[2])
  <2>a. Len(c) = 2 /\ m + 1 = 2
    BY ONLY <1>e, <1>9
  <2>b. m = 1
    BY ONLY <2>a, m \in Nat
  <2>0. m = 1 /\ 1 \in DOMAIN c /\ 2 \in DOMAIN c
    BY ONLY <1>5, <2>b
  <2>1. c[1] = f.confirmed[1] /\ c[2] = <<f.updates, x>>
    BY ONLY <1>5, <1>d, <2>0
  <2>2. c[1] \in Nat \X Word /\ c[2] \in Nat \X Word /\ c[1][1] < c[2][1]
    <3>1. c[1] \in Nat \X Word /\ c[2] \in Nat \X Word
      BY ONLY <1>5, <2>0
    <3>2. c[1][1] < c[2][1]
      BY ONLY <1>5, <2>0, 1 < 2 DEF InOrder
    <3>3. QED
      BY ONLY <3>1, <3>2
  <2>3. PICK b \in Word, s \in Word : b = BaseOf(c[1], c[2]) /\ s = StrideOf(c[1], c[2])
    BY <2>2, LineType
  <2>4. w = [g EXCEPT !.state = "SUCCESS", !.confirmed = c, !.i = u,
                      !.base = b, !.strideI = s]
    <3>1. Len(c) # 1 /\ f.state # "SUCCESS"
      BY ONLY <1>9
    <3>2. w = [g EXCEPT !.state = "SUCCESS", !.confirmed = c, !.i = f.updates,
                      !.base = BaseOf(c[1], c[2]), !.strideI = StrideOf(c[1], c[2])]
      BY ONLY <1>6, <1>9, <3>1
    <3>3. QED
      BY ONLY <1>d, <2>3, <3>2
  <2>5. /\ w \in FSM /\ w.updates = g.updates /\ w.i = u /\ w.j = g.j /\ w.ni = g.ni
        /\ w.confirmed = c /\ w.prev = g.prev /\ w.state = "SUCCESS"
        /\ w.base = b /\ w.strideI = s
    <3>1. c \in Seq(Nat \X Word)
      BY ONLY <1>5
    <3>2. "SUCCESS" \in States
      BY DEF States
    <3>3. /\ DOMAIN w = DOMAIN g /\ w.updates = g.updates /\ w.i = u /\ w.j = g.j
          /\ w.ni = g.ni /\ w.confirmed = c /\ w.prev = g.prev /\ w.state = "SUCCESS"
          /\ w.base = b /\ w.strideI = s
      BY ONLY <1>4, <2>4 DEF FSM
    <3>4. w \in FSM
      <4> DEFINE C == Seq(Nat \X Word)
      <4>1. /\ c \in C /\ g \in [state : States, updates : Nat, prev : Word, confirmed : C,
               base : Word, strideI : Word, i : Nat, ni : Nat, strideJ : Word, j : Nat]
        BY ONLY <1>4, <3>1 DEF FSM
      <4>2. FSM = [state : States, updates : Nat, prev : Word, confirmed : C,
               base : Word, strideI : Word, i : Nat, ni : Nat, strideJ : Word, j : Nat]
        BY DEF FSM
      <4> HIDE DEF C
      <4>3. QED
        BY ONLY <2>4, <3>2, <4>1, <4>2, u \in Nat, b \in Word, s \in Word
    <3>5. QED
      BY ONLY <3>3, <3>4
  <2>6. (w.state = "UNKNOWN" => Len(w.confirmed) <= 2) /\ InOrder(w.confirmed, w.updates)
    BY ONLY <1>3, <1>5, <1>d, <2>5, <2>a
  <2>7. FSMType(w, n + 1)
    BY <1>1, <1>3, <1>d, <2>5, <2>6, FSMChange
  <2>8. LinearStep(f, x, w)
    BY ONLY <1>9, <1>b, <1>d, <2>0, <2>1, <2>3, <2>5 DEF LinearStep
  <2>9. QED
    BY ONLY <1>3, <1>c, <2>5, <2>7, <2>8
<1>10. CASE w = Failed(g)
  <2>1. FSMType(Failed(g), n + 1)
    BY <1>3, FailedType
  <2>2. w.state = "FAILURE" /\ w.updates = g.updates /\ w.prev = g.prev
    BY ONLY <1>4, <1>10 DEF Failed, FSM
  <2>3. w \in FSM /\ FSMType(w, n + 1)
    BY ONLY <1>10, <2>1 DEF FSMType
  <2>4. LinearStep(f, x, w)
    BY ONLY <2>2 DEF LinearStep
  <2>5. QED
    BY ONLY <1>3, <1>c, <2>2, <2>3, <2>4
<1>11. QED
  BY ONLY <1>6, <1>7, <1>8, <1>9, <1>10

LEMMA MissLinearStep ==
  ASSUME NEW n \in Nat, NEW f, FSMType(f, n)
  PROVE  \E w \in FSM : /\ w = MissLinear(f) /\ FSMType(w, n + 1)
                        /\ w.updates = f.updates + 1
                        /\ w.state = f.state /\ w.confirmed = f.confirmed
                        /\ w.base = f.base /\ w.strideI = f.strideI
                        /\ f.state = "SUCCESS" => w.i = f.i + 1
<1> DEFINE w == MissLinear(f)
<1>1. f \in FSM /\ f.updates <= n /\ f.i <= n /\ f.j <= n /\ f.ni <= n
      /\ (f.state = "UNKNOWN" => Len(f.confirmed) <= 2) /\ InOrder(f.confirmed, f.updates)
  BY DEF FSMType
<1>2. /\ f.updates \in Nat /\ f.confirmed \in Seq(Nat \X Word) /\ f.prev \in Word
      /\ f.i \in Nat /\ f.base \in Nat /\ f.strideI \in Nat
  BY <1>1, FSMFields, WordType
<1>3. PICK x \in Word : x = NextLinear(f)
  <2>1. f.base + f.strideI * (f.i + 1) \in Int
    BY <1>2
  <2>2. QED
    BY <2>1, WordType DEF NextLinear
<1>4. /\ w \in FSM /\ w.updates = f.updates + 1 /\ w.i \in {f.i, f.i + 1} /\ w.j = f.j
      /\ w.ni = f.ni /\ w.confirmed = f.confirmed /\ w.state = f.state
      /\ w.base = f.base /\ w.strideI = f.strideI
      /\ f.state = "SUCCESS" => w.i = f.i + 1
  <2>1. PICK u \in Nat, v \in Nat : u = f.updates + 1 /\ v = f.i + 1
    BY <1>2
  <2>2. w = IF f.state = "SUCCESS" THEN [f EXCEPT !.updates = u, !.prev = x, !.i = v]
            ELSE [f EXCEPT !.updates = u]
    BY <1>3, <2>1 DEF MissLinear
  <2> HIDE DEF w
  <2>3. QED
    BY ONLY <1>1, <1>3, <2>1, <2>2 DEF FSM
<1> HIDE DEF w
<1>5. (w.state = "UNKNOWN" => Len(w.confirmed) <= 2) /\ InOrder(w.confirmed, w.updates)
  BY <1>1, <1>2, <1>4, StillInOrder
<1>6. FSMType(w, n + 1)
  BY <1>1, <1>4, <1>5, FSMChange
<1>7. QED
  BY <1>4, <1>6 DEF w

(* What a quardric one does.  Its step goes on in a row or to the next one. *)
Stepped(f, w) ==
  IF EndsRow(f) THEN w.i = 0 /\ w.j = f.j + 1 ELSE w.i = f.i + 1 /\ w.j = f.j

SameRows(f, w) ==
  w.base = f.base /\ w.strideI = f.strideI /\ w.ni = f.ni /\ w.strideJ = f.strideJ

QuardricStep(f, x, w) ==
  \/ w.state = "FAILURE"
  \/ /\ f.state = "SUCCESS" /\ x = NextQuardric(f)
     /\ w.state = "SUCCESS" /\ Stepped(f, w) /\ SameRows(f, w)
  \/ /\ f.state = "UNKNOWN" /\ w.state = "UNKNOWN" /\ w.ni = f.ni
     /\ Len(f.confirmed) = 0
     /\ Len(w.confirmed) = 1 /\ w.confirmed[1] = <<f.updates, x>>
  \/ /\ f.state = "UNKNOWN" /\ w.state = "UNKNOWN" /\ w.ni = f.ni
     /\ Len(f.confirmed) = 1
     /\ Len(w.confirmed) = 2 /\ w.confirmed[1] = f.confirmed[1]
     /\ w.confirmed[2] = <<f.updates, x>>
  \/ /\ f.state = "UNKNOWN" /\ w.state = "UNKNOWN" /\ w.ni = f.ni
     /\ Len(f.confirmed) = 2
     /\ Len(w.confirmed) = 2 /\ w.confirmed[1] = f.confirmed[1]
     /\ w.confirmed[2] = <<f.updates, x>>
     /\ (ValDiff(f.confirmed[1], f.confirmed[2]) * IdxDiff(f.confirmed[1], <<f.updates, x>>)) % M
          = (ValDiff(f.confirmed[1], <<f.updates, x>>) * IdxDiff(f.confirmed[1], f.confirmed[2])) % M
  \/ /\ f.state = "UNKNOWN" /\ Len(f.confirmed) = 2
     /\ HasStride(f.confirmed[1], f.confirmed[2])
     /\ w.state = "SUCCESS" /\ w.i = 0 /\ w.j = 1 /\ w.ni = f.updates
     /\ w.base = BaseOf(f.confirmed[1], f.confirmed[2])
     /\ w.strideI = StrideOf(f.confirmed[1], f.confirmed[2])
     /\ w.strideJ = (x - w.base) % M

LEMMA UpdateQuardricStep ==
  ASSUME NEW n \in Nat, NEW f, FSMType(f, n), NEW x \in Word
  PROVE  \E w \in FSM : /\ w = UpdateQuardric(f, x) /\ FSMType(w, n + 1)
                        /\ w.updates = f.updates + 1 /\ w.prev = x
                        /\ QuardricStep(f, x, w)
<1>1. f \in FSM /\ f.updates <= n /\ f.i <= n /\ f.j <= n /\ f.ni <= n
      /\ (f.state = "UNKNOWN" => Len(f.confirmed) <= 2) /\ InOrder(f.confirmed, f.updates)
  BY DEF FSMType
<1>2. /\ f.updates \in Nat /\ f.confirmed \in Seq(Nat \X Word) /\ f.prev \in Word
      /\ f.i \in Nat /\ f.j \in Nat /\ f.state \in States
  BY <1>1, FSMFields
<1>0. PICK g : g = Counted(f, x)
  OBVIOUS
<1>3. /\ FSMType(g, n + 1) /\ g.updates = f.updates + 1 /\ g.prev = x
      /\ g.state = f.state /\ g.confirmed = f.confirmed /\ g.base = f.base
      /\ g.strideI = f.strideI /\ g.i = f.i /\ g.ni = f.ni
      /\ g.strideJ = f.strideJ /\ g.j = f.j
  BY <1>0, CountedType
<1>4. g \in FSM
  BY <1>3 DEF FSMType
<1>d. PICK u \in Nat, fc \in Seq(Nat \X Word) : u = f.updates /\ fc = f.confirmed
  BY <1>2
<1>a. PICK c : c = Append(fc, <<u, x>>)
  OBVIOUS
<1>b. PICK m \in Nat : m = Len(fc)
  OBVIOUS
<1>5. /\ c \in Seq(Nat \X Word) /\ Len(c) = m + 1 /\ DOMAIN c = 1 .. m + 1
      /\ \A k \in 1 .. m : c[k] = fc[k]
      /\ c[m + 1] = <<u, x>>
      /\ \A k \in 1 .. m + 1 : c[k] \in Nat \X Word
      /\ InOrder(c, u + 1)
  <2>1. InOrder(fc, u)
    BY <1>1, <1>d
  <2>2. Extended(fc, u, x, c)
    BY <1>a, <2>1, Extend
  <2>3. QED
    BY ONLY <1>b, <2>2 DEF Extended
<1>e. (f.state = "UNKNOWN" => m \in {0, 1, 2}) /\ Len(c) = m + 1
  <2>1. m = Len(f.confirmed)
    BY ONLY <1>b, <1>d
  <2>2. f.state = "UNKNOWN" => m <= 2
    BY ONLY <1>1, <2>1
  <2>3. m <= 2 => m \in {0, 1, 2}
    BY ONLY m \in Nat
  <2>4. QED
    BY ONLY <1>5, <2>2, <2>3
<1>c. PICK w : w = UpdateQuardric(f, x)
  OBVIOUS
<1>6. w = CASE f.state = "SUCCESS" /\ x = NextQuardric(f) -> StepQuardric(g)
          [] f.state = "UNKNOWN" /\ Len(c) < 3 -> [g EXCEPT !.confirmed = c]
          [] f.state = "UNKNOWN" /\ Len(c) = 3 /\ IsAligned(c) ->
               [g EXCEPT !.confirmed = DropMiddle(c)]
          [] f.state = "UNKNOWN" /\ Len(c) = 3 /\ ~IsAligned(c) /\ HasStride(c[1], c[2]) ->
               StartRows(g, c, x)
          [] OTHER -> Failed(g)
  BY ONLY <1>0, <1>a, <1>c, <1>d DEF UpdateQuardric, Counted
<1>7. CASE f.state = "SUCCESS" /\ x = NextQuardric(f)
  <2>1. PICK a \in Nat, b \in Nat : a = f.i + 1 /\ b = f.j + 1
    BY <1>2
  <2>2. EndsRow(g) <=> EndsRow(f)
    BY ONLY <1>3 DEF EndsRow
  <2>3. w = IF EndsRow(f) THEN [g EXCEPT !.i = 0, !.j = b] ELSE [g EXCEPT !.i = a]
    BY ONLY <1>3, <1>6, <1>7, <2>1, <2>2 DEF StepQuardric
  <2>4. /\ w \in FSM /\ w.updates = g.updates /\ w.ni = g.ni
        /\ w.i = (IF EndsRow(f) THEN 0 ELSE a) /\ w.j = (IF EndsRow(f) THEN b ELSE g.j)
        /\ w.confirmed = g.confirmed /\ w.prev = g.prev /\ w.state = g.state
        /\ w.base = g.base /\ w.strideI = g.strideI /\ w.strideJ = g.strideJ
    BY ONLY <1>4, <2>3, a \in Nat, b \in Nat DEF FSM
  <2>5. (w.state = "UNKNOWN" => Len(w.confirmed) <= 2) /\ InOrder(w.confirmed, w.updates)
    BY ONLY <1>3, <2>4 DEF FSMType
  <2>6. FSMType(w, n + 1)
    BY <1>1, <1>3, <2>1, <2>4, <2>5, FSMChange
  <2>7. QuardricStep(f, x, w)
    BY ONLY <1>3, <1>7, <2>1, <2>4 DEF QuardricStep, Stepped, SameRows
  <2>8. QED
    BY ONLY <1>3, <1>c, <2>4, <2>6, <2>7
<1>8. CASE f.state = "UNKNOWN" /\ m \in {0, 1}
  <2>1. w = [g EXCEPT !.confirmed = c]
    <3>a. Len(c) < 3 /\ f.state = "UNKNOWN" /\ Len(c) = m + 1 /\ m + 1 # 3
      BY ONLY <1>e, <1>8
    <3>1. Len(c) < 3 /\ f.state # "SUCCESS" /\ f.state = "UNKNOWN" /\ Len(c) # 3
      BY ONLY <3>a
    <3>2. QED
      BY ONLY <1>6, <3>1
  <2>2. /\ w \in FSM /\ w.updates = g.updates /\ w.i = g.i /\ w.j = g.j /\ w.ni = g.ni
        /\ w.confirmed = c /\ w.prev = g.prev /\ w.state = g.state
    <3>1. c \in Seq(Nat \X Word)
      BY ONLY <1>5
    <3>2. QED
      BY ONLY <1>4, <2>1, <3>1 DEF FSM
  <2>3. (w.state = "UNKNOWN" => Len(w.confirmed) <= 2) /\ InOrder(w.confirmed, w.updates)
    BY ONLY <1>3, <1>5, <1>8, <1>d, <1>e, <2>2
  <2>4. FSMType(w, n + 1)
    BY <1>1, <1>3, <2>2, <2>3, FSMChange
  <2>5. QuardricStep(f, x, w)
    <3>1. CASE m = 0
      BY ONLY <1>3, <1>5, <1>8, <1>b, <1>d, <1>e, <2>2, <3>1 DEF QuardricStep
    <3>2. CASE m = 1
      <4>1. m + 1 = 2 /\ 1 \in 1 .. m
        BY ONLY <3>2
      <4>2. Len(c) = 2 /\ c[1] = fc[1] /\ c[2] = <<u, x>>
        BY ONLY <1>5, <4>1
      <4>3. QED
        BY ONLY <1>3, <1>8, <1>b, <1>d, <2>2, <3>2, <4>2 DEF QuardricStep
    <3>3. QED
      BY <1>8, <3>1, <3>2
  <2>6. QED
    BY ONLY <1>3, <1>c, <2>2, <2>4, <2>5
<1>f. ASSUME m = 2
      PROVE  /\ Len(c) = 3 /\ ~ Len(c) < 3
             /\ c[1] = fc[1] /\ c[2] = fc[2] /\ c[3] = <<u, x>>
             /\ c[1] \in Nat \X Word /\ c[2] \in Nat \X Word /\ c[3] \in Nat \X Word
             /\ c[1][1] < c[2][1] /\ c[2][1] < c[3][1] /\ c[1][1] < c[3][1]
             /\ c[1][1] < u + 1 /\ c[3][1] < u + 1
  <2>1. 1 \in DOMAIN c /\ 2 \in DOMAIN c /\ 3 \in DOMAIN c /\ 1 \in 1 .. m /\ 2 \in 1 .. m
        /\ m + 1 = 3
    BY ONLY <1>5, <1>f
  <2>2. Len(c) = 3 /\ ~ Len(c) < 3
    BY ONLY <1>e, <2>1
  <2>3. c[1] = fc[1] /\ c[2] = fc[2] /\ c[3] = <<u, x>>
    BY ONLY <1>5, <2>1
  <2>4. c[1] \in Nat \X Word /\ c[2] \in Nat \X Word /\ c[3] \in Nat \X Word
    BY ONLY <1>5, <2>1
  <2>5. c[1][1] < c[2][1] /\ c[2][1] < c[3][1] /\ c[1][1] < c[3][1]
        /\ c[1][1] < u + 1 /\ c[3][1] < u + 1
    BY ONLY <1>5, <2>1, 1 < 2, 2 < 3, 1 < 3 DEF InOrder
  <2>6. QED
    BY ONLY <2>2, <2>3, <2>4, <2>5
<1>9. CASE f.state = "UNKNOWN" /\ m = 2 /\ IsAligned(c)
  <2>1. PICK d : d = DropMiddle(c)
    OBVIOUS
  <2>2. d = <<c[1], c[3]>>
    BY <2>1 DEF DropMiddle
  <2>3. /\ d \in Seq(Nat \X Word) /\ Len(d) = 2 /\ DOMAIN d = {1, 2}
        /\ d[1] = c[1] /\ d[2] = c[3]
    BY ONLY <1>9, <1>f, <2>2
  <2>4. w = [g EXCEPT !.confirmed = d]
    BY ONLY <1>6, <1>9, <1>f, <2>1
  <2>5. /\ w \in FSM /\ w.updates = g.updates /\ w.i = g.i /\ w.j = g.j /\ w.ni = g.ni
        /\ w.confirmed = d /\ w.prev = g.prev /\ w.state = g.state
    <3>1. d \in Seq(Nat \X Word)
      BY ONLY <2>3
    <3>2. QED
      BY ONLY <1>4, <2>4, <3>1 DEF FSM
  <2>6. InOrder(d, u + 1)
    <3>1. \A k \in DOMAIN d : k = 1 \/ k = 2
      BY ONLY <2>3
    <3>2. \A k, l \in DOMAIN d : k < l => k = 1 /\ l = 2
      BY ONLY <2>3
    <3>3. QED
      BY ONLY <1>9, <1>f, <2>3, <3>1, <3>2 DEF InOrder
  <2>7. (w.state = "UNKNOWN" => Len(w.confirmed) <= 2) /\ InOrder(w.confirmed, w.updates)
    <3>1. w.updates = u + 1
      BY ONLY <1>3, <1>d, <2>5
    <3>2. Len(w.confirmed) = 2
      BY ONLY <2>3, <2>5
    <3>3. QED
      BY ONLY <2>5, <2>6, <3>1, <3>2
  <2>8. FSMType(w, n + 1)
    BY <1>1, <1>3, <2>5, <2>7, FSMChange
  <2>9. QuardricStep(f, x, w)
    <3>1. (ValDiff(c[1], c[2]) * IdxDiff(c[1], c[3])) % M
            = (ValDiff(c[1], c[3]) * IdxDiff(c[1], c[2])) % M
      BY ONLY <1>9 DEF IsAligned
    <3>2. QED
      BY ONLY <1>3, <1>9, <1>b, <1>d, <1>f, <2>3, <2>5, <3>1 DEF QuardricStep
  <2>10. QED
    BY ONLY <1>3, <1>c, <2>5, <2>8, <2>9
<1>10. CASE f.state = "UNKNOWN" /\ m = 2 /\ ~ IsAligned(c) /\ HasStride(c[1], c[2])
  <2>1. PICK b \in Word, s \in Word : b = BaseOf(c[1], c[2]) /\ s = StrideOf(c[1], c[2])
    BY <1>10, <1>f, LineType
  <2>2. PICK t \in Word : t = (x - b) % M
    <3>1. x - b \in Int
      BY WordType
    <3>2. QED
      BY <3>1, WordType
  <2>3. g.updates - 1 = u
    BY ONLY <1>3, <1>d, u \in Nat
  <2>4. w = [g EXCEPT !.state = "SUCCESS", !.confirmed = c, !.i = 0, !.j = 1, !.ni = u,
                      !.base = b, !.strideI = s, !.strideJ = t]
    <3>1. ~ Len(c) < 3 /\ Len(c) = 3 /\ f.state # "SUCCESS"
      BY ONLY <1>10, <1>f
    <3>2. w = StartRows(g, c, x)
      BY ONLY <1>6, <1>10, <3>1
    <3>3. QED
      BY ONLY <2>1, <2>2, <2>3, <3>2 DEF StartRows
  <2>5. /\ w \in FSM /\ w.updates = g.updates /\ w.i = 0 /\ w.j = 1 /\ w.ni = u
        /\ w.confirmed = c /\ w.prev = g.prev /\ w.state = "SUCCESS"
        /\ w.base = b /\ w.strideI = s /\ w.strideJ = t
    <3>1. c \in Seq(Nat \X Word)
      BY ONLY <1>5
    <3>2. "SUCCESS" \in States
      BY DEF States
    <3>3. /\ DOMAIN w = DOMAIN g /\ w.updates = g.updates /\ w.i = 0 /\ w.j = 1
          /\ w.ni = u /\ w.confirmed = c /\ w.prev = g.prev /\ w.state = "SUCCESS"
          /\ w.base = b /\ w.strideI = s /\ w.strideJ = t
      BY ONLY <1>4, <2>4 DEF FSM
    <3>4. w \in FSM
      <4> DEFINE C == Seq(Nat \X Word)
      <4>1. /\ c \in C /\ g \in [state : States, updates : Nat, prev : Word, confirmed : C,
               base : Word, strideI : Word, i : Nat, ni : Nat, strideJ : Word, j : Nat]
        BY ONLY <1>4, <3>1 DEF FSM
      <4>2. FSM = [state : States, updates : Nat, prev : Word, confirmed : C,
               base : Word, strideI : Word, i : Nat, ni : Nat, strideJ : Word, j : Nat]
        BY DEF FSM
      <4> HIDE DEF C
      <4>3. QED
        BY ONLY <2>4, <3>2, <4>1, <4>2, u \in Nat, b \in Word, s \in Word, t \in Word
    <3>5. QED
      BY ONLY <3>3, <3>4
  <2>6. FSMType(w, n + 1)
    <3>1. u <= n /\ w.updates = u + 1 /\ InOrder(w.confirmed, w.updates)
      BY ONLY <1>1, <1>3, <1>5, <1>d, <2>5
    <3>2. w.i <= n + 1 /\ w.j <= n + 1 /\ w.ni <= n + 1 /\ w.updates <= n + 1
      BY ONLY <2>5, <3>1, n \in Nat, u \in Nat
    <3>3. QED
      BY ONLY <2>5, <3>1, <3>2 DEF FSMType
  <2>7. QuardricStep(f, x, w)
    BY ONLY <1>10, <1>b, <1>d, <1>f, <2>1, <2>2, <2>5 DEF QuardricStep
  <2>8. QED
    BY ONLY <1>3, <1>c, <2>5, <2>6, <2>7
<1>11. CASE w = Failed(g)
  <2>1. FSMType(Failed(g), n + 1)
    BY <1>3, FailedType
  <2>2. w.state = "FAILURE" /\ w.updates = g.updates /\ w.prev = g.prev
    BY ONLY <1>4, <1>11 DEF Failed, FSM
  <2>3. w \in FSM /\ FSMType(w, n + 1)
    BY ONLY <1>11, <2>1 DEF FSMType
  <2>4. QuardricStep(f, x, w)
    BY ONLY <2>2 DEF QuardricStep
  <2>5. QED
    BY ONLY <1>3, <1>c, <2>2, <2>3, <2>4
<1>12. CASE f.state = "UNKNOWN"
  <2>1. m \in {0, 1, 2}
    BY ONLY <1>e, <1>12
  <2>2. CASE m = 2 /\ ~ IsAligned(c) /\ ~ HasStride(c[1], c[2])
    <3>1. ~ Len(c) < 3
      BY ONLY <1>f, <2>2
    <3>2. w = Failed(g)
      BY ONLY <1>6, <1>12, <2>2, <3>1
    <3>3. QED
      BY ONLY <1>11, <3>2
  <2>3. QED
    BY ONLY <1>8, <1>9, <1>10, <1>12, <2>1, <2>2
<1>13. CASE f.state # "UNKNOWN" /\ ~ (f.state = "SUCCESS" /\ x = NextQuardric(f))
  <2>1. w = Failed(g)
    BY ONLY <1>6, <1>13
  <2>2. QED
    BY ONLY <1>11, <2>1
<1>14. QED
  BY ONLY <1>7, <1>12, <1>13

LEMMA MissQuardricStep ==
  ASSUME NEW n \in Nat, NEW f, FSMType(f, n)
  PROVE  \E w \in FSM : /\ w = MissQuardric(f) /\ FSMType(w, n + 1)
                        /\ w.updates = f.updates + 1
                        /\ w.state = f.state /\ w.confirmed = f.confirmed
                        /\ SameRows(f, w)
                        /\ f.state = "SUCCESS" => Stepped(f, w)
<1>1. f \in FSM /\ f.updates <= n /\ f.i <= n /\ f.j <= n /\ f.ni <= n
      /\ (f.state = "UNKNOWN" => Len(f.confirmed) <= 2) /\ InOrder(f.confirmed, f.updates)
  BY DEF FSMType
<1>2. /\ f.updates \in Nat /\ f.confirmed \in Seq(Nat \X Word) /\ f.prev \in Word
      /\ f.i \in Nat /\ f.j \in Nat /\ f.base \in Nat /\ f.strideI \in Nat /\ f.strideJ \in Nat
  BY <1>1, FSMFields, WordType
<1>3. PICK x \in Word : x = NextQuardric(f)
  <2>0. \A b, si, i, j, sj \in Nat :
          b + (j + 1) * sj \in Int /\ b + j * sj + (i + 1) * si \in Int
    OBVIOUS
  <2>1. f.base + (f.j + 1) * f.strideJ \in Int
        /\ f.base + f.j * f.strideJ + (f.i + 1) * f.strideI \in Int
    BY ONLY <1>2, <2>0
  <2>2. QED
    BY <2>1, WordType DEF NextQuardric
<1>4. PICK w : w = MissQuardric(f)
  OBVIOUS
<1>5. PICK u \in Nat, a \in Nat, b \in Nat : u = f.updates + 1 /\ a = f.i + 1 /\ b = f.j + 1
  <2>1. f.updates + 1 \in Nat /\ f.i + 1 \in Nat /\ f.j + 1 \in Nat
    BY ONLY <1>2
  <2>2. QED
    BY ONLY <2>1, Zenon
<1>6. PICK g : g = [f EXCEPT !.updates = u, !.prev = x]
  OBVIOUS
<1>7. /\ g \in FSM /\ g.updates = u /\ g.i = f.i /\ g.j = f.j /\ g.ni = f.ni
      /\ g.confirmed = f.confirmed /\ g.state = f.state /\ SameRows(f, g)
  BY ONLY <1>1, <1>6, x \in Word, u \in Nat DEF FSM, SameRows
<1>8. CASE f.state = "SUCCESS"
  <2>1. w = StepQuardric(g)
    BY ONLY <1>3, <1>4, <1>5, <1>6, <1>8 DEF MissQuardric
  <2>2. EndsRow(g) <=> EndsRow(f)
    BY ONLY <1>7 DEF EndsRow
  <2>3. w = IF EndsRow(f) THEN [g EXCEPT !.i = 0, !.j = b] ELSE [g EXCEPT !.i = a]
    BY ONLY <1>5, <1>7, <2>1, <2>2 DEF StepQuardric
  <2>4. /\ w \in FSM /\ w.updates = g.updates /\ w.ni = g.ni
        /\ w.i = (IF EndsRow(f) THEN 0 ELSE a) /\ w.j = (IF EndsRow(f) THEN b ELSE g.j)
        /\ w.confirmed = g.confirmed /\ w.state = g.state
        /\ w.base = g.base /\ w.strideI = g.strideI /\ w.strideJ = g.strideJ
    BY ONLY <1>7, <2>3, a \in Nat, b \in Nat DEF FSM
  <2>5. (w.state = "UNKNOWN" => Len(w.confirmed) <= 2) /\ InOrder(w.confirmed, w.updates)
    BY <1>1, <1>2, <1>5, <1>7, <2>4, StillInOrder
  <2>6. FSMType(w, n + 1)
    BY <1>1, <1>5, <1>7, <2>4, <2>5, FSMChange
  <2>7. Stepped(f, w) /\ SameRows(f, w)
    BY ONLY <1>5, <1>7, <2>4 DEF Stepped, SameRows
  <2>8. QED
    BY ONLY <1>4, <1>5, <1>7, <1>8, <2>4, <2>6, <2>7
<1>9. CASE f.state # "SUCCESS"
  <2>1. w = [f EXCEPT !.updates = u]
    BY ONLY <1>4, <1>5, <1>9 DEF MissQuardric
  <2>2. /\ w \in FSM /\ w.updates = u /\ w.i = f.i /\ w.j = f.j /\ w.ni = f.ni
        /\ w.confirmed = f.confirmed /\ w.state = f.state /\ SameRows(f, w)
    BY ONLY <1>1, <2>1, u \in Nat DEF FSM, SameRows
  <2>3. (w.state = "UNKNOWN" => Len(w.confirmed) <= 2) /\ InOrder(w.confirmed, w.updates)
    BY <1>1, <1>2, <1>5, <2>2, StillInOrder
  <2>4. FSMType(w, n + 1)
    BY <1>1, <1>5, <2>2, <2>3, FSMChange
  <2>5. QED
    BY ONLY <1>4, <1>5, <1>9, <2>2, <2>4
<1>10. QED
  BY <1>8, <1>9

-----------------------------------------------------------------------------
(* What the parameters of a state machine say of the values it has seen.    *)
(* They are points <<step, value>>, of N steps; a step without a value has  *)
(* no point.                                                                *)

Sees(P, N) == P \subseteq Nat \X Word /\ \A q \in P : q[1] < N

ConstOK(f, P) ==
  /\ f.state = "UNKNOWN" => P = {}
  /\ f.state = "SUCCESS" => \A q \in P : q[2] = f.prev

OnLineOf(f, P) == \A q \in P : (f.base + f.strideI * q[1]) % M = q[2]

LinearOK(f, P, N) ==
  f.state # "FAILURE" =>
    /\ f.updates = N
    /\ f.state = "UNKNOWN" =>
         /\ Len(f.confirmed) = 0 \/ Len(f.confirmed) = 1
         /\ Len(f.confirmed) = 0 => P = {}
         /\ Len(f.confirmed) = 1 => P = {f.confirmed[1]}
    /\ f.state = "SUCCESS" => f.i = N - 1 /\ OnLineOf(f, P)

(* The condition of RowsKnown. *)
Smooth(P, n) ==
  \A q, r \in P : q[1] < r[1] => q[2] <= r[2] /\ (r[2] - q[2]) * n < M

(* Every point is on the line from r to s. *)
Between(P, r, s) == \A q \in P : (q[2] - r[2]) * (s[1] - r[1]) = (s[2] - r[2]) * (q[1] - r[1])

FirstRow(P, ni) == {q \in P : q[1] < ni}

InRowsOf(f, P) ==
  \A q \in P : (f.base + f.strideI * (q[1] % f.ni) + f.strideJ * (q[1] \div f.ni)) % M = q[2]

QuardricOK(f, P, N) ==
  f.state # "FAILURE" =>
    /\ f.updates = N
    /\ f.state = "UNKNOWN" =>
         /\ f.ni = 0
         /\ Len(f.confirmed) = 0 => P = {}
         /\ Len(f.confirmed) = 1 => P = {f.confirmed[1]}
         /\ Len(f.confirmed) = 2 =>
              /\ f.confirmed[1] \in P /\ f.confirmed[2] \in P
              /\ \A n \in Nat : n >= N /\ Smooth(P, n) =>
                   Between(P, f.confirmed[1], f.confirmed[2])
    /\ f.state = "SUCCESS" =>
         /\ f.ni # 0 /\ f.i = (N - 1) % f.ni /\ f.j = (N - 1) \div f.ni
         /\ Smooth(FirstRow(P, f.ni), f.ni) => InRowsOf(f, P)

(* A line through two points that HasStride really goes through them. *)
LEMMA LineThrough ==
  ASSUME NEW r \in Nat \X Word, NEW s \in Nat \X Word, r[1] < s[1], HasStride(r, s)
  PROVE  /\ ValDiff(r, s) = IdxDiff(r, s) * StrideOf(r, s)
         /\ (BaseOf(r, s) + StrideOf(r, s) * r[1]) % M = r[2]
         /\ (BaseOf(r, s) + StrideOf(r, s) * s[1]) % M = s[2]
<1>1. PICK a \in Nat, b \in Nat, x \in Word, y \in Word :
        a = r[1] /\ b = s[1] /\ x = r[2] /\ y = s[2]
  OBVIOUS
<1>2. PICK d \in Nat \ {0}, v \in Word, t \in Word :
        d = IdxDiff(r, s) /\ v = ValDiff(r, s) /\ t = StrideOf(r, s)
  BY LineType
<1>3. M \in Nat \ {0} /\ v \in Nat /\ t \in Nat /\ x \in 0 .. M - 1 /\ y \in 0 .. M - 1
      /\ x \in Nat /\ y \in Nat
  BY WordType DEF Word
<1>4. v % d = 0 /\ t = v \div d
  BY ONLY <1>2, HasStride(r, s) DEF HasStride, StrideOf
<1>5. v = d * t
  <2>1. v = d * (v \div d) + (v % d)
    BY <1>3, DivMod
  <2>2. QED
    BY ONLY <1>2, <1>3, <1>4, <2>1
<1>6. b - a = d /\ v = (y - x) % M
  BY ONLY <1>1, <1>2, LineType, r \in Nat \X Word, s \in Nat \X Word, r[1] < s[1]
  DEF ValDiff, IdxDiff
<1>7. PICK e \in Int : e = x - a * t
  BY <1>3
<1>8. BaseOf(r, s) = e % M
  BY ONLY <1>1, <1>2, <1>7 DEF BaseOf
<1>9. ((e % M) + t * a) % M = x
  <2>1. PICK g \in Int : g = t * a
    BY <1>3
  <2>2. ((e % M) + g) % M = (e + g) % M
    BY <1>3, ModPlus
  <2>3. e + g = x
    BY ONLY <1>3, <1>7, <2>1, a \in Nat
  <2>4. x % M = x
    BY <1>3, ModSmall
  <2>5. QED
    BY ONLY <2>1, <2>2, <2>3, <2>4
<1>10. ((e % M) + t * b) % M = y
  <2>1. PICK g \in Int : g = t * b
    BY <1>3
  <2>2. ((e % M) + g) % M = (e + g) % M
    BY <1>3, ModPlus
  <2>3. b = a + d /\ t * b = t * a + d * t
    BY ONLY <1>2, <1>3, <1>6, a \in Nat, b \in Nat
  <2>4. e + g = v + x
    <3>1. PICK k \in Int, l \in Int : k = t * a /\ l = d * t
      BY <1>3
    <3>2. e = x - k
      BY ONLY <1>3, <1>7, <3>1, a \in Nat
    <3>3. g = k + l /\ v = l
      BY ONLY <1>5, <2>1, <2>3, <3>1
    <3>4. QED
      BY ONLY <1>3, <3>2, <3>3, k \in Int, l \in Int
  <2>5. (((y - x) % M) + x) % M = ((y - x) + x) % M
    <3>1. PICK h \in Int, z \in Int : h = y - x /\ z = x
      BY <1>3
    <3>2. ((h % M) + z) % M = (h + z) % M
      BY <1>3, ModPlus
    <3>3. QED
      BY ONLY <3>1, <3>2
  <2>6. (y - x) + x = y
    BY ONLY <1>3
  <2>7. y % M = y
    BY <1>3, ModSmall
  <2>8. QED
    BY ONLY <1>6, <2>1, <2>2, <2>4, <2>5, <2>6, <2>7
<1>11. QED
  BY ONLY <1>1, <1>2, <1>5, <1>8, <1>9, <1>10

(* A step more. *)
LEMMA SeesMore ==
  ASSUME NEW P, NEW N \in Nat, NEW x \in Word, Sees(P, N)
  PROVE  Sees(P, N + 1) /\ Sees(P \cup {<<N, x>>}, N + 1)
<1>1. \A q \in P : q \in Nat \X Word /\ q[1] < N
  BY DEF Sees
<1>2. \A q \in P : q[1] \in Nat
  BY <1>1
<1>3. \A q \in P : q[1] < N + 1
  BY ONLY <1>1, <1>2, N \in Nat
<1>4. <<N, x>> \in Nat \X Word /\ <<N, x>>[1] < N + 1
  OBVIOUS
<1>5. QED
  BY ONLY <1>1, <1>3, <1>4 DEF Sees

LEMMA ConstUpdateOK ==
  ASSUME NEW n \in Nat, NEW f, FSMType(f, n), NEW P, NEW N, NEW x \in Word,
         f.state # "FAILURE", ConstOK(f, P)
  PROVE  ConstOK(UpdateConst(f, x), P \cup {<<N, x>>})
<1>1. f \in FSM /\ f.state \in {"UNKNOWN", "SUCCESS"}
  BY FSMFields DEF FSMType, States
<1>2. PICK w : w = UpdateConst(f, x)
  OBVIOUS
<1>3. /\ w.prev = (IF f.state = "UNKNOWN" THEN x ELSE f.prev)
      /\ w.state = (IF f.state = "SUCCESS" /\ f.prev # x THEN "FAILURE" ELSE "SUCCESS")
  BY ONLY <1>1, <1>2 DEF UpdateConst, FSM
<1>4. ConstOK(w, P \cup {<<N, x>>})
  BY ONLY <1>1, <1>3, ConstOK(f, P) DEF ConstOK
<1>5. QED
  BY ONLY <1>2, <1>4

LEMMA LinearUpdateOK ==
  ASSUME NEW n \in Nat, NEW f, FSMType(f, n), NEW N \in Nat, NEW P, Sees(P, N),
         NEW x \in Word, f.state # "FAILURE", LinearOK(f, P, N)
  PROVE  LinearOK(UpdateLinear(f, x), P \cup {<<N, x>>}, N + 1)
<1> DEFINE Q == P \cup {<<N, x>>}
<1>1. PICK w \in FSM : /\ w = UpdateLinear(f, x) /\ w.updates = f.updates + 1
                       /\ LinearStep(f, x, w)
  BY UpdateLinearStep
<1>2. f \in FSM /\ f.updates = N /\ w.updates = N + 1
  BY ONLY <1>1, FSMType(f, n), f.state # "FAILURE", LinearOK(f, P, N) DEF FSMType, LinearOK
<1>3. CASE w.state = "FAILURE"
  BY <1>1, <1>3 DEF LinearOK
<1>4. CASE /\ f.state = "SUCCESS" /\ x = NextLinear(f)
           /\ w.state = "SUCCESS" /\ w.i = f.i + 1
           /\ w.base = f.base /\ w.strideI = f.strideI
  <2>1. f.i = N - 1 /\ OnLineOf(f, P)
    BY ONLY <1>4, LinearOK(f, P, N) DEF LinearOK
  <2>2. w.i = N + 1 - 1 /\ f.i + 1 = N
    BY ONLY <1>4, <2>1, N \in Nat
  <2>3. (f.base + f.strideI * N) % M = x
    BY ONLY <1>4, <2>2 DEF NextLinear
  <2>4. OnLineOf(w, Q)
    BY ONLY <1>4, <2>1, <2>3 DEF OnLineOf
  <2>5. LinearOK(w, Q, N + 1)
    BY ONLY <1>2, <1>4, <2>2, <2>4 DEF LinearOK
  <2>6. QED
    BY ONLY <1>1, <2>5
<1>5. CASE /\ f.state = "UNKNOWN" /\ Len(f.confirmed) = 0
           /\ w.state = "UNKNOWN" /\ Len(w.confirmed) = 1 /\ w.confirmed[1] = <<f.updates, x>>
  <2>1. P = {}
    BY ONLY <1>5, LinearOK(f, P, N) DEF LinearOK
  <2>2. Q = {w.confirmed[1]}
    BY ONLY <1>2, <1>5, <2>1
  <2>3. LinearOK(w, Q, N + 1)
    BY ONLY <1>2, <1>5, <2>2 DEF LinearOK
  <2>4. QED
    BY ONLY <1>1, <2>3
<1>6. CASE /\ f.state = "UNKNOWN" /\ Len(f.confirmed) = 1
           /\ HasStride(f.confirmed[1], <<f.updates, x>>)
           /\ w.state = "SUCCESS" /\ w.i = f.updates
           /\ w.base = BaseOf(f.confirmed[1], <<f.updates, x>>)
           /\ w.strideI = StrideOf(f.confirmed[1], <<f.updates, x>>)
  <2>1. PICK r : r = f.confirmed[1]
    OBVIOUS
  <2>2. P = {r}
    BY ONLY <1>6, <2>1, LinearOK(f, P, N) DEF LinearOK
  <2>3. r \in Nat \X Word /\ r[1] < N
    BY ONLY <2>2, Sees(P, N) DEF Sees
  <2>4. PICK s \in Nat \X Word : s = <<N, x>> /\ s[1] = N /\ s[2] = x
    <3>1. <<N, x>> \in Nat \X Word /\ <<N, x>>[1] = N /\ <<N, x>>[2] = x
      OBVIOUS
    <3>2. QED
      BY ONLY <3>1, Zenon
  <2>5. HasStride(r, s) /\ w.base = BaseOf(r, s) /\ w.strideI = StrideOf(r, s)
    BY ONLY <1>2, <1>6, <2>1, <2>4
  <2>6. /\ (BaseOf(r, s) + StrideOf(r, s) * r[1]) % M = r[2]
        /\ (BaseOf(r, s) + StrideOf(r, s) * s[1]) % M = s[2]
    BY <2>3, <2>4, <2>5, LineThrough
  <2>7. OnLineOf(w, Q)
    BY ONLY <2>2, <2>4, <2>5, <2>6 DEF OnLineOf
  <2>8. w.i = N + 1 - 1
    BY ONLY <1>2, <1>6, N \in Nat
  <2>9. LinearOK(w, Q, N + 1)
    BY ONLY <1>2, <1>6, <2>7, <2>8 DEF LinearOK
  <2>10. QED
    BY ONLY <1>1, <2>9
<1>7. QED
  BY ONLY <1>1, <1>3, <1>4, <1>5, <1>6 DEF LinearStep

LEMMA LinearMissOK ==
  ASSUME NEW n \in Nat, NEW f, FSMType(f, n), NEW N \in Nat, NEW P, LinearOK(f, P, N)
  PROVE  LinearOK(MissLinear(f), P, N + 1)
<1>1. PICK w \in FSM : /\ w = MissLinear(f) /\ w.updates = f.updates + 1
                       /\ w.state = f.state /\ w.confirmed = f.confirmed
                       /\ w.base = f.base /\ w.strideI = f.strideI
                       /\ f.state = "SUCCESS" => w.i = f.i + 1
  BY MissLinearStep
<1>2. f.state = "SUCCESS" => f.i = N - 1 /\ w.i = N + 1 - 1
  <2>1. f.state = "SUCCESS" => f.i = N - 1
    BY ONLY LinearOK(f, P, N) DEF LinearOK
  <2>2. QED
    BY ONLY <1>1, <2>1, N \in Nat
<1>3. OnLineOf(f, P) <=> OnLineOf(w, P)
  BY ONLY <1>1 DEF OnLineOf
<1>4. LinearOK(w, P, N + 1)
  BY ONLY <1>1, <1>2, <1>3, LinearOK(f, P, N) DEF LinearOK
<1>5. QED
  BY ONLY <1>1, <1>4

(* Where the next step is in rows of ni. *)
NextAt(N, ni, i, j) ==
  /\ i \in Nat /\ j \in Int
  /\ i + 1 = ni => N % ni = 0 /\ N \div ni = j + 1
  /\ i + 1 # ni => N % ni = i + 1 /\ N \div ni = j

LEMMA NextPosition ==
  ASSUME NEW N \in Nat, NEW ni \in Nat \ {0}
  PROVE  NextAt(N, ni, (N - 1) % ni, (N - 1) \div ni)
<1> PICK i, j : i = (N - 1) % ni /\ j = (N - 1) \div ni
  OBVIOUS
<1>1. PICK a \in Int : a = N - 1
  OBVIOUS
<1>2. i \in 0 .. ni - 1 /\ j \in Int /\ a = ni * j + i
  BY <1>1, DivMod
<1>3. ASSUME i + 1 = ni PROVE N % ni = 0 /\ N \div ni = j + 1
  <2>1. N = ni * (j + 1) + 0
    BY ONLY <1>1, <1>2, <1>3, N \in Nat, ni \in Nat \ {0}
  <2>2. 0 \in 0 .. ni - 1 /\ j + 1 \in Int /\ N \in Int
    BY <1>2
  <2>3. QED
    BY <2>1, <2>2, DivModUnique
<1>4. ASSUME i + 1 # ni PROVE N % ni = i + 1 /\ N \div ni = j
  <2>1. PICK k \in 0 .. ni - 1 : k = i + 1
    BY <1>2, <1>4
  <2>2. N = ni * j + k
    BY ONLY <1>1, <1>2, <2>1, N \in Nat, ni \in Nat \ {0}
  <2>3. N % ni = k /\ N \div ni = j
    BY ONLY <1>2, <2>2, k \in 0 .. ni - 1, ni \in Nat \ {0}, N \in Nat, Nat \subseteq Int,
       DivModUnique
  <2>4. QED
    BY ONLY <2>1, <2>3
<1>5. NextAt(N, ni, i, j)
  BY ONLY <1>2, <1>3, <1>4, i \in 0 .. ni - 1 => i \in Nat DEF NextAt
<1>6. QED
  BY <1>5

(* If one point is on the line to a second, and that on the line to a third, *)
(* the first is on the line to the third.                                   *)
LEMMA AlignedChain ==
  ASSUME NEW a \in Int, NEW b \in Int, NEW e \in Int, NEW d \in Nat \ {0}, NEW h \in Int,
         NEW k \in Int, a * d = b * k, b * h = e * d
  PROVE  a * h = e * k
<1>1. (a * h) * d = (a * d) * h
  BY ONLY a \in Int, d \in Nat \ {0}, h \in Int
<1>2. (b * k) * h = (b * h) * k
  BY ONLY b \in Int, k \in Int, h \in Int
<1>3. (e * d) * k = (e * k) * d
  BY ONLY e \in Int, d \in Nat \ {0}, k \in Int
<1>4. PICK u \in Int, v \in Int : u = a * h /\ v = e * k
  OBVIOUS
<1>5. u * d = v * d
  BY ONLY <1>1, <1>2, <1>3, <1>4, a * d = b * k, b * h = e * d
<1>6. u = v
  BY <1>5, Cancel
<1>7. QED
  BY <1>4, <1>6

(* On a small enough difference, IsAligned is exact. *)
LEMMA AlignedExact ==
  ASSUME NEW x1 \in Word, NEW x2 \in Word, NEW x3 \in Word,
         NEW d \in Nat, NEW h \in Nat, NEW n \in Nat, d <= n, h <= n,
         x1 <= x2, x1 <= x3, (x2 - x1) * n < M, (x3 - x1) * n < M,
         (((x2 - x1) % M) * h) % M = (((x3 - x1) % M) * d) % M
  PROVE  (x2 - x1) * h = (x3 - x1) * d
<1>1. M \in Nat \ {0} /\ x1 \in Nat /\ x2 \in Nat /\ x3 \in Nat
      /\ x1 < M /\ x2 < M /\ x3 < M
  BY WordType
<1>2. PICK a \in 0 .. M - 1, b \in 0 .. M - 1 : a = x2 - x1 /\ b = x3 - x1
  BY <1>1
<1>3. a % M = a /\ b % M = b
  BY <1>1, ModSmall
<1>4. \A y \in Nat, z \in Nat, m \in Nat : z <= m => y * z <= y * m
  <2> SUFFICES ASSUME NEW y \in Nat, NEW z \in Nat, NEW m \in Nat, z <= m
               PROVE  y * z <= y * m
    OBVIOUS
  <2>1. PICK e \in Nat : m = z + e
    BY z + (m - z) = m
  <2>2. y * m = y * z + y * e /\ y * e >= 0
    BY ONLY <2>1, y \in Nat, z \in Nat, e \in Nat
  <2>3. PICK u \in Int, v \in Int : u = y * z /\ v = y * e
    OBVIOUS
  <2>4. QED
    BY <2>2, <2>3
<1>5. a \in Nat /\ b \in Nat
  BY <1>1
<1>6. PICK p \in Nat, q \in Nat, r \in Nat, s \in Nat :
        p = a * h /\ q = b * d /\ r = a * n /\ s = b * n
  BY <1>5
<1>7. p <= r /\ q <= s /\ r < M /\ s < M
  BY ONLY <1>2, <1>4, <1>5, <1>6, d <= n, h <= n, d \in Nat, h \in Nat, n \in Nat,
     (x2 - x1) * n < M, (x3 - x1) * n < M
<1>8. p \in 0 .. M - 1 /\ q \in 0 .. M - 1
  BY ONLY <1>1, <1>7, p \in Nat, q \in Nat, r \in Nat, s \in Nat
<1>9. p % M = p /\ q % M = q
  BY <1>1, <1>8, ModSmall
<1>10. p % M = q % M
  BY ONLY <1>2, <1>3, <1>6, (((x2 - x1) % M) * h) % M = (((x3 - x1) % M) * d) % M
<1>11. QED
  BY ONLY <1>2, <1>6, <1>9, <1>10

(* A third value on the line replaces the second. *)
LEMMA StillBetween ==
  ASSUME NEW P, NEW N \in Nat, Sees(P, N), NEW r \in P, NEW s \in P, r[1] < s[1],
         NEW x \in Word, NEW t, t = <<N, x>>,
         (ValDiff(r, s) * IdxDiff(r, t)) % M = (ValDiff(r, t) * IdxDiff(r, s)) % M,
         NEW n \in Nat, n >= N + 1, Smooth(P \cup {t}, n), Between(P, r, s)
  PROVE  Between(P \cup {t}, r, t)
<1>1. /\ \A q \in P : q \in Nat \X Word /\ q[1] < N /\ q[1] \in Nat /\ q[2] \in Word
      /\ t[1] = N /\ t[2] = x
  BY DEF Sees
<1>2. PICK p1 \in Nat, p2 \in Nat, x1 \in Word, x2 \in Word :
        p1 = r[1] /\ p2 = s[1] /\ x1 = r[2] /\ x2 = s[2]
  BY <1>1
<1>3. x1 \in Nat /\ x2 \in Nat /\ x \in Nat
  BY WordType
<1>4. p1 < p2 /\ p2 < N
  BY ONLY <1>1, <1>2, r[1] < s[1], s \in P
<1>5. /\ x1 <= x2 /\ (x2 - x1) * n < M
      /\ x1 <= x /\ (x - x1) * n < M
  <2>1. x1 <= x2 /\ (x2 - x1) * n < M
    BY ONLY <1>2, <1>4, r \in P, s \in P, Smooth(P \cup {t}, n) DEF Smooth
  <2>2. p1 < N
    BY <1>4
  <2>3. x1 <= x /\ (x - x1) * n < M
    BY ONLY <1>1, <1>2, <2>2, r \in P, Smooth(P \cup {t}, n) DEF Smooth
  <2>4. QED
    BY ONLY <2>1, <2>3
<1>6. PICK d \in Nat \ {0}, h \in Nat : d = p2 - p1 /\ h = N - p1 /\ d <= n /\ h <= n
  <2>1. p2 - p1 \in Nat \ {0} /\ N - p1 \in Nat /\ p2 - p1 <= n /\ N - p1 <= n
    BY ONLY <1>4, p1 \in Nat, p2 \in Nat, N \in Nat, n \in Nat, n >= N + 1
  <2>2. QED
    BY ONLY <2>1, Zenon
<1>7. (((x2 - x1) % M) * h) % M = (((x - x1) % M) * d) % M
  BY ONLY <1>1, <1>2, <1>6,
     (ValDiff(r, s) * IdxDiff(r, t)) % M = (ValDiff(r, t) * IdxDiff(r, s)) % M
  DEF ValDiff, IdxDiff
<1>8. (x2 - x1) * h = (x - x1) * d
  BY ONLY <1>5, <1>6, <1>7, n \in Nat, x1 \in Word, x2 \in Word, x \in Word,
     d \in Nat, AlignedExact
<1>9. ASSUME NEW q \in P
      PROVE  (q[2] - r[2]) * (t[1] - r[1]) = (t[2] - r[2]) * (q[1] - r[1])
  <2>1. (q[2] - x1) * d = (x2 - x1) * (q[1] - p1)
    BY ONLY <1>2, <1>6, q \in P, Between(P, r, s) DEF Between
  <2>2. PICK a \in Int, b \in Int, e \in Int, k \in Int :
          a = q[2] - x1 /\ b = x2 - x1 /\ e = x - x1 /\ k = q[1] - p1
    <3>1. q[2] \in Int /\ q[1] \in Int
      BY <1>1, WordType
    <3>2. QED
      BY <1>3, <3>1
  <2>3. a * d = b * k /\ b * h = e * d
    BY ONLY <1>8, <2>1, <2>2
  <2>4. a * h = e * k
    BY <2>3, AlignedChain
  <2>5. QED
    BY ONLY <1>1, <1>2, <1>6, <2>2, <2>4
<1>10. (t[2] - r[2]) * (t[1] - r[1]) = (t[2] - r[2]) * (t[1] - r[1])
  OBVIOUS
<1>11. QED
  BY ONLY <1>9, <1>10 DEF Between

(* The values before one that is not on the line are the first row.         *)
LEMMA FirstRowFits ==
  ASSUME NEW P, NEW N \in Nat, Sees(P, N), NEW r \in P, NEW s \in P, r[1] < s[1],
         HasStride(r, s), Smooth(P, N), Between(P, r, s), NEW q \in P
  PROVE  (BaseOf(r, s) + StrideOf(r, s) * q[1]) % M = q[2]
<1>1. r \in Nat \X Word /\ s \in Nat \X Word /\ q \in Nat \X Word /\ s[1] < N
  BY DEF Sees
<1>2. PICK p1 \in Nat, p2 \in Nat, k \in Nat, x1 \in Word, x2 \in Word, y \in Word :
        p1 = r[1] /\ p2 = s[1] /\ k = q[1] /\ x1 = r[2] /\ x2 = s[2] /\ y = q[2]
  BY ONLY <1>1
<1>3. x1 \in Nat /\ x2 \in Nat /\ y \in Nat /\ x1 < M /\ x2 < M /\ y < M /\ M \in Nat \ {0}
  BY WordType
<1>4. PICK d \in Nat \ {0}, t \in Word : d = IdxDiff(r, s) /\ t = StrideOf(r, s)
  BY <1>1, LineType
<1>5. t \in Nat /\ d = p2 - p1
  BY ONLY <1>2, <1>4, WordType DEF IdxDiff
<1>6. x1 <= x2
  BY ONLY <1>2, r \in P, s \in P, r[1] < s[1], Smooth(P, N) DEF Smooth
<1>7. x2 - x1 = d * t
  <2>1. PICK a \in 0 .. M - 1 : a = x2 - x1
    BY <1>3, <1>6
  <2>2. a % M = a
    BY <1>3, ModSmall
  <2>3. ValDiff(r, s) = a
    BY ONLY <1>2, <2>1, <2>2 DEF ValDiff
  <2>4. ValDiff(r, s) = IdxDiff(r, s) * StrideOf(r, s)
    BY <1>1, LineThrough
  <2>5. QED
    BY ONLY <1>4, <2>1, <2>3, <2>4
<1>8. (y - x1) * d = (x2 - x1) * (k - p1)
  BY ONLY <1>2, <1>5, q \in P, Between(P, r, s) DEF Between
<1>9. y - x1 = t * (k - p1)
  <2>1. PICK u \in Int, v \in Int, w \in Int : u = y - x1 /\ w = k - p1 /\ v = t * w
    BY <1>3, <1>5
  <2>2. u * d = (d * t) * w
    BY ONLY <1>7, <1>8, <2>1
  <2>3. (d * t) * w = v * d
    BY ONLY <1>5, <2>1, d \in Nat \ {0}, w \in Int
  <2>4. u = v
    BY ONLY <2>2, <2>3, u \in Int, v \in Int, d \in Nat \ {0}, Cancel
  <2>5. QED
    BY ONLY <2>1, <2>4
<1>10. PICK e \in Int, g \in Int : e = x1 - p1 * t /\ g = t * k
  BY <1>3, <1>5
<1>11. BaseOf(r, s) = e % M
  BY ONLY <1>2, <1>4, <1>10 DEF BaseOf
<1>12. e + g = y
  <2>1. PICK u \in Int : u = t * p1
    BY <1>5
  <2>2. p1 * t = u /\ t * (k - p1) = g - u
    BY ONLY <1>5, <1>10, <2>1, k \in Nat, p1 \in Nat
  <2>3. QED
    BY ONLY <1>3, <1>9, <1>10, <2>2, u \in Int
<1>13. ((e % M) + g) % M = (e + g) % M
  BY <1>3, ModPlus
<1>14. y \in 0 .. M - 1 /\ y % M = y
  BY <1>3, ModSmall
<1>15. QED
  BY ONLY <1>2, <1>4, <1>10, <1>11, <1>12, <1>13, <1>14

(* On a step of the rows, known to be so. *)
LEMMA RowsStep ==
  ASSUME NEW f \in FSM, NEW w \in FSM, NEW N \in Nat, f.ni # 0,
         f.i = (N - 1) % f.ni, f.j = (N - 1) \div f.ni, Stepped(f, w), SameRows(f, w)
  PROVE  /\ w.i = (N + 1 - 1) % w.ni /\ w.j = (N + 1 - 1) \div w.ni
         /\ NextQuardric(f) = (f.base + f.strideI * (N % f.ni) + f.strideJ * (N \div f.ni)) % M
<1>1. PICK ni \in Nat \ {0}, i \in {f.i}, j \in {f.j} : ni = f.ni /\ i = f.i /\ j = f.j
  BY FSMFields
<1>2. /\ i \in Nat /\ j \in Int
      /\ i + 1 = ni => N % ni = 0 /\ N \div ni = j + 1
      /\ i + 1 # ni => N % ni = i + 1 /\ N \div ni = j
  <2>1. NextAt(N, ni, (N - 1) % ni, (N - 1) \div ni)
    BY NextPosition
  <2>2. NextAt(N, ni, i, j)
    BY ONLY <1>1, <2>1, f.i = (N - 1) % f.ni, f.j = (N - 1) \div f.ni, Zenon
  <2>3. QED
    BY ONLY <2>2 DEF NextAt
<1>3. w.i = N % ni /\ w.j = N \div ni
  BY ONLY <1>1, <1>2, Stepped(f, w) DEF Stepped, EndsRow
<1>4. N + 1 - 1 = N
  OBVIOUS
<1>5. NextQuardric(f) = (f.base + f.strideI * (N % ni) + f.strideJ * (N \div ni)) % M
  <2>1. PICK b \in Nat, si \in Nat, sj \in Nat : b = f.base /\ si = f.strideI /\ sj = f.strideJ
    BY FSMFields, WordType
  <2>2. CASE i + 1 = ni
    <3>1. NextQuardric(f) = (b + (j + 1) * sj) % M
      BY ONLY <1>1, <2>1, <2>2 DEF NextQuardric, EndsRow
    <3>2. b + (j + 1) * sj = b + si * 0 + sj * (j + 1)
      BY ONLY <1>2, b \in Nat, si \in Nat, sj \in Nat
    <3>3. QED
      BY ONLY <1>2, <2>1, <2>2, <3>1, <3>2
  <2>3. CASE i + 1 # ni
    <3>1. NextQuardric(f) = (b + j * sj + (i + 1) * si) % M
      BY ONLY <1>1, <2>1, <2>3 DEF NextQuardric, EndsRow
    <3>2. b + j * sj + (i + 1) * si = b + si * (i + 1) + sj * j
      BY ONLY <1>2, b \in Nat, si \in Nat, sj \in Nat
    <3>3. QED
      BY ONLY <1>2, <2>1, <2>3, <3>1, <3>2
  <2>4. QED
    BY <2>2, <2>3
<1>6. QED
  BY ONLY <1>1, <1>3, <1>4, <1>5, SameRows(f, w) DEF SameRows

LEMMA SmoothSmaller ==
  ASSUME NEW P, NEW Q, P \subseteq Q, NEW n, Smooth(Q, n)
  PROVE  Smooth(P, n)
  BY DEF Smooth

LEMMA QuardricUpdateOK ==
  ASSUME NEW n \in Nat, NEW f, FSMType(f, n), NEW N \in Nat, NEW P, Sees(P, N),
         NEW x \in Word, f.state # "FAILURE", QuardricOK(f, P, N)
  PROVE  QuardricOK(UpdateQuardric(f, x), P \cup {<<N, x>>}, N + 1)
<1>1. PICK w \in FSM : /\ w = UpdateQuardric(f, x) /\ w.updates = f.updates + 1
                       /\ QuardricStep(f, x, w)
  BY UpdateQuardricStep
<1>2. f \in FSM /\ f.updates = N /\ w.updates = N + 1 /\ InOrder(f.confirmed, N)
  BY ONLY <1>1, FSMType(f, n), f.state # "FAILURE", QuardricOK(f, P, N) DEF FSMType, QuardricOK
<1>3. PICK t \in Nat \X Word : t = <<N, x>> /\ t[1] = N /\ t[2] = x
  <2>1. <<N, x>> \in Nat \X Word /\ <<N, x>>[1] = N /\ <<N, x>>[2] = x
    OBVIOUS
  <2>2. QED
    BY ONLY <2>1, Zenon
<1>4. PICK Q : Q = P \cup {t}
  OBVIOUS
<1>5. SUFFICES QuardricOK(w, Q, N + 1)
  BY <1>1, <1>3, <1>4
<1>6. CASE w.state = "FAILURE"
  BY <1>6 DEF QuardricOK
<1>7. CASE /\ f.state = "SUCCESS" /\ x = NextQuardric(f)
           /\ w.state = "SUCCESS" /\ Stepped(f, w) /\ SameRows(f, w)
  <2>1. /\ f.ni # 0 /\ f.i = (N - 1) % f.ni /\ f.j = (N - 1) \div f.ni
        /\ Smooth(FirstRow(P, f.ni), f.ni) => InRowsOf(f, P)
    BY ONLY <1>7, QuardricOK(f, P, N) DEF QuardricOK
  <2>2. /\ w.i = (N + 1 - 1) % w.ni /\ w.j = (N + 1 - 1) \div w.ni
        /\ x = (f.base + f.strideI * (N % f.ni) + f.strideJ * (N \div f.ni)) % M
    BY <1>2, <1>7, <2>1, RowsStep
  <2>3. ASSUME Smooth(FirstRow(Q, w.ni), w.ni) PROVE InRowsOf(w, Q)
    <3>1. w.ni = f.ni /\ FirstRow(P, f.ni) \subseteq FirstRow(Q, w.ni)
      BY ONLY <1>4, <1>7 DEF SameRows, FirstRow
    <3>2. InRowsOf(f, P)
      BY <2>1, <2>3, <3>1, SmoothSmaller
    <3>3. QED
      BY ONLY <1>3, <1>4, <1>7, <2>2, <3>2 DEF SameRows, InRowsOf
  <2>4. w.ni # 0
    BY ONLY <1>7, <2>1 DEF SameRows
  <2>5. QED
    BY ONLY <1>2, <1>7, <2>2, <2>3, <2>4 DEF QuardricOK
<1>8. CASE /\ f.state = "UNKNOWN" /\ w.state = "UNKNOWN" /\ w.ni = f.ni
           /\ Len(f.confirmed) = 0
           /\ Len(w.confirmed) = 1 /\ w.confirmed[1] = <<f.updates, x>>
  <2>1. P = {} /\ f.ni = 0
    BY ONLY <1>8, QuardricOK(f, P, N) DEF QuardricOK
  <2>2. Q = {w.confirmed[1]}
    BY ONLY <1>2, <1>3, <1>4, <1>8, <2>1
  <2>3. QED
    BY ONLY <1>2, <1>8, <2>1, <2>2 DEF QuardricOK
<1>9. CASE /\ f.state = "UNKNOWN" /\ w.state = "UNKNOWN" /\ w.ni = f.ni
           /\ Len(f.confirmed) = 1
           /\ Len(w.confirmed) = 2 /\ w.confirmed[1] = f.confirmed[1]
           /\ w.confirmed[2] = <<f.updates, x>>
  <2>1. PICK r : r = f.confirmed[1]
    OBVIOUS
  <2>2. P = {r} /\ f.ni = 0
    BY ONLY <1>9, <2>1, QuardricOK(f, P, N) DEF QuardricOK
  <2>3. w.confirmed[1] = r /\ w.confirmed[2] = t /\ Q = {r, t}
    BY ONLY <1>2, <1>3, <1>4, <1>9, <2>1, <2>2
  <2>4. Between(Q, r, t)
    <3>1. r \in Nat \X Word
      BY ONLY <2>2, Sees(P, N) DEF Sees
    <3>2. PICK a \in Int, b \in Int, c \in Int, d \in Int :
            a = r[1] /\ b = r[2] /\ c = t[1] /\ d = t[2]
      <4>1. r[1] \in Int /\ r[2] \in Int /\ t[1] \in Int /\ t[2] \in Int
        BY <3>1, WordType
      <4>2. QED
        BY ONLY <4>1, Zenon
    <3>3. (b - b) * (c - a) = (d - b) * (a - a) /\ (d - b) * (c - a) = (d - b) * (c - a)
      BY ONLY a \in Int, b \in Int, c \in Int, d \in Int
    <3>4. QED
      BY ONLY <2>3, <3>2, <3>3 DEF Between
  <2>5. QED
    BY ONLY <1>2, <1>9, <2>2, <2>3, <2>4 DEF QuardricOK
<1>10. ASSUME f.state = "UNKNOWN", Len(f.confirmed) = 2
       PROVE  \E r \in P : \E s \in P :
                /\ r = f.confirmed[1] /\ s = f.confirmed[2] /\ r[1] < s[1] /\ f.ni = 0
                /\ r \in Nat \X Word /\ s \in Nat \X Word /\ s[1] < N
                /\ \A k \in Nat : k >= N /\ Smooth(P, k) => Between(P, r, s)
  <2>1. /\ f.confirmed[1] \in P /\ f.confirmed[2] \in P /\ f.ni = 0
        /\ \A k \in Nat : k >= N /\ Smooth(P, k) =>
             Between(P, f.confirmed[1], f.confirmed[2])
    BY ONLY <1>10, QuardricOK(f, P, N) DEF QuardricOK
  <2>2. f.confirmed \in Seq(Nat \X Word)
    BY <1>2, FSMFields
  <2>3. 1 \in DOMAIN f.confirmed /\ 2 \in DOMAIN f.confirmed
    BY ONLY <1>10, <2>2
  <2>4. f.confirmed[1][1] < f.confirmed[2][1]
    BY ONLY <1>2, <2>3, 1 < 2 DEF InOrder
  <2>5. \A q \in P : q \in Nat \X Word /\ q[1] < N
    BY DEF Sees
  <2>6. QED
    BY ONLY <2>1, <2>4, <2>5
<1>11. CASE /\ f.state = "UNKNOWN" /\ w.state = "UNKNOWN" /\ w.ni = f.ni
            /\ Len(f.confirmed) = 2
            /\ Len(w.confirmed) = 2 /\ w.confirmed[1] = f.confirmed[1]
            /\ w.confirmed[2] = <<f.updates, x>>
            /\ (ValDiff(f.confirmed[1], f.confirmed[2]) * IdxDiff(f.confirmed[1], <<f.updates, x>>)) % M
                 = (ValDiff(f.confirmed[1], <<f.updates, x>>) * IdxDiff(f.confirmed[1], f.confirmed[2])) % M
  <2>1. PICK r \in P, s \in P :
          /\ r = f.confirmed[1] /\ s = f.confirmed[2] /\ r[1] < s[1] /\ f.ni = 0
          /\ r \in Nat \X Word /\ s \in Nat \X Word /\ s[1] < N
          /\ \A k \in Nat : k >= N /\ Smooth(P, k) => Between(P, r, s)
    BY <1>10, <1>11
  <2>2. w.confirmed[1] = r /\ w.confirmed[2] = t /\ r \in Q /\ t \in Q
    BY ONLY <1>2, <1>3, <1>4, <1>11, <2>1
  <2>3. (ValDiff(r, s) * IdxDiff(r, t)) % M = (ValDiff(r, t) * IdxDiff(r, s)) % M
    BY ONLY <1>2, <1>3, <1>11, <2>1
  <2>4. ASSUME NEW k \in Nat, k >= N + 1, Smooth(Q, k)
        PROVE  Between(Q, r, t)
    <3>1. P \subseteq Q /\ k >= N
      BY <1>4, <2>4
    <3>2. Between(P, r, s)
      BY <2>1, <2>4, <3>1, SmoothSmaller
    <3>3. QED
      BY <1>3, <1>4, <2>1, <2>3, <2>4, <3>2, StillBetween
  <2>5. QED
    BY ONLY <1>2, <1>11, <2>1, <2>2, <2>4 DEF QuardricOK
<1>12. CASE /\ f.state = "UNKNOWN" /\ Len(f.confirmed) = 2
            /\ HasStride(f.confirmed[1], f.confirmed[2])
            /\ w.state = "SUCCESS" /\ w.i = 0 /\ w.j = 1 /\ w.ni = f.updates
            /\ w.base = BaseOf(f.confirmed[1], f.confirmed[2])
            /\ w.strideI = StrideOf(f.confirmed[1], f.confirmed[2])
            /\ w.strideJ = (x - w.base) % M
  <2>1. PICK r \in P, s \in P :
          /\ r = f.confirmed[1] /\ s = f.confirmed[2] /\ r[1] < s[1] /\ f.ni = 0
          /\ r \in Nat \X Word /\ s \in Nat \X Word /\ s[1] < N
          /\ \A k \in Nat : k >= N /\ Smooth(P, k) => Between(P, r, s)
    BY <1>10, <1>12
  <2>2. /\ HasStride(r, s) /\ w.ni = N /\ w.base = BaseOf(r, s) /\ w.strideI = StrideOf(r, s)
    BY ONLY <1>2, <1>12, <2>1
  <2>3. N # 0 /\ N \in Nat \ {0}
    BY ONLY <2>1, N \in Nat
  <2>4. w.i = (N + 1 - 1) % N /\ w.j = (N + 1 - 1) \div N
    <3>1. N + 1 - 1 = N * 1 + 0 /\ 0 \in 0 .. N - 1 /\ N + 1 - 1 \in Int
      BY <2>3
    <3>2. (N + 1 - 1) \div N = 1 /\ (N + 1 - 1) % N = 0
      BY <2>3, <3>1, DivModUnique
    <3>3. QED
      BY ONLY <1>12, <3>2
  <2>5. PICK b \in Word, si \in Word, sj \in Word :
          b = w.base /\ si = w.strideI /\ sj = w.strideJ /\ b \in Nat /\ si \in Nat /\ sj \in Nat
    BY <1>1, FSMFields, WordType
  <2>6. ASSUME Smooth(FirstRow(Q, N), N)
        PROVE  InRowsOf(w, Q)
    <3>1. P \subseteq FirstRow(Q, N)
      BY ONLY <1>4, Sees(P, N) DEF Sees, FirstRow
    <3>2. Smooth(P, N)
      BY <2>6, <3>1, SmoothSmaller
    <3>3. Between(P, r, s)
      BY ONLY <2>1, <3>2, N \in Nat
    <3>4. ASSUME NEW q \in P
          PROVE  (b + si * (q[1] % N) + sj * (q[1] \div N)) % M = q[2]
      <4>1. PICK k \in 0 .. N - 1 : k = q[1]
        BY ONLY Sees(P, N), N \in Nat, q \in P DEF Sees
      <4>2. k \div N = 0 /\ k % N = k
        <5>1. k = N * 0 + k
          BY ONLY N \in Nat, k \in 0 .. N - 1
        <5>2. k \in Int /\ 0 \in Int
          BY ONLY N \in Nat, k \in 0 .. N - 1
        <5>3. QED
          BY <2>3, <5>1, <5>2, DivModUnique, Zenon
      <4>3. b + si * k + sj * 0 = b + si * k
        BY <2>5
      <4>4. (BaseOf(r, s) + StrideOf(r, s) * q[1]) % M = q[2]
        BY <2>1, <2>2, <3>2, <3>3, FirstRowFits
      <4>5. QED
        BY ONLY <2>2, <2>5, <4>1, <4>2, <4>3, <4>4
    <3>5. (b + si * (t[1] % N) + sj * (t[1] \div N)) % M = t[2]
      <4>1. N % N = 0 /\ N \div N = 1
        <5>1. N = N * 1 + 0 /\ 0 \in 0 .. N - 1
          BY <2>3
        <5>2. QED
          BY <2>3, <5>1, DivModUnique
      <4>2. b + si * 0 + sj * 1 = sj + b
        BY <2>5
      <4>3. PICK e \in Int, z \in Int : e = x - b /\ z = b
        <5>1. x - b \in Int /\ b \in Int
          BY <2>5, WordType
        <5>2. QED
          BY ONLY <5>1, Zenon
      <4>4. sj = e % M
        BY ONLY <1>12, <2>5, <4>3
      <4>5. ((e % M) + z) % M = (e + z) % M
        BY WordType, ModPlus
      <4>6. e + z = x /\ x % M = x
        <5>1. x \in 0 .. M - 1 /\ M \in Nat \ {0}
          BY WordType DEF Word
        <5>2. x % M = x
          BY <5>1, ModSmall
        <5>3. QED
          BY <2>5, <4>3, <5>1, <5>2
      <4>7. QED
        BY ONLY <1>3, <4>1, <4>2, <4>3, <4>4, <4>5, <4>6
    <3>6. QED
      BY ONLY <1>4, <2>2, <2>5, <3>4, <3>5 DEF InRowsOf
  <2>7. QED
    BY ONLY <1>2, <1>12, <2>2, <2>3, <2>4, <2>6 DEF QuardricOK
<1>13. QED
  BY ONLY <1>1, <1>6, <1>7, <1>8, <1>9, <1>11, <1>12 DEF QuardricStep

LEMMA QuardricMissOK ==
  ASSUME NEW n \in Nat, NEW f, FSMType(f, n), NEW N \in Nat, NEW P, QuardricOK(f, P, N)
  PROVE  QuardricOK(MissQuardric(f), P, N + 1)
<1>1. PICK w \in FSM : /\ w = MissQuardric(f) /\ w.updates = f.updates + 1
                       /\ w.state = f.state /\ w.confirmed = f.confirmed
                       /\ SameRows(f, w)
                       /\ f.state = "SUCCESS" => Stepped(f, w)
  BY MissQuardricStep
<1>2. f \in FSM
  BY DEF FSMType
<1>3. CASE f.state = "SUCCESS"
  <2>1. /\ f.updates = N /\ f.ni # 0 /\ f.i = (N - 1) % f.ni /\ f.j = (N - 1) \div f.ni
        /\ Smooth(FirstRow(P, f.ni), f.ni) => InRowsOf(f, P)
    BY ONLY <1>3, QuardricOK(f, P, N) DEF QuardricOK
  <2>2. w.i = (N + 1 - 1) % w.ni /\ w.j = (N + 1 - 1) \div w.ni
    BY <1>1, <1>2, <1>3, <2>1, RowsStep
  <2>3. w.ni = f.ni /\ (InRowsOf(f, P) <=> InRowsOf(w, P))
    BY ONLY <1>1 DEF SameRows, InRowsOf
  <2>4. QuardricOK(w, P, N + 1)
    BY ONLY <1>1, <1>3, <2>1, <2>2, <2>3 DEF QuardricOK
  <2>5. QED
    BY ONLY <1>1, <2>4
<1>4. CASE f.state # "SUCCESS"
  <2>1. w.ni = f.ni
    BY ONLY <1>1 DEF SameRows
  <2>2. \A k \in Nat : k >= N + 1 => k >= N
    BY ONLY N \in Nat
  <2>3. QuardricOK(w, P, N + 1)
    BY ONLY <1>1, <1>4, <2>1, <2>2, QuardricOK(f, P, N) DEF QuardricOK
  <2>4. QED
    BY ONLY <1>1, <2>3
<1>5. QED
  BY <1>3, <1>4

-----------------------------------------------------------------------------
(* All five state machines of an access pattern *)

CountOf(f, p) == [f EXCEPT !.updates = @ + 1, !.prev = p]

LEMMA CountOnly ==
  ASSUME NEW n \in Nat, NEW f, FSMType(f, n), NEW p \in Word
  PROVE  FSMType(CountOf(f, p), n + 1) /\ CountOf(f, p).prev = p /\ CountOf(f, p).state = f.state
<1>1. f \in FSM /\ f.updates <= n /\ f.i <= n /\ f.j <= n /\ f.ni <= n
      /\ (f.state = "UNKNOWN" => Len(f.confirmed) <= 2) /\ InOrder(f.confirmed, f.updates)
  BY DEF FSMType
<1>2. f.updates \in Nat /\ f.confirmed \in Seq(Nat \X Word)
  BY <1>1, FSMFields
<1>3. PICK u \in Nat : u = f.updates + 1
  BY <1>2
<1>4. PICK g : g = [f EXCEPT !.updates = u, !.prev = p]
  OBVIOUS
<1>5. /\ g \in FSM /\ g.updates = u /\ g.i = f.i /\ g.j = f.j /\ g.ni = f.ni
      /\ g.confirmed = f.confirmed /\ g.prev = p /\ g.state = f.state
  BY ONLY <1>1, <1>3, <1>4, p \in Word DEF FSM
<1>6. InOrder(f.confirmed, u)
  BY <1>1, <1>2, <1>3, StillInOrder
<1>7. FSMType(g, n + 1)
  BY <1>1, <1>3, <1>5, <1>6, FSMChange
<1>8. CountOf(f, p) = g
  BY ONLY <1>3, <1>4 DEF CountOf
<1>9. QED
  BY ONLY <1>5, <1>7, <1>8

LEMMA UpdateType ==
  ASSUME NEW n \in Nat, NEW f, FSMType(f, n), NEW x \in Word, NEW v \in ValuePattern
  PROVE  /\ FSMType(Update(v, f, x), n + 1)
         /\ Update(v, f, x).state # "FAILURE" => Update(v, f, x).prev = x
<1>1. v \in {"UNKNOWN", "CONSTANT", "LINEAR", "QUARDRIC", "RANDOM"}
  BY PatternNames
<1>2. PICK w : w = Update(v, f, x)
  OBVIOUS
<1>3. CASE f.state = "FAILURE"
  <2>1. w = f
    BY ONLY <1>2, <1>3 DEF Update
  <2>2. QED
    BY <1>2, <1>3, <2>1, FSMTypeGrows
<1>4. CASE f.state # "FAILURE" /\ v = "UNKNOWN"
  <2>1. PICK g : g = CountOf(f, x)
    OBVIOUS
  <2>2. w = Failed(g)
    BY ONLY <1>2, <1>4, <2>1 DEF Update, CountOf
  <2>3. FSMType(g, n + 1) /\ n + 1 \in Nat
    BY <2>1, CountOnly
  <2>4. FSMType(w, n + 1)
    BY <2>2, <2>3, FailedType
  <2>5. w.state = "FAILURE"
    BY ONLY <2>2, <2>3 DEF Failed, FSMType, FSM
  <2>6. QED
    BY ONLY <1>2, <2>4, <2>5
<1>5. CASE f.state # "FAILURE" /\ v = "CONSTANT"
  <2>1. w = UpdateConst(f, x)
    BY ONLY <1>2, <1>5 DEF Update
  <2>2. FSMType(w, n + 1)
    BY <2>1, UpdateConstType
  <2>3. f \in FSM /\ f.state \in {"UNKNOWN", "SUCCESS"}
    BY <1>5, FSMFields DEF FSMType, States
  <2>4. /\ w.prev = (IF f.state = "UNKNOWN" THEN x ELSE f.prev)
        /\ w.state = (IF f.state = "SUCCESS" /\ f.prev # x THEN "FAILURE" ELSE "SUCCESS")
    BY ONLY <2>1, <2>3 DEF UpdateConst, FSM
  <2>5. QED
    BY ONLY <1>2, <2>2, <2>3, <2>4
<1>6. CASE f.state # "FAILURE" /\ v = "LINEAR"
  <2>1. w = UpdateLinear(f, x)
    BY ONLY <1>2, <1>6 DEF Update
  <2>2. FSMType(w, n + 1) /\ w.prev = x
    BY <2>1, UpdateLinearStep
  <2>3. QED
    BY ONLY <1>2, <2>2
<1>7. CASE f.state # "FAILURE" /\ v = "QUARDRIC"
  <2>1. w = UpdateQuardric(f, x)
    BY ONLY <1>2, <1>7 DEF Update
  <2>2. FSMType(w, n + 1) /\ w.prev = x
    BY <2>1, UpdateQuardricStep
  <2>3. QED
    BY ONLY <1>2, <2>2
<1>8. CASE f.state # "FAILURE" /\ v = "RANDOM"
  <2>1. w = CountOf(f, x)
    BY ONLY <1>2, <1>8 DEF Update, CountOf
  <2>2. FSMType(w, n + 1) /\ w.prev = x
    BY <2>1, CountOnly
  <2>3. QED
    BY ONLY <1>2, <2>2
<1>9. QED
  BY ONLY <1>1, <1>3, <1>4, <1>5, <1>6, <1>7, <1>8

LEMMA MissingType ==
  ASSUME NEW n \in Nat, NEW f, FSMType(f, n), NEW v \in ValuePattern
  PROVE  FSMType(UpdateMissing(v, f), n + 1)
<1>1. v \in {"UNKNOWN", "CONSTANT", "LINEAR", "QUARDRIC", "RANDOM"}
  BY PatternNames
<1>2. PICK w : w = UpdateMissing(v, f)
  OBVIOUS
<1>3. CASE f.state = "FAILURE" \/ v \in {"UNKNOWN", "CONSTANT"}
  <2>1. w = f
    BY ONLY <1>2, <1>3 DEF UpdateMissing
  <2>2. QED
    BY <1>2, <2>1, FSMTypeGrows
<1>4. CASE f.state # "FAILURE" /\ v = "LINEAR"
  <2>1. w = MissLinear(f)
    BY ONLY <1>2, <1>4 DEF UpdateMissing
  <2>2. QED
    BY <1>2, <2>1, MissLinearStep
<1>5. CASE f.state # "FAILURE" /\ v = "QUARDRIC"
  <2>1. w = MissQuardric(f)
    BY ONLY <1>2, <1>5 DEF UpdateMissing
  <2>2. QED
    BY <1>2, <2>1, MissQuardricStep
<1>6. CASE f.state # "FAILURE" /\ v = "RANDOM"
  <2>1. w = [f EXCEPT !.updates = @ + 1]
    BY ONLY <1>2, <1>6 DEF UpdateMissing
  <2>2. f \in FSM /\ f.prev \in Word
    BY FSMFields DEF FSMType
  <2>3. PICK p \in Word : p = f.prev
    BY <2>2
  <2>4. w = CountOf(f, p)
    BY ONLY <2>1, <2>2, <2>3 DEF FSM, CountOf
  <2>5. FSMType(w, n + 1)
    BY <2>4, CountOnly
  <2>6. QED
    BY ONLY <1>2, <2>5
<1>7. QED
  BY ONLY <1>1, <1>3, <1>4, <1>5, <1>6

-----------------------------------------------------------------------------
(* The points of a history *)

Entry == BOOLEAN \X Word

StepCount(h, a) == StepsBefore(h, a, Len(h) + 1)
Points(h, a) == {<<StepsBefore(h, a, k), h[k][2]>> : k \in Valued(h, a)}

(* Is entry e one more step after h? *)
NewStep(h, a, e) ==
  /\ a = "SAME_COND" => e[1]
  /\ a = "COND_UPDATE" => h = <<>> \/ e[2] # h[Len(h)][2]

Longer(h, a, e, g) ==
  /\ NewStep(h, a, e) => StepCount(g, a) = StepCount(h, a) + 1
  /\ ~NewStep(h, a, e) => StepCount(g, a) = StepCount(h, a)
  /\ NewStep(h, a, e) /\ e[1] => Points(g, a) = Points(h, a) \cup {<<StepCount(h, a), e[2]>>}
  /\ ~NewStep(h, a, e) \/ ~e[1] => Points(g, a) = Points(h, a)

LEMMA StepsFinite ==
  ASSUME NEW h, NEW a, NEW k \in Nat
  PROVE  /\ IsFiniteSet({j \in 1 .. k - 1 : Steps(h, a, j)})
         /\ StepsBefore(h, a, k) \in Nat
<1>1. IsFiniteSet(1 .. k - 1)
  BY k - 1 \in Int, FS_Interval
<1>2. IsFiniteSet({j \in 1 .. k - 1 : Steps(h, a, j)})
  BY <1>1, FS_Subset
<1>3. QED
  BY <1>2, FS_CardinalityType DEF StepsBefore

LEMMA StepsMonotonic ==
  ASSUME NEW h, NEW a, NEW k \in Nat, NEW l \in Nat, l <= k
  PROVE  StepsBefore(h, a, l) <= StepsBefore(h, a, k)
<1>1. PICK S, T : /\ S = {j \in 1 .. l - 1 : Steps(h, a, j)}
                  /\ T = {j \in 1 .. k - 1 : Steps(h, a, j)}
  OBVIOUS
<1>2. S \in SUBSET T
  BY <1>1
<1>3. IsFiniteSet(T)
  BY <1>1, StepsFinite
<1>4. Cardinality(S) <= Cardinality(T)
  BY <1>2, <1>3, FS_Subset
<1>5. QED
  BY ONLY <1>1, <1>4 DEF StepsBefore

LEMMA NoPoints ==
  ASSUME NEW a
  PROVE  Points(<<>>, a) = {} /\ StepCount(<<>>, a) = 0
<1>1. Valued(<<>>, a) = {}
  BY DEF Valued
<1>2. {j \in 1 .. 1 - 1 : Steps(<<>>, a, j)} = {} /\ Len(<<>>) + 1 = 1
  OBVIOUS
<1>3. QED
  BY <1>1, <1>2, FS_EmptySet DEF Points, StepCount, StepsBefore

LEMMA HistoryGrows ==
  ASSUME NEW h \in Seq(Entry), NEW e \in Entry, NEW a
  PROVE  Longer(h, a, e, Append(h, e))
<1>1. PICK n \in Nat : n = Len(h)
  OBVIOUS
<1>2. PICK g : g = Append(h, e)
  OBVIOUS
<1>3. /\ DOMAIN h = 1 .. n /\ DOMAIN g = 1 .. n + 1 /\ Len(g) = n + 1
      /\ g[n + 1] = e /\ \A k \in 1 .. n : g[k] = h[k]
  BY <1>1, <1>2
<1>4. h = <<>> <=> n = 0
  BY <1>1
<1>5. ASSUME NEW k \in 1 .. n
      PROVE  Steps(g, a, k) <=> Steps(h, a, k)
  <2>1. k = 1 \/ k - 1 \in 1 .. n
    OBVIOUS
  <2>2. g[k] = h[k] /\ (k = 1 \/ g[k - 1] = h[k - 1])
    BY <1>3, <2>1
  <2>3. QED
    BY ONLY <2>2 DEF Steps
<1>6. Steps(g, a, n + 1) <=> NewStep(h, a, e)
  <2>1. n + 1 = 1 \/ (n \in 1 .. n /\ n + 1 - 1 = n)
    OBVIOUS
  <2>2. n + 1 = 1 <=> n = 0
    OBVIOUS
  <2>3. CASE n = 0
    BY ONLY <1>3, <1>4, <2>2, <2>3 DEF Steps, NewStep
  <2>4. CASE n # 0
    <3>1. g[n + 1 - 1] = h[n]
      BY ONLY <1>3, <2>1, <2>2, <2>4
    <3>2. QED
      BY ONLY <1>1, <1>3, <1>4, <2>2, <2>4, <3>1 DEF Steps, NewStep
  <2>5. QED
    BY ONLY <2>3, <2>4
<1>7. ASSUME NEW k \in 1 .. n + 1
      PROVE  StepsBefore(g, a, k) = StepsBefore(h, a, k)
  <2>1. \A j \in 1 .. k - 1 : j \in 1 .. n
    OBVIOUS
  <2>2. {j \in 1 .. k - 1 : Steps(g, a, j)} = {j \in 1 .. k - 1 : Steps(h, a, j)}
    BY ONLY <1>5, <2>1
  <2>3. QED
    BY ONLY <2>2 DEF StepsBefore
<1> DEFINE S == {j \in 1 .. n : Steps(h, a, j)}
<1>8. n + 1 - 1 = n /\ n + 2 - 1 = n + 1 /\ n + 1 + 1 = n + 2 /\ n + 1 \in Nat
  OBVIOUS
<1>9. IsFiniteSet(S) /\ StepCount(h, a) = Cardinality(S)
  <2>1. IsFiniteSet({j \in 1 .. n + 1 - 1 : Steps(h, a, j)})
    <3>1. PICK k \in Nat : k = n + 1
      BY <1>8
    <3>2. IsFiniteSet({j \in 1 .. k - 1 : Steps(h, a, j)})
      BY StepsFinite
    <3>3. QED
      BY ONLY <3>1, <3>2
  <2>2. QED
    BY ONLY <1>1, <1>8, <2>1 DEF StepCount, StepsBefore
<1>10. {j \in 1 .. n + 1 : Steps(g, a, j)}
         = S \cup (IF NewStep(h, a, e) THEN {n + 1} ELSE {})
  <2>1. \A j : j \in 1 .. n + 1 <=> j \in 1 .. n \/ j = n + 1
    OBVIOUS
  <2>2. QED
    BY ONLY <1>5, <1>6, <2>1
<1>11. n + 1 \notin S
  OBVIOUS
<1>12. StepCount(g, a) = Cardinality(S \cup (IF NewStep(h, a, e) THEN {n + 1} ELSE {}))
  <2>1. Len(g) + 1 - 1 = n + 1
    BY <1>3
  <2>2. StepCount(g, a) = Cardinality({j \in 1 .. Len(g) + 1 - 1 : Steps(g, a, j)})
    BY DEF StepCount, StepsBefore
  <2>3. StepCount(g, a) = Cardinality({j \in 1 .. n + 1 : Steps(g, a, j)})
    BY ONLY <2>1, <2>2
  <2> HIDE DEF S
  <2>4. QED
    BY ONLY <1>10, <2>3
<1>13. /\ NewStep(h, a, e) => StepCount(g, a) = StepCount(h, a) + 1
       /\ ~NewStep(h, a, e) => StepCount(g, a) = StepCount(h, a)
  <2> HIDE DEF S
  <2>1. Cardinality(S \cup {n + 1}) = Cardinality(S) + 1
    BY <1>9, <1>11, FS_AddElement
  <2>2. S \cup {} = S
    OBVIOUS
  <2>3. QED
    BY ONLY <1>9, <1>12, <2>1, <2>2
<1>14. \A k : k \in Valued(g, a) <=>
                k \in Valued(h, a) \/ (k = n + 1 /\ e[1] /\ NewStep(h, a, e))
  <2>1. \A j : j \in 1 .. n + 1 <=> j \in 1 .. n \/ j = n + 1
    OBVIOUS
  <2>2. n + 1 \notin 1 .. n
    OBVIOUS
  <2>3. QED
    BY ONLY <1>3, <1>5, <1>6, <2>1, <2>2 DEF Valued
<1>15. \A k \in Valued(h, a) : k \in 1 .. n /\ k \in 1 .. n + 1
  BY <1>3 DEF Valued
<1>16. \A k \in Valued(h, a) :
         <<StepsBefore(g, a, k), g[k][2]>> = <<StepsBefore(h, a, k), h[k][2]>>
  BY ONLY <1>3, <1>7, <1>15
<1>17. <<StepsBefore(g, a, n + 1), g[n + 1][2]>> = <<StepCount(h, a), e[2]>>
  <2>1. n + 1 \in 1 .. n + 1
    OBVIOUS
  <2>2. QED
    BY ONLY <1>1, <1>3, <1>7, <2>1 DEF StepCount
<1>18. NewStep(h, a, e) /\ e[1] => Points(g, a) = Points(h, a) \cup {<<StepCount(h, a), e[2]>>}
  BY ONLY <1>14, <1>16, <1>17 DEF Points
<1>19. ~NewStep(h, a, e) \/ ~e[1] => Points(g, a) = Points(h, a)
  BY ONLY <1>14, <1>16 DEF Points
<1>20. Longer(h, a, e, g)
  BY ONLY <1>13, <1>18, <1>19 DEF Longer
<1>21. QED
  BY ONLY <1>2, <1>20

-----------------------------------------------------------------------------
(* What the five state machines know of the points *)

ValuesType(V, n) ==
  V \in [ValuePattern -> FSM] /\ \A v \in ValuePattern : FSMType(V[v], n)

(* UNKNOWN knows no point, and CONSTANT fails for two different values.     *)
NoneOK(f, P)    == f.state # "FAILURE" <=> P = {}
ConstFails(f, P) ==
  /\ f.state = "SUCCESS" => P # {}
  /\ f.state = "FAILURE" => \E q, r \in P : q[2] # r[2]

ValuesOK(V, P, N) ==
  /\ Sees(P, N)
  /\ NoneOK(V["UNKNOWN"], P)
  /\ ConstOK(V["CONSTANT"], P) /\ ConstFails(V["CONSTANT"], P)
  /\ LinearOK(V["LINEAR"], P, N)
  /\ QuardricOK(V["QUARDRIC"], P, N)
  /\ V["RANDOM"].state = "SUCCESS"

Updated(V, x) == [v \in ValuePattern |-> Update(v, V[v], x)]
Missed(V)     == [v \in ValuePattern |-> UpdateMissing(v, V[v])]

LEMMA ValuesFresh ==
  LET V == [v \in ValuePattern |-> FreshValueFSM(v)] IN
  ValuesType(V, 0) /\ ValuesOK(V, {}, 0)
<1> DEFINE V == [v \in ValuePattern |-> FreshValueFSM(v)]
<1>1. \A v \in ValuePattern : V[v] = FreshValueFSM(v) /\ FSMType(V[v], 0)
  BY FreshType
<1>2. ValuesType(V, 0)
  BY <1>1 DEF ValuesType, FSMType
<1>3. /\ "UNKNOWN" \in ValuePattern /\ "CONSTANT" \in ValuePattern /\ "LINEAR" \in ValuePattern
      /\ "QUARDRIC" \in ValuePattern /\ "RANDOM" \in ValuePattern
  BY PatternNames
<1> HIDE DEF V
<1>a. \A v : LET f == FreshValueFSM(v) IN
        /\ f.state = (IF v \in {"UNKNOWN", "RANDOM"} THEN "SUCCESS" ELSE "UNKNOWN")
        /\ f.updates = 0 /\ f.confirmed = <<>> /\ f.ni = 0
  BY DEF FreshValueFSM
<1>4. /\ V["UNKNOWN"].state = "SUCCESS" /\ V["RANDOM"].state = "SUCCESS"
      /\ V["CONSTANT"].state = "UNKNOWN"
      /\ V["LINEAR"].state = "UNKNOWN" /\ V["LINEAR"].updates = 0
      /\ V["LINEAR"].confirmed = <<>>
      /\ V["QUARDRIC"].state = "UNKNOWN" /\ V["QUARDRIC"].updates = 0
      /\ V["QUARDRIC"].confirmed = <<>> /\ V["QUARDRIC"].ni = 0
  BY ONLY <1>1, <1>3, <1>a
<1>5. ValuesOK(V, {}, 0)
  BY <1>4, Len(<<>>) = 0 DEF ValuesOK, Sees, NoneOK, ConstOK, ConstFails, LinearOK, QuardricOK
<1>6. QED
  BY <1>2, <1>5 DEF V

LEMMA ValuesUpdateOK ==
  ASSUME NEW n \in Nat, NEW V, ValuesType(V, n), NEW x \in Word,
         NEW P, NEW N \in Nat, ValuesOK(V, P, N)
  PROVE  ValuesOK(Updated(V, x), P \cup {<<N, x>>}, N + 1)
<1>1. PICK W : W = Updated(V, x)
  OBVIOUS
<1>2. PICK Q : Q = P \cup {<<N, x>>}
  OBVIOUS
<1>3. /\ "UNKNOWN" \in ValuePattern /\ "CONSTANT" \in ValuePattern /\ "LINEAR" \in ValuePattern
      /\ "QUARDRIC" \in ValuePattern /\ "RANDOM" \in ValuePattern
  BY PatternNames
<1>4. \A v \in ValuePattern : W[v] = Update(v, V[v], x)
  BY <1>1 DEF Updated
<1>5. \A v \in ValuePattern : FSMType(V[v], n)
  BY DEF ValuesType
<1>6. Sees(Q, N + 1)
  BY <1>2, SeesMore DEF ValuesOK
<1>7. NoneOK(W["UNKNOWN"], Q)
  <2>1. PICK f : f = V["UNKNOWN"]
    OBVIOUS
  <2>2. FSMType(f, n)
    BY <1>3, <1>5, <2>1
  <2>3. PICK w : w = W["UNKNOWN"]
    OBVIOUS
  <2>4. w = (IF f.state = "FAILURE" THEN f ELSE Failed(CountOf(f, x)))
    BY ONLY <1>3, <1>4, <2>1, <2>3 DEF Update, CountOf
  <2>5. PICK g : g = CountOf(f, x)
    OBVIOUS
  <2>6. g \in FSM
    BY <2>2, <2>5, CountOnly DEF FSMType
  <2>7. Failed(g).state = "FAILURE"
    BY ONLY <2>6 DEF Failed, FSM
  <2>8. w.state = "FAILURE"
    BY ONLY <2>4, <2>5, <2>7
  <2>9. QED
    BY ONLY <1>2, <2>3, <2>8 DEF NoneOK
<1>8. ConstOK(W["CONSTANT"], Q) /\ ConstFails(W["CONSTANT"], Q)
  <2>1. PICK f : f = V["CONSTANT"]
    OBVIOUS
  <2>2. FSMType(f, n) /\ ConstOK(f, P) /\ ConstFails(f, P)
    BY ONLY <1>3, <1>5, <2>1, ValuesOK(V, P, N) DEF ValuesOK
  <2>3. PICK w : w = W["CONSTANT"]
    OBVIOUS
  <2>4. w = (IF f.state = "FAILURE" THEN f ELSE UpdateConst(f, x))
    BY ONLY <1>3, <1>4, <2>1, <2>3 DEF Update
  <2>5. f.state # "FAILURE" => ConstOK(w, Q)
    BY <1>2, <2>2, <2>4, ConstUpdateOK
  <2>6. CASE f.state = "FAILURE"
    BY ONLY <1>2, <2>2, <2>3, <2>4, <2>6 DEF ConstOK, ConstFails
  <2>7. CASE f.state # "FAILURE"
    <3>1. f \in FSM /\ f.state \in {"UNKNOWN", "SUCCESS"}
      BY <2>2, <2>7, FSMFields DEF FSMType, States
    <3>2. w.state = (IF f.state = "SUCCESS" /\ f.prev # x THEN "FAILURE" ELSE "SUCCESS")
      BY ONLY <2>4, <2>7, <3>1 DEF UpdateConst, FSM
    <3>3. ASSUME w.state = "FAILURE" PROVE \E q, r \in Q : q[2] # r[2]
      <4>1. f.state = "SUCCESS" /\ f.prev # x
        BY ONLY <3>2, <3>3
      <4>2. \A q \in P : q[2] = f.prev
        BY ONLY <2>2, <4>1 DEF ConstOK
      <4>3. P # {}
        BY ONLY <2>2, <4>1 DEF ConstFails
      <4>4. QED
        BY ONLY <1>2, <4>1, <4>2, <4>3, <<N, x>>[2] = x
    <3>4. QED
      BY ONLY <1>2, <2>3, <2>5, <2>7, <3>3 DEF ConstFails
  <2>8. QED
    BY ONLY <2>6, <2>7

<1>9. LinearOK(W["LINEAR"], Q, N + 1)
  <2>1. PICK f : f = V["LINEAR"]
    OBVIOUS
  <2>2. FSMType(f, n) /\ LinearOK(f, P, N) /\ Sees(P, N)
    BY ONLY <1>3, <1>5, <2>1, ValuesOK(V, P, N) DEF ValuesOK
  <2>3. W["LINEAR"] = (IF f.state = "FAILURE" THEN f ELSE UpdateLinear(f, x))
    BY ONLY <1>3, <1>4, <2>1 DEF Update
  <2>4. CASE f.state = "FAILURE"
    BY ONLY <2>3, <2>4 DEF LinearOK
  <2>5. CASE f.state # "FAILURE"
    BY <1>2, <2>2, <2>3, <2>5, LinearUpdateOK
  <2>6. QED
    BY ONLY <2>4, <2>5
<1>10. QuardricOK(W["QUARDRIC"], Q, N + 1)
  <2>1. PICK f : f = V["QUARDRIC"]
    OBVIOUS
  <2>2. FSMType(f, n) /\ QuardricOK(f, P, N) /\ Sees(P, N)
    BY ONLY <1>3, <1>5, <2>1, ValuesOK(V, P, N) DEF ValuesOK
  <2>3. W["QUARDRIC"] = (IF f.state = "FAILURE" THEN f ELSE UpdateQuardric(f, x))
    BY ONLY <1>3, <1>4, <2>1 DEF Update
  <2>4. CASE f.state = "FAILURE"
    BY ONLY <2>3, <2>4 DEF QuardricOK
  <2>5. CASE f.state # "FAILURE"
    BY <1>2, <2>2, <2>3, <2>5, QuardricUpdateOK
  <2>6. QED
    BY ONLY <2>4, <2>5
<1>11. W["RANDOM"].state = "SUCCESS"
  <2>1. PICK f : f = V["RANDOM"]
    OBVIOUS
  <2>2. FSMType(f, n) /\ f.state = "SUCCESS"
    BY ONLY <1>3, <1>5, <2>1, ValuesOK(V, P, N) DEF ValuesOK
  <2>3. W["RANDOM"] = CountOf(f, x)
    BY ONLY <1>3, <1>4, <2>1, <2>2 DEF Update, CountOf
  <2>4. QED
    BY <2>2, <2>3, CountOnly
<1>12. ValuesOK(W, Q, N + 1)
  BY ONLY <1>6, <1>7, <1>8, <1>9, <1>10, <1>11 DEF ValuesOK
<1>13. QED
  BY ONLY <1>1, <1>2, <1>12

LEMMA ValuesMissOK ==
  ASSUME NEW n \in Nat, NEW V, ValuesType(V, n),
         NEW P, NEW N \in Nat, ValuesOK(V, P, N)
  PROVE  ValuesOK(Missed(V), P, N + 1)
<1>1. PICK W : W = Missed(V)
  OBVIOUS
<1>2. /\ "UNKNOWN" \in ValuePattern /\ "CONSTANT" \in ValuePattern /\ "LINEAR" \in ValuePattern
      /\ "QUARDRIC" \in ValuePattern /\ "RANDOM" \in ValuePattern
  BY PatternNames
<1>3. \A v \in ValuePattern : W[v] = UpdateMissing(v, V[v])
  BY <1>1 DEF Missed
<1>4. \A v \in ValuePattern : FSMType(V[v], n)
  BY DEF ValuesType
<1>5. Sees(P, N + 1)
  <2>1. Sees(P, N) /\ 0 \in Word
    BY WordType DEF ValuesOK
  <2>2. QED
    BY <2>1, SeesMore
<1>6. W["UNKNOWN"] = V["UNKNOWN"] /\ W["CONSTANT"] = V["CONSTANT"]
  BY ONLY <1>2, <1>3 DEF UpdateMissing
<1>7. LinearOK(W["LINEAR"], P, N + 1)
  <2>1. PICK f : f = V["LINEAR"]
    OBVIOUS
  <2>2. FSMType(f, n) /\ LinearOK(f, P, N)
    BY ONLY <1>2, <1>4, <2>1, ValuesOK(V, P, N) DEF ValuesOK
  <2>3. W["LINEAR"] = (IF f.state = "FAILURE" THEN f ELSE MissLinear(f))
    BY ONLY <1>2, <1>3, <2>1 DEF UpdateMissing
  <2>4. CASE f.state = "FAILURE"
    BY ONLY <2>3, <2>4 DEF LinearOK
  <2>5. CASE f.state # "FAILURE"
    BY <2>2, <2>3, <2>5, LinearMissOK
  <2>6. QED
    BY ONLY <2>4, <2>5
<1>8. QuardricOK(W["QUARDRIC"], P, N + 1)
  <2>1. PICK f : f = V["QUARDRIC"]
    OBVIOUS
  <2>2. FSMType(f, n) /\ QuardricOK(f, P, N)
    BY ONLY <1>2, <1>4, <2>1, ValuesOK(V, P, N) DEF ValuesOK
  <2>3. W["QUARDRIC"] = (IF f.state = "FAILURE" THEN f ELSE MissQuardric(f))
    BY ONLY <1>2, <1>3, <2>1 DEF UpdateMissing
  <2>4. CASE f.state = "FAILURE"
    BY ONLY <2>3, <2>4 DEF QuardricOK
  <2>5. CASE f.state # "FAILURE"
    BY <2>2, <2>3, <2>5, QuardricMissOK
  <2>6. QED
    BY ONLY <2>4, <2>5
<1>9. W["RANDOM"].state = "SUCCESS"
  <2>1. PICK f : f = V["RANDOM"]
    OBVIOUS
  <2>2. FSMType(f, n) /\ f.state = "SUCCESS"
    BY ONLY <1>2, <1>4, <2>1, ValuesOK(V, P, N) DEF ValuesOK
  <2>3. W["RANDOM"] = [f EXCEPT !.updates = @ + 1]
    BY ONLY <1>2, <1>3, <2>1, <2>2 DEF UpdateMissing
  <2>4. QED
    BY ONLY <2>2, <2>3 DEF FSMType, FSM
<1>10. ValuesOK(W, P, N + 1)
  BY ONLY <1>5, <1>6, <1>7, <1>8, <1>9, ValuesOK(V, P, N) DEF ValuesOK
<1>11. QED
  BY ONLY <1>1, <1>10

(* The last value is the previous one of those that have not failed. *)
PrevOK(V, x) == \A v \in ValuePattern : V[v].state # "FAILURE" => V[v].prev = x

LEMMA UpdatedType ==
  ASSUME NEW n \in Nat, NEW V, ValuesType(V, n), NEW x \in Word
  PROVE  ValuesType(Updated(V, x), n + 1) /\ PrevOK(Updated(V, x), x)
<1>1. PICK W : W = Updated(V, x)
  OBVIOUS
<1>2. DOMAIN W = ValuePattern /\ W = [v \in ValuePattern |-> W[v]]
  BY <1>1 DEF Updated
<1>3. ASSUME NEW v \in ValuePattern
      PROVE  FSMType(W[v], n + 1) /\ (W[v].state # "FAILURE" => W[v].prev = x)
  <2>1. W[v] = Update(v, V[v], x)
    BY <1>1 DEF Updated
  <2>2. FSMType(V[v], n)
    BY DEF ValuesType
  <2>3. QED
    BY <2>1, <2>2, UpdateType
<1>4. \A v \in ValuePattern : W[v] \in FSM
  BY <1>3 DEF FSMType
<1>5. ValuesType(W, n + 1)
  BY ONLY <1>2, <1>3, <1>4 DEF ValuesType
<1>6. PrevOK(W, x)
  BY ONLY <1>3 DEF PrevOK
<1>7. QED
  BY ONLY <1>1, <1>5, <1>6

LEMMA MissedType ==
  ASSUME NEW n \in Nat, NEW V, ValuesType(V, n)
  PROVE  ValuesType(Missed(V), n + 1)
<1>1. PICK W : W = Missed(V)
  OBVIOUS
<1>2. DOMAIN W = ValuePattern /\ W = [v \in ValuePattern |-> W[v]]
  BY <1>1 DEF Missed
<1>3. ASSUME NEW v \in ValuePattern
      PROVE  FSMType(W[v], n + 1)
  <2>1. W[v] = UpdateMissing(v, V[v])
    BY <1>1 DEF Missed
  <2>2. FSMType(V[v], n)
    BY DEF ValuesType
  <2>3. QED
    BY <2>1, <2>2, MissingType
<1>4. \A v \in ValuePattern : W[v] \in FSM
  BY <1>3 DEF FSMType
<1>5. ValuesType(W, n + 1)
  BY ONLY <1>2, <1>3, <1>4 DEF ValuesType
<1>6. QED
  BY ONLY <1>1, <1>5

LEMMA ValuesTypeGrows ==
  ASSUME NEW n \in Nat, NEW V, ValuesType(V, n)
  PROVE  ValuesType(V, n + 1)
  BY FSMTypeGrows DEF ValuesType

-----------------------------------------------------------------------------
(* An access pattern and the history fed to it *)

AccessType(F, n) ==
  /\ F = [state |-> F.state, vals |-> F.vals]
  /\ F.state \in States /\ ValuesType(F.vals, n)

(* Where a gap makes it fail, what has not failed saw none. *)
AccessOK(h, a, F) ==
  /\ AccessType(F, Len(h))
  /\ h # <<>> => F.state # "UNKNOWN"
  /\ a = "SAME_COND" => F.state # "FAILURE"
  /\ F.state # "FAILURE" =>
       /\ ValuesOK(F.vals, Points(h, a), StepCount(h, a))
       /\ a \in {"UNCOND", "COND_UPDATE"} => \A k \in 1 .. Len(h) : h[k][1]
       /\ a = "COND_UPDATE" /\ h # <<>> => PrevOK(F.vals, h[Len(h)][2])

LEMMA FreshOK ==
  ASSUME NEW a \in AccessPattern
  PROVE  AccessOK(<<>>, a, FreshFSMs[a])
<1>1. PICK V : V = [v \in ValuePattern |-> FreshValueFSM(v)]
  OBVIOUS
<1>2. PICK F : F = FreshFSMs[a]
  OBVIOUS
<1>3. F = [state |-> "UNKNOWN", vals |-> V]
  BY ONLY <1>1, <1>2, a \in AccessPattern DEF FreshFSMs
<1>4. ValuesType(V, 0) /\ ValuesOK(V, {}, 0)
  BY <1>1, ValuesFresh
<1>5. Points(<<>>, a) = {} /\ StepCount(<<>>, a) = 0 /\ Len(<<>>) = 0
  BY NoPoints
<1>6. F.state = "UNKNOWN" /\ F.vals = V /\ F = [state |-> F.state, vals |-> F.vals]
  BY ONLY <1>3
<1>7. \A k \in 1 .. 0 : FALSE
  OBVIOUS
<1>8. AccessOK(<<>>, a, F)
  BY ONLY <1>4, <1>5, <1>6, <1>7 DEF AccessOK, AccessType, States
<1>9. QED
  BY ONLY <1>2, <1>8

LEMMA AccessMissing ==
  ASSUME NEW h \in Seq(Entry), NEW a \in AccessPattern, NEW F, AccessOK(h, a, F)
  PROVE  AccessOK(Append(h, <<FALSE, 0>>), a, FeedMissing(a, F))
<1>1. PICK n \in Nat : n = Len(h)
  OBVIOUS
<1>2. PICK e \in Entry : e = <<FALSE, 0>> /\ ~e[1]
  <2>1. <<FALSE, 0>> \in Entry
    BY WordType DEF Entry
  <2>2. ~(<<FALSE, 0>>[1])
    OBVIOUS
  <2>3. QED
    BY ONLY <2>1, <2>2, Zenon
<1>3. PICK g : g = Append(h, e)
  OBVIOUS
<1>4. Len(g) = n + 1 /\ g # <<>>
  BY <1>1, <1>3
<1>5. Points(g, a) = Points(h, a)
      /\ (NewStep(h, a, e) => StepCount(g, a) = StepCount(h, a) + 1)
      /\ (~NewStep(h, a, e) => StepCount(g, a) = StepCount(h, a))
  <2>1. Longer(h, a, e, g)
    BY <1>3, HistoryGrows
  <2>2. QED
    BY ONLY <1>2, <2>1 DEF Longer
<1>6. PICK S, V : S = F.state /\ V = F.vals
  OBVIOUS
<1>7. /\ F = [state |-> S, vals |-> V] /\ S \in States /\ ValuesType(V, n)
      /\ a = "SAME_COND" => S # "FAILURE"
      /\ S # "FAILURE" => ValuesOK(V, Points(h, a), StepCount(h, a))
  BY ONLY <1>1, <1>6, AccessOK(h, a, F) DEF AccessOK, AccessType
<1>8. ValuesType(V, n + 1)
  BY <1>7, ValuesTypeGrows
<1>9. a \in {"UNCOND", "COND_ACCESS", "COND_UPDATE", "SAME_COND"}
  BY PatternNames
<1>10. PICK G : G = FeedMissing(a, F)
  OBVIOUS
<1>11. SUFFICES AccessOK(g, a, G)
  BY <1>2, <1>3, <1>10
<1>12. CASE S = "FAILURE" \/ a \in {"UNCOND", "COND_UPDATE"}
  <2>1. G.state = "FAILURE" /\ G.vals = V /\ G = [state |-> G.state, vals |-> G.vals]
    BY ONLY <1>7, <1>10, <1>12 DEF FeedMissing
  <2>2. a # "SAME_COND"
    BY ONLY <1>7, <1>12
  <2>3. QED
    BY ONLY <1>4, <1>8, <2>1, <2>2 DEF AccessOK, AccessType, States
<1>13. CASE S # "FAILURE" /\ a = "COND_ACCESS"
  <2>1. G = [state |-> "SUCCESS", vals |-> Missed(V)]
    BY ONLY <1>6, <1>7, <1>10, <1>13 DEF FeedMissing, Missed
  <2>2. ValuesType(Missed(V), n + 1)
    BY <1>7, MissedType
  <2>3. StepCount(g, a) = StepCount(h, a) + 1
    BY ONLY <1>5, <1>13 DEF NewStep
  <2>4. StepCount(h, a) \in Nat
    BY <1>1, n + 1 \in Nat, StepsFinite DEF StepCount
  <2>5. ValuesOK(Missed(V), Points(h, a), StepCount(h, a) + 1)
    BY <1>7, <1>13, <2>4, ValuesMissOK
  <2>6. G.state = "SUCCESS" /\ G.vals = Missed(V) /\ G = [state |-> G.state, vals |-> G.vals]
    BY ONLY <2>1
  <2>7. QED
    BY ONLY <1>4, <1>5, <1>13, <2>2, <2>3, <2>5, <2>6 DEF AccessOK, AccessType, States
<1>14. CASE S # "FAILURE" /\ a = "SAME_COND"
  <2>1. G.state = "SUCCESS" /\ G.vals = V /\ G = [state |-> G.state, vals |-> G.vals]
    BY ONLY <1>7, <1>10, <1>14 DEF FeedMissing
  <2>2. StepCount(g, a) = StepCount(h, a)
    BY ONLY <1>2, <1>5, <1>14 DEF NewStep
  <2>3. QED
    BY ONLY <1>4, <1>5, <1>7, <1>8, <1>14, <2>1, <2>2 DEF AccessOK, AccessType, States
<1>15. QED
  BY ONLY <1>9, <1>12, <1>13, <1>14

LEMMA AccessAccess ==
  ASSUME NEW h \in Seq(Entry), NEW a \in AccessPattern, NEW F, AccessOK(h, a, F),
         NEW x \in Word
  PROVE  AccessOK(Append(h, <<TRUE, x>>), a, FeedAccess(a, F, x, h = <<>>))
<1>1. PICK n \in Nat : n = Len(h)
  OBVIOUS
<1>2. PICK e \in Entry : e = <<TRUE, x>> /\ e[1] /\ e[2] = x
  <2>1. <<TRUE, x>> \in Entry
    BY DEF Entry
  <2>2. <<TRUE, x>>[1] /\ <<TRUE, x>>[2] = x
    OBVIOUS
  <2>3. QED
    BY ONLY <2>1, <2>2, Zenon
<1>3. PICK g : g = Append(h, e)
  OBVIOUS
<1>4. /\ Len(g) = n + 1 /\ g # <<>> /\ g[Len(g)] = e
      /\ \A k \in 1 .. n + 1 : k = n + 1 \/ (k \in 1 .. n /\ g[k] = h[k])
  BY <1>1, <1>3
<1>5. /\ NewStep(h, a, e) =>
           /\ StepCount(g, a) = StepCount(h, a) + 1
           /\ Points(g, a) = Points(h, a) \cup {<<StepCount(h, a), x>>}
      /\ ~NewStep(h, a, e) =>
           StepCount(g, a) = StepCount(h, a) /\ Points(g, a) = Points(h, a)
  <2>1. Longer(h, a, e, g)
    BY <1>3, HistoryGrows
  <2>2. QED
    BY ONLY <1>2, <2>1 DEF Longer
<1>6. PICK S, V : S = F.state /\ V = F.vals
  OBVIOUS
<1>7. /\ F = [state |-> S, vals |-> V] /\ S \in States /\ ValuesType(V, n)
      /\ a = "SAME_COND" => S # "FAILURE"
      /\ S # "FAILURE" =>
           /\ ValuesOK(V, Points(h, a), StepCount(h, a))
           /\ a \in {"UNCOND", "COND_UPDATE"} => \A k \in 1 .. n : h[k][1]
           /\ a = "COND_UPDATE" /\ h # <<>> => PrevOK(V, h[n][2])
  BY ONLY <1>1, <1>6, AccessOK(h, a, F) DEF AccessOK, AccessType
<1>8. ValuesType(V, n + 1)
  BY <1>7, ValuesTypeGrows
<1>9. PICK G : G = FeedAccess(a, F, x, h = <<>>)
  OBVIOUS
<1>10. SUFFICES AccessOK(g, a, G)
  BY <1>2, <1>3, <1>9
<1>11. CASE S = "FAILURE"
  <2>1. G.state = "FAILURE" /\ G.vals = V /\ G = [state |-> G.state, vals |-> G.vals]
    BY ONLY <1>7, <1>9, <1>11 DEF FeedAccess
  <2>2. a # "SAME_COND"
    BY ONLY <1>7, <1>11
  <2>3. QED
    BY ONLY <1>4, <1>8, <2>1, <2>2 DEF AccessOK, AccessType, States
<1>12. CASE S # "FAILURE"
  <2>1. PICK W : W = [v \in ValuePattern |->
                        IF a = "COND_UPDATE" /\ ~(h = <<>>) /\ x = V[v].prev
                        THEN V[v] ELSE Update(v, V[v], x)]
    OBVIOUS
  <2>2. G = [state |-> "SUCCESS", vals |-> W]
    BY ONLY <1>6, <1>7, <1>9, <1>12, <2>1 DEF FeedAccess
  <2>3. G.state = "SUCCESS" /\ G.vals = W /\ G = [state |-> G.state, vals |-> G.vals]
    BY ONLY <2>2
  <2>4. \A k \in 1 .. Len(g) : a \in {"UNCOND", "COND_UPDATE"} => g[k][1]
    <3>1. g[n + 1][1]
      BY ONLY <1>2, <1>4
    <3>2. QED
      BY ONLY <1>4, <1>7, <1>12, <3>1
  <2>5. g[Len(g)][2] = x
    BY ONLY <1>2, <1>4
  <2>6. NewStep(h, a, e) <=> ~(a = "COND_UPDATE" /\ h # <<>> /\ x = h[n][2])
    BY ONLY <1>1, <1>2 DEF NewStep
  <2>7. CASE a = "COND_UPDATE" /\ h # <<>> /\ x = h[n][2]
    <3>1. PrevOK(V, x)
      BY ONLY <1>7, <1>12, <2>7
    <3>2. \A v \in ValuePattern : W[v] = V[v]
      BY ONLY <2>1, <2>7, <3>1 DEF PrevOK, Update
    <3>3. V = [v \in ValuePattern |-> V[v]] /\ W = [v \in ValuePattern |-> W[v]]
      BY ONLY <1>7, <2>1 DEF ValuesType
    <3>4. W = V
      BY ONLY <3>2, <3>3
    <3>5. QED
      BY ONLY <1>4, <1>5, <1>7, <1>8, <1>12, <2>3, <2>4, <2>5, <2>6, <2>7, <3>1, <3>4
      DEF AccessOK, AccessType, States
  <2>8. CASE ~(a = "COND_UPDATE" /\ h # <<>> /\ x = h[n][2])
    <3>1. a = "COND_UPDATE" /\ h # <<>> => PrevOK(V, h[n][2]) /\ x # h[n][2]
      BY ONLY <1>7, <1>12, <2>8
    <3>2. \A v \in ValuePattern : W[v] = Update(v, V[v], x)
      BY ONLY <2>1, <3>1 DEF PrevOK, Update
    <3>3. W = [v \in ValuePattern |-> W[v]]
      BY ONLY <2>1
    <3>4. W = Updated(V, x)
      BY ONLY <3>2, <3>3 DEF Updated
    <3>5. ValuesType(W, n + 1) /\ PrevOK(W, x)
      BY <1>7, <3>4, UpdatedType
    <3>6. PICK N \in Nat, P \in {Points(h, a)} : N = StepCount(h, a) /\ P = Points(h, a)
      BY <1>1, n + 1 \in Nat, StepsFinite DEF StepCount
    <3>7. ValuesOK(W, P \cup {<<N, x>>}, N + 1)
      BY <1>7, <1>12, <3>4, <3>6, ValuesUpdateOK
    <3>8. StepCount(g, a) = N + 1 /\ Points(g, a) = P \cup {<<N, x>>}
      BY ONLY <1>5, <2>6, <2>8, <3>6
    <3>9. QED
      BY ONLY <1>4, <2>3, <2>4, <2>5, <3>5, <3>7, <3>8
      DEF AccessOK, AccessType, States
  <2>9. QED
    BY ONLY <2>7, <2>8
<1>13. QED
  BY ONLY <1>11, <1>12

-----------------------------------------------------------------------------
(* What replaying a pattern gives *)

LEMMA LeastElement ==
  ASSUME NEW T, T \subseteq Nat, T # {}
  PROVE  \E x \in T : \A y \in T : x <= y
<1>1. PICK R : R = OpToRel(<, Nat)
  OBVIOUS
<1>2. IsWellFoundedOn(R, Nat)
  BY <1>1, NatLessThanWellFounded
<1>3. \A y, x \in Nat : y < x => <<y, x>> \in R
  BY <1>1, Zenon DEF OpToRel
<1>4. PICK x \in T : \A y \in T : ~ (<<y, x>> \in R)
  BY ONLY <1>2, WFMin, T \subseteq Nat, T # {}
<1>5. \A y \in T : ~ (y < x)
  BY ONLY <1>3, <1>4, T \subseteq Nat
<1>6. QED
  BY ONLY <1>5, T \subseteq Nat, x \in T

(* The indices a pattern has at step n. *)
IndexAt(p, n) ==
  IF p.val = "LINEAR" THEN <<n, 0>>
  ELSE IF p.val = "QUARDRIC" THEN <<n % p.ni, n \div p.ni>> ELSE <<0, 0>>

LEMMA IndexStep ==
  ASSUME NEW p, p.val = "QUARDRIC" => p.ni \in Nat \ {0}, NEW k \in Nat
  PROVE  /\ IndexAt(p, 0) = <<0, 0>>
         /\ IndexAt(p, k + 1) =
              IF p.val = "LINEAR" THEN <<IndexAt(p, k)[1] + 1, 0>>
              ELSE IF p.val # "QUARDRIC" THEN IndexAt(p, k)
              ELSE IF IndexAt(p, k)[1] + 1 = p.ni THEN <<0, IndexAt(p, k)[2] + 1>>
              ELSE <<IndexAt(p, k)[1] + 1, IndexAt(p, k)[2]>>
<1>1. CASE p.val # "QUARDRIC"
  BY ONLY <1>1 DEF IndexAt
<1>2. CASE p.val = "QUARDRIC"
  <2>1. PICK ni \in Nat \ {0} : ni = p.ni
    BY <1>2
  <2>2. 0 % ni = 0 /\ 0 \div ni = 0
    <3>1. 0 = ni * 0 + 0 /\ 0 \in 0 .. ni - 1 /\ 0 \in Int
      OBVIOUS
    <3>2. QED
      BY <3>1, DivModUnique
  <2>a. PICK N \in Nat : N = k + 1
    OBVIOUS
  <2>3. N = k + 1 /\ N - 1 = k
    BY <2>a
  <2>4. PICK i, j : i = k % ni /\ j = k \div ni
    OBVIOUS
  <2>5. NextAt(N, ni, (N - 1) % ni, (N - 1) \div ni)
    BY NextPosition
  <2>6. NextAt(N, ni, i, j)
    BY ONLY <2>3, <2>4, <2>5
  <2>7. IndexAt(p, k) = <<i, j>> /\ IndexAt(p, N) = <<N % ni, N \div ni>>
        /\ IndexAt(p, 0) = <<0, 0>>
    BY ONLY <1>2, <2>1, <2>2, <2>4 DEF IndexAt
  <2>8. IndexAt(p, N) = IF i + 1 = ni THEN <<0, j + 1>> ELSE <<i + 1, j>>
    BY ONLY <2>6, <2>7 DEF NextAt
  <2>9. QED
    BY ONLY <1>2, <2>1, <2>3, <2>7, <2>8
<1>3. QED
  BY ONLY <1>1, <1>2

LEMMA IndicesExact ==
  ASSUME NEW p, p.val = "QUARDRIC" => p.ni \in Nat \ {0}, NEW n \in Nat
  PROVE  Indices(p, n) = IndexAt(p, n)
<1> DEFINE Step(ij) ==
             IF p.val = "LINEAR" THEN <<ij[1] + 1, 0>>
             ELSE IF p.val # "QUARDRIC" THEN ij
             ELSE IF ij[1] + 1 = p.ni THEN <<0, ij[2] + 1>> ELSE <<ij[1] + 1, ij[2]>>
           Rec(g) == [k \in 0 .. n |-> IF k = 0 THEN <<0, 0>> ELSE Step(g[k - 1])]
           h == [k \in 0 .. n |-> IndexAt(p, k)]
           m == CHOOSE g : g = Rec(g)
<1>1. IndexAt(p, 0) = <<0, 0>> /\ \A k \in Nat : IndexAt(p, k + 1) = Step(IndexAt(p, k))
  BY IndexStep
<1>2. Indices(p, n) = m[n]
  BY DEF Indices
<1> HIDE DEF Step
<1>3. \A k \in 0 .. n : k = 0 \/ (k - 1 \in Nat /\ k - 1 \in 0 .. n /\ k - 1 + 1 = k)
  OBVIOUS
<1>4. h = Rec(h)
  <2>1. \A k \in 0 .. n : h[k] = IF k = 0 THEN <<0, 0>> ELSE Step(h[k - 1])
    BY <1>1, <1>3
  <2>2. QED
    BY <2>1
<1>5. ASSUME NEW g, g = Rec(g)
      PROVE  g[n] = IndexAt(p, n)
  <2> DEFINE T == {k \in 0 .. n : g[k] # IndexAt(p, k)}
  <2>1. \A k \in 0 .. n : g[k] = IF k = 0 THEN <<0, 0>> ELSE Step(g[k - 1])
    BY <1>5
  <2>2. T = {}
    <3> SUFFICES ASSUME T # {} PROVE FALSE
      OBVIOUS
    <3>1. PICK x \in T : \A y \in T : x <= y
      BY LeastElement, T \subseteq Nat
    <3>2. x # 0
      BY <1>1, <2>1
    <3>3. x \in 0 .. n /\ x - 1 \in Nat /\ x - 1 + 1 = x /\ x - 1 \in 0 .. n /\ x - 1 \notin T
      BY <1>3, <3>1, <3>2
    <3>4. g[x - 1] = IndexAt(p, x - 1)
      BY <3>3
    <3>5. g[x] = Step(IndexAt(p, x - 1))
      BY ONLY <2>1, <3>2, <3>3, <3>4
    <3>6. IndexAt(p, x) = Step(IndexAt(p, x - 1))
      BY <1>1, <3>3
    <3>7. QED
      BY <3>5, <3>6
  <2>3. QED
    BY <2>2
<1>6. m = Rec(m)
  <2> HIDE DEF Rec, h
  <2>1. QED
    BY <1>4
<1>7. m[n] = IndexAt(p, n)
  <2> HIDE DEF m, Rec
  <2>1. QED
    BY <1>5, <1>6
<1>8. QED
  BY <1>2, <1>7

-----------------------------------------------------------------------------
(* The pattern picked for an instance *)

LEMMA Orders ==
  /\ \A k \in 1 .. 5 : ValueOrder[k] \in ValuePattern
  /\ \A k \in 1 .. 4 : AccessOrder[k] \in AccessPattern
  /\ ValueOrder[1] = "UNKNOWN" /\ ValueOrder[2] = "CONSTANT" /\ ValueOrder[3] = "LINEAR"
  /\ ValueOrder[4] = "QUARDRIC" /\ ValueOrder[5] = "RANDOM"
  /\ AccessOrder[4] = "SAME_COND"
  /\ DOMAIN ValueOrder = 1 .. 5
<1>1. \A k : k \in 1 .. 5 => k \in {1, 2, 3, 4, 5}
  OBVIOUS
<1>2. \A k : k \in 1 .. 4 => k \in {1, 2, 3, 4}
  OBVIOUS
<1>3. /\ ValueOrder[1] = "UNKNOWN" /\ ValueOrder[2] = "CONSTANT" /\ ValueOrder[3] = "LINEAR"
      /\ ValueOrder[4] = "QUARDRIC" /\ ValueOrder[5] = "RANDOM"
      /\ AccessOrder[1] = "UNCOND" /\ AccessOrder[2] = "COND_ACCESS"
      /\ AccessOrder[3] = "COND_UPDATE" /\ AccessOrder[4] = "SAME_COND"
      /\ DOMAIN ValueOrder = 1 .. 5
  BY DEF ValueOrder, AccessOrder
<1>4. /\ ValuePattern = {"UNKNOWN", "CONSTANT", "LINEAR", "QUARDRIC", "RANDOM"}
      /\ AccessPattern = {"UNCOND", "COND_ACCESS", "COND_UPDATE", "SAME_COND"}
  BY PatternNames
<1>5. QED
  BY ONLY <1>1, <1>2, <1>3, <1>4

LEMMA IndexOfValue ==
  ASSUME NEW v \in ValuePattern
  PROVE  IndexIn(ValueOrder, v) \in 1 .. 5 /\ ValueOrder[IndexIn(ValueOrder, v)] = v
<1>1. \E k \in DOMAIN ValueOrder : ValueOrder[k] = v
  BY Orders, PatternNames, 1 \in 1 .. 5, 2 \in 1 .. 5, 3 \in 1 .. 5, 4 \in 1 .. 5, 5 \in 1 .. 5
<1>2. DOMAIN ValueOrder = 1 .. 5
  BY Orders
<1>3. QED
  BY ONLY <1>1, <1>2 DEF IndexIn

(* The first value pattern that has not failed. *)
FirstOf(V, v) ==
  /\ v \in ValuePattern /\ V[v].state # "FAILURE"
  /\ v # "UNKNOWN" => V["UNKNOWN"].state = "FAILURE"
  /\ v \notin {"UNKNOWN", "CONSTANT"} => V["CONSTANT"].state = "FAILURE"
  /\ v \notin {"UNKNOWN", "CONSTANT", "LINEAR"} => V["LINEAR"].state = "FAILURE"

LEMMA ValueOfFirst ==
  ASSUME NEW F, F.vals["RANDOM"].state # "FAILURE"
  PROVE  FirstOf(F.vals, ValueOf(F))
<1> DEFINE Good(k) == /\ F.vals[ValueOrder[k]].state # "FAILURE"
                      /\ \A l \in 1 .. k - 1 : F.vals[ValueOrder[l]].state = "FAILURE"
           T == {k \in 1 .. 5 : F.vals[ValueOrder[k]].state # "FAILURE"}
<1>1. T # {} /\ T \subseteq Nat
  BY Orders, 5 \in 1 .. 5
<1>2. PICK x \in T : \A y \in T : x <= y
  <2> HIDE DEF T
  <2>1. QED
    BY <1>1, LeastElement
<1>3. Good(x)
  BY <1>2
<1>4. \E k \in 1 .. 5 : Good(k)
  BY <1>2, <1>3
<1>5. PICK k \in 1 .. 5 : Good(k) /\ ValueOf(F) = ValueOrder[k]
  <2>1. ValueOf(F) = ValueOrder[CHOOSE k \in 1 .. 5 : Good(k)]
    BY DEF ValueOf
  <2> HIDE DEF Good
  <2>2. QED
    BY ONLY <1>4, <2>1
<1>6. PICK v : v = ValueOf(F)
  OBVIOUS
<1>7. v = ValueOrder[k] /\ v \in ValuePattern /\ F.vals[v].state # "FAILURE"
  BY <1>5, <1>6, Orders
<1>8. \A l \in 1 .. k - 1 : F.vals[ValueOrder[l]].state = "FAILURE"
  BY <1>5
<1>9. k = 1 \/ (k = 2 /\ 1 \in 1 .. k - 1) \/ (k = 3 /\ 1 \in 1 .. k - 1 /\ 2 \in 1 .. k - 1)
      \/ (k \in {4, 5} /\ 1 \in 1 .. k - 1 /\ 2 \in 1 .. k - 1 /\ 3 \in 1 .. k - 1)
  OBVIOUS
<1>10. /\ ValueOrder[1] = "UNKNOWN" /\ ValueOrder[2] = "CONSTANT" /\ ValueOrder[3] = "LINEAR"
       /\ ValueOrder[4] = "QUARDRIC" /\ ValueOrder[5] = "RANDOM"
  BY Orders
<1>11. FirstOf(F.vals, v)
  BY ONLY <1>7, <1>8, <1>9, <1>10 DEF FirstOf
<1>12. QED
  BY ONLY <1>6, <1>11

(* Some access pattern is picked, and it has not failed. *)
LEMMA ChosenFits ==
  ASSUME \A a \in AccessPattern : AccessOK(history, a, fsms[a]), history # <<>>
  PROVE  /\ Chosen \in AccessPattern /\ fsms[Chosen].state = "SUCCESS"
         /\ \A a \in AccessPattern : fsms[a].state = "SUCCESS" =>
              IndexIn(ValueOrder, ValueOf(fsms[Chosen])) <= IndexIn(ValueOrder, ValueOf(fsms[a]))
<1> DEFINE ok(k) == fsms[AccessOrder[k]].state = "SUCCESS"
           rank(k) == IndexIn(ValueOrder, ValueOf(fsms[AccessOrder[k]]))
           best(k) == ok(k) /\ \A l \in 1 .. 4 :
                        ok(l) => rank(k) < rank(l) \/ (rank(k) = rank(l) /\ k <= l)
           T == {r \in 1 .. 5 : \E k \in 1 .. 4 : ok(k) /\ rank(k) = r}
<1>1. ASSUME NEW k \in 1 .. 4, ok(k)
      PROVE  rank(k) \in 1 .. 5
  <2>1. PICK a \in AccessPattern : a = AccessOrder[k]
    BY Orders
  <2>2. fsms[a].state # "FAILURE"
    BY <1>1, <2>1
  <2>3. fsms[a].vals["RANDOM"].state = "SUCCESS"
    BY <2>2 DEF AccessOK, ValuesOK
  <2>4. PICK F : F = fsms[a]
    OBVIOUS
  <2>5. FirstOf(F.vals, ValueOf(F))
    BY <2>3, <2>4, ValueOfFirst
  <2>6. ValueOf(F) \in ValuePattern
    BY ONLY <2>5 DEF FirstOf
  <2>7. IndexIn(ValueOrder, ValueOf(F)) \in 1 .. 5
    BY <2>6, IndexOfValue
  <2>8. QED
    BY ONLY <2>1, <2>4, <2>7
<1>2. ok(4)
  <2>1. "SAME_COND" \in AccessPattern
    BY PatternNames
  <2>2. /\ fsms["SAME_COND"].state \in States /\ fsms["SAME_COND"].state # "UNKNOWN"
        /\ fsms["SAME_COND"].state # "FAILURE"
    BY <2>1 DEF AccessOK, AccessType
  <2>3. QED
    BY <2>2, Orders DEF States
<1> HIDE DEF ok, rank
<1>3. T # {} /\ T \subseteq Nat
  <2>1. 4 \in 1 .. 4
    OBVIOUS
  <2>2. rank(4) \in 1 .. 5
    BY <1>1, <1>2, <2>1
  <2>3. rank(4) \in T
    BY ONLY <1>2, <2>1, <2>2
  <2>4. T \subseteq Nat
    OBVIOUS
  <2>5. QED
    BY <2>3, <2>4
<1>4. PICK r \in T : \A y \in T : r <= y
  <2> HIDE DEF T
  <2>1. QED
    BY <1>3, LeastElement
<1> DEFINE U == {k \in 1 .. 4 : ok(k) /\ rank(k) = r}
<1>5. U # {} /\ U \subseteq Nat
  BY <1>4
<1>6. PICK k \in U : \A y \in U : k <= y
  <2> HIDE DEF U
  <2>1. QED
    BY <1>5, LeastElement
<1>7. best(k)
  <2> SUFFICES ASSUME NEW l \in 1 .. 4, ok(l)
               PROVE  rank(k) < rank(l) \/ (rank(k) = rank(l) /\ k <= l)
    BY <1>6
  <2>1. rank(l) \in T /\ r <= rank(l)
    BY <1>1, <1>4
  <2>2. rank(l) = r => l \in U
    OBVIOUS
  <2>3. rank(k) = r /\ r \in 1 .. 5 /\ rank(l) \in 1 .. 5
    BY <1>1, <1>4, <1>6
  <2>4. QED
    BY <1>6, <2>1, <2>2, <2>3
<1>8. PICK c \in 1 .. 4 : best(c) /\ Chosen = AccessOrder[c]
  <2>1. Chosen = AccessOrder[CHOOSE j \in 1 .. 4 : best(j)]
    BY DEF Chosen, ok, rank
  <2>2. \E j \in 1 .. 4 : best(j)
    BY <1>6, <1>7
  <2> HIDE DEF best
  <2>3. QED
    BY ONLY <2>1, <2>2
<1>9. Chosen \in AccessPattern /\ fsms[Chosen].state = "SUCCESS"
  BY <1>8, Orders DEF ok
<1>10. ASSUME NEW a \in AccessPattern, fsms[a].state = "SUCCESS"
       PROVE  IndexIn(ValueOrder, ValueOf(fsms[Chosen])) <= IndexIn(ValueOrder, ValueOf(fsms[a]))
  <2>1. PICK l \in 1 .. 4 : a = AccessOrder[l]
    BY DEF AccessPattern, ToSet, AccessOrder
  <2>2. ok(l)
    BY <1>10, <2>1 DEF ok
  <2>3. rank(c) <= rank(l)
    BY <1>1, <1>8, <2>2
  <2>4. QED
    BY <1>8, <2>1, <2>3 DEF rank
<1>11. QED
  BY <1>9, <1>10

(* The values of a pattern are right at its points. *)
FitsPoints(p, P) == \A q \in P : Replay(p, q[1]) = q[2]

LEMMA FitsReplays ==
  ASSUME NEW p, FitsPoints(p, Points(p.history, p.acc))
  PROVE  ReplaysHistory(p)
<1> SUFFICES ASSUME NEW k \in Valued(p.history, p.acc)
             PROVE  Replay(p, StepsBefore(p.history, p.acc, k)) = p.history[k][2]
  BY DEF ReplaysHistory
<1>1. PICK q : q = <<StepsBefore(p.history, p.acc, k), p.history[k][2]>>
  OBVIOUS
<1>2. q \in Points(p.history, p.acc)
  BY <1>1 DEF Points
<1>3. q[1] = StepsBefore(p.history, p.acc, k) /\ q[2] = p.history[k][2]
  BY <1>1
<1>4. Replay(p, q[1]) = q[2]
  BY <1>2 DEF FitsPoints
<1>5. QED
  BY ONLY <1>3, <1>4

LEMMA RowsSmooth ==
  ASSUME NEW p, NEW h \in Seq(Entry), h = p.history, RowsKnown(p)
  PROVE  Smooth(FirstRow(Points(h, p.acc), p.ni), p.ni)
<1>1. PICK a : a = p.acc
  OBVIOUS
<1>2. \A k \in Valued(h, a) : k \in Nat
  BY DEF Valued
<1> SUFFICES ASSUME NEW q \in FirstRow(Points(h, a), p.ni), NEW r \in FirstRow(Points(h, a), p.ni),
                    q[1] < r[1]
             PROVE  q[2] <= r[2] /\ (r[2] - q[2]) * p.ni < M
  BY <1>1 DEF Smooth
<1>3. PICK k \in Valued(h, a) : q = <<StepsBefore(h, a, k), h[k][2]>>
  BY DEF FirstRow, Points
<1>4. PICK l \in Valued(h, a) : r = <<StepsBefore(h, a, l), h[l][2]>>
  BY DEF FirstRow, Points
<1>5. k \in Nat /\ l \in Nat /\ StepsBefore(h, a, k) \in Nat /\ StepsBefore(h, a, l) \in Nat
  BY <1>2, StepsFinite
<1>6. q[1] = StepsBefore(h, a, k) /\ r[1] = StepsBefore(h, a, l) /\ q[2] = h[k][2] /\ r[2] = h[l][2]
  BY <1>3, <1>4
<1>7. StepsBefore(h, a, k) < StepsBefore(h, a, l)
  BY <1>6
<1>8. ~ l <= k
  <2>1. ASSUME l <= k PROVE StepsBefore(h, a, l) <= StepsBefore(h, a, k)
    BY <1>5, <2>1, StepsMonotonic
  <2>2. QED
    BY ONLY <1>5, <1>7, <2>1
<1>9. k < l
  BY ONLY <1>5, <1>8
<1>10. StepsBefore(h, a, k) < p.ni /\ StepsBefore(h, a, l) < p.ni
  BY <1>6 DEF FirstRow
<1>11. h[k][2] <= h[l][2] /\ (h[l][2] - h[k][2]) * p.ni < M
  BY ONLY <1>1, <1>9, <1>10, k \in Valued(h, a), l \in Valued(h, a), h = p.history, RowsKnown(p)
  DEF RowsKnown
<1>12. QED
  BY ONLY <1>6, <1>11

LEMMA ConstReplays ==
  ASSUME NEW p, NEW f \in FSM, NEW P, P \subseteq Nat \X Word, p.val = "CONSTANT",
         p.base = f.prev, p.strideI \in Word, p.strideJ \in Word,
         f.state # "FAILURE", ConstOK(f, P)
  PROVE  FitsPoints(p, P)
<1> SUFFICES ASSUME NEW q \in P PROVE Replay(p, q[1]) = q[2]
  BY DEF FitsPoints
<1>1. q[2] = f.prev
  BY FSMFields DEF ConstOK, States
<1>2. Indices(p, q[1]) = <<0, 0>>
  BY IndicesExact DEF IndexAt
<1>3. PICK b \in Word, u \in Word, v \in Word : b = p.base /\ u = p.strideI /\ v = p.strideJ
  BY FSMFields
<1>4. Replay(p, q[1]) = (b + u * 0 + v * 0) % M
  BY ONLY <1>2, <1>3 DEF Replay
<1>5. b + u * 0 + v * 0 = b /\ b \in 0 .. M - 1
  BY <1>3, WordType DEF Word
<1>6. b % M = b
  BY <1>5, WordType, ModSmall
<1>7. QED
  BY ONLY <1>1, <1>3, <1>4, <1>5, <1>6, p.base = f.prev

LEMMA LinearReplays ==
  ASSUME NEW p, NEW f \in FSM, NEW P, P \subseteq Nat \X Word, p.val = "LINEAR",
         p.base = f.base, p.strideI = f.strideI, p.strideJ \in Word, OnLineOf(f, P)
  PROVE  FitsPoints(p, P)
<1> SUFFICES ASSUME NEW q \in P PROVE Replay(p, q[1]) = q[2]
  BY DEF FitsPoints
<1>1. PICK n \in Nat : n = q[1]
  OBVIOUS
<1>2. Indices(p, n) = <<n, 0>>
  BY IndicesExact DEF IndexAt
<1>3. PICK b \in Word, u \in Word, v \in Word : b = f.base /\ u = f.strideI /\ v = p.strideJ
  BY FSMFields
<1>4. Replay(p, n) = (b + u * n + v * 0) % M
  BY ONLY <1>2, <1>3, p.base = f.base, p.strideI = f.strideI DEF Replay
<1>5. b + u * n + v * 0 = b + u * n
  <2>1. b \in Nat /\ u \in Nat /\ v \in Nat
    BY WordType
  <2>2. QED
    BY ONLY <2>1, n \in Nat
<1>6. (b + u * n) % M = q[2]
  BY ONLY <1>1, <1>3, q \in P, OnLineOf(f, P) DEF OnLineOf
<1>7. QED
  BY ONLY <1>1, <1>4, <1>5, <1>6

LEMMA QuardricReplays ==
  ASSUME NEW p, NEW f \in FSM, NEW P, P \subseteq Nat \X Word, p.val = "QUARDRIC",
         p.base = f.base, p.strideI = f.strideI, p.strideJ = f.strideJ, p.ni = f.ni, f.ni # 0,
         InRowsOf(f, P)
  PROVE  FitsPoints(p, P)
<1> SUFFICES ASSUME NEW q \in P PROVE Replay(p, q[1]) = q[2]
  BY DEF FitsPoints
<1>1. PICK n \in Nat : n = q[1]
  OBVIOUS
<1>2. p.ni \in Nat \ {0}
  BY FSMFields
<1>3. Indices(p, n) = IndexAt(p, n)
  BY <1>2, IndicesExact
<1>4. Indices(p, n) = <<n % f.ni, n \div f.ni>>
  BY ONLY <1>3, p.val = "QUARDRIC", p.ni = f.ni DEF IndexAt
<1>5. Replay(p, n) = (f.base + f.strideI * (n % f.ni) + f.strideJ * (n \div f.ni)) % M
  BY ONLY <1>4, p.base = f.base, p.strideI = f.strideI, p.strideJ = f.strideJ DEF Replay
<1>6. QED
  BY ONLY <1>1, <1>5, q \in P, InRowsOf(f, P) DEF InRowsOf

(* A pattern is picked from what an access pattern saw, and fits it.        *)
ReplayOK(p) ==
  IsReplayable(p) /\ (p.val = "QUARDRIC" => RowsKnown(p)) => ReplaysHistory(p)

LEMMA ComputedReplays ==
  ASSUME history \in Seq(Entry), history # <<>>,
         \A a \in AccessPattern : AccessOK(history, a, fsms[a])
  PROVE  ReplayOK(Computed)
<1>1. PICK h \in Seq(Entry), c \in AccessPattern, F \in {fsms[Chosen]} :
        h = history /\ c = Chosen /\ F = fsms[Chosen] /\ F.state = "SUCCESS"
  BY ChosenFits
<1>2. PICK P, N : P = Points(h, c) /\ N = StepCount(h, c)
  OBVIOUS
<1>3. PICK V : V = F.vals
  OBVIOUS
<1>4. ValuesOK(V, P, N) /\ ValuesType(V, Len(h))
  BY <1>1, <1>2, <1>3 DEF AccessOK, AccessType
<1>5. PICK v : v = ValueOf(F)
  OBVIOUS
<1>6. FirstOf(V, v)
  BY <1>3, <1>4, <1>5, ValueOfFirst DEF ValuesOK
<1>7. v \in ValuePattern
  BY <1>6 DEF FirstOf
<1>8. PICK f \in FSM : f = V[v]
  BY <1>4, <1>7 DEF ValuesType
<1>9. PICK p : p = Computed
  OBVIOUS
<1>10. /\ p.acc = c /\ p.val = v /\ p.history = h
       /\ v = "CONSTANT" => p.base = f.prev
       /\ v \in {"LINEAR", "QUARDRIC"} => p.base = f.base
       /\ p.strideI = f.strideI /\ p.ni = f.ni /\ p.strideJ = f.strideJ
  BY ONLY <1>1, <1>3, <1>5, <1>8, <1>9 DEF Computed
<1>11. p.strideI \in Word /\ p.strideJ \in Word /\ f.state \in States
  BY <1>10, FSMFields
<1>12. P \subseteq Nat \X Word
  BY <1>4 DEF ValuesOK, Sees
<1>13. ASSUME IsReplayable(p), p.val = "QUARDRIC" => RowsKnown(p)
       PROVE  FitsPoints(p, P)
  <2>1. CASE v = "CONSTANT"
    <3>1. f.state # "FAILURE" /\ ConstOK(f, P)
      BY ONLY <1>4, <1>6, <1>8, <2>1 DEF FirstOf, ValuesOK
    <3>2. QED
      BY <1>10, <1>11, <1>12, <2>1, <3>1, ConstReplays
  <2>2. CASE v = "LINEAR"
    <3>1. f.state # "FAILURE" /\ LinearOK(f, P, N)
      BY ONLY <1>4, <1>6, <1>8, <2>2 DEF FirstOf, ValuesOK
    <3>2. \E q, r \in P : q[2] # r[2]
      BY ONLY <1>4, <1>6, <2>2 DEF FirstOf, ValuesOK, ConstFails
    <3>3. f.state # "UNKNOWN"
      BY ONLY <3>1, <3>2 DEF LinearOK
    <3>4. OnLineOf(f, P)
      BY ONLY <1>11, <3>1, <3>3 DEF LinearOK, States
    <3>5. QED
      BY <1>10, <1>11, <1>12, <2>2, <3>4, LinearReplays
  <2>3. CASE v = "QUARDRIC"
    <3>1. f.state # "FAILURE" /\ QuardricOK(f, P, N)
      BY ONLY <1>4, <1>6, <1>8, <2>3 DEF FirstOf, ValuesOK
    <3>2. RowsKnown(p)
      BY <1>10, <1>13, <2>3
    <3>3. f.ni # 0
      BY ONLY <1>10, <3>2 DEF RowsKnown
    <3>4. f.state = "SUCCESS"
      BY ONLY <1>11, <3>1, <3>3 DEF QuardricOK, States
    <3>5. Smooth(FirstRow(P, f.ni), f.ni)
      BY <1>2, <1>10, <3>2, RowsSmooth
    <3>6. InRowsOf(f, P)
      BY ONLY <3>1, <3>4, <3>5 DEF QuardricOK
    <3>7. QED
      BY <1>10, <1>12, <2>3, <3>3, <3>6, QuardricReplays
  <2>4. QED
    BY ONLY <1>10, <1>13, <2>1, <2>2, <2>3 DEF IsReplayable
<1>14. ReplayOK(p)
  <2>1. ASSUME FitsPoints(p, P) PROVE ReplaysHistory(p)
    BY <1>2, <1>10, <2>1, FitsReplays
  <2>2. QED
    BY ONLY <1>13, <2>1 DEF ReplayOK
<1>15. QED
  BY ONLY <1>9, <1>14

-----------------------------------------------------------------------------
(* The invariant of the specification *)

HistoryEntry == BOOLEAN \X (Vals \cup {0})
PatternType  == [acc : AccessPattern, val : ValuePattern, history : Seq(HistoryEntry),
                 base : Word, strideI : Word, ni : Nat, strideJ : Word]
Aggregates   == [val : ValuePattern, acc : AccessPattern]

DynType ==
  /\ type \in {"MEM", "IV"} /\ candidate \in BOOLEAN /\ touched \in BOOLEAN /\ late \in BOOLEAN
  /\ iters \in Nat \ {0} /\ lastAccessIters \in 0 .. iters
  /\ history \in Seq(HistoryEntry) /\ seen \in Seq(HistoryEntry)

FSMsOK == history \in Seq(HistoryEntry) /\ \A a \in AccessPattern : AccessOK(history, a, fsms[a])

EndsType == patterns \in Seq(PatternType) /\ aggregated \in Aggregates \cup {None}

LEMMA EntryTypes ==
  /\ \A h : h \in Seq(HistoryEntry) => h \in Seq(Entry)
  /\ <<FALSE, 0>> \in HistoryEntry
  /\ \A x \in Vals : x \in Word /\ <<TRUE, x>> \in HistoryEntry
<1>1. Vals \subseteq Word /\ 0 \in Word
  BY WordType
<1>2. HistoryEntry \subseteq Entry
  BY <1>1 DEF HistoryEntry, Entry
<1>3. ASSUME NEW h, h \in Seq(HistoryEntry) PROVE h \in Seq(Entry)
  BY <1>2, <1>3
<1>4. <<FALSE, 0>> \in HistoryEntry /\ \A x \in Vals : <<TRUE, x>> \in HistoryEntry
  BY DEF HistoryEntry
<1>5. QED
  BY <1>1, <1>3, <1>4

(* What the actions do with the history and the state machines. *)
HistoryStep ==
  \/ history' = history /\ fsms' = fsms
  \/ \E x \in Vals : AddPatternAccess(x)
  \/ AddPatternMissing
  \/ history' = <<>> /\ fsms' = FreshFSMs

LEMMA Effects == [Next]_vars => HistoryStep
<1> SUFFICES ASSUME [Next]_vars PROVE HistoryStep
  OBVIOUS
<1>1. ASSUME NEW x \in Vals, AddAccess(x) PROVE HistoryStep
  BY <1>1 DEF AddAccess, HistoryStep
<1>2. ASSUME NEW x \in Vals, Execute(x) PROVE HistoryStep
  BY <1>1, <1>2 DEF Execute
<1>3. ASSUME NEW x \in Vals, UseLate(x) PROVE HistoryStep
  BY <1>1, <1>3 DEF UseLate
<1>4. CASE EndIter
  BY <1>4 DEF EndIter, HistoryStep
<1>5. CASE EndStream
  BY <1>5 DEF EndStream, HistoryStep
<1>6. CASE UNCHANGED vars
  BY <1>6 DEF vars, HistoryStep
<1>7. QED
  BY <1>2, <1>3, <1>4, <1>5, <1>6 DEF Next

LEMMA FSMsInit == Init => FSMsOK
<1> SUFFICES ASSUME Init PROVE FSMsOK
  OBVIOUS
<1>1. history = <<>> /\ fsms = FreshFSMs /\ history \in Seq(HistoryEntry)
  BY DEF Init
<1>2. QED
  BY <1>1, FreshOK DEF FSMsOK

LEMMA FSMsStep == FSMsOK /\ HistoryStep => FSMsOK'
<1> SUFFICES ASSUME FSMsOK, HistoryStep PROVE FSMsOK'
  OBVIOUS
<1>1. history \in Seq(HistoryEntry) /\ history \in Seq(Entry)
  BY EntryTypes DEF FSMsOK
<1>2. CASE history' = history /\ fsms' = fsms
  BY <1>2 DEF FSMsOK
<1>3. ASSUME NEW x \in Vals, AddPatternAccess(x) PROVE FSMsOK'
  <2>1. /\ history' = Append(history, <<TRUE, x>>)
        /\ fsms' = [a \in AccessPattern |-> FeedAccess(a, fsms[a], x, history = <<>>)]
    BY <1>3 DEF AddPatternAccess
  <2>2. x \in Word /\ <<TRUE, x>> \in HistoryEntry
    BY EntryTypes
  <2>3. history' \in Seq(HistoryEntry)
    BY ONLY <1>1, <2>1, <2>2
  <2>4. ASSUME NEW a \in AccessPattern
        PROVE  AccessOK(history', a, fsms'[a])
    <3>1. AccessOK(history, a, fsms[a])
      BY DEF FSMsOK
    <3>2. AccessOK(Append(history, <<TRUE, x>>), a, FeedAccess(a, fsms[a], x, history = <<>>))
      BY <1>1, <2>2, <3>1, AccessAccess
    <3>3. fsms'[a] = FeedAccess(a, fsms[a], x, history = <<>>)
      BY ONLY <2>1
    <3>4. QED
      BY ONLY <2>1, <3>2, <3>3
  <2>5. QED
    BY <2>3, <2>4 DEF FSMsOK
<1>4. CASE AddPatternMissing
  <2>1. /\ history' = Append(history, <<FALSE, 0>>)
        /\ fsms' = [a \in AccessPattern |-> FeedMissing(a, fsms[a])]
    BY <1>4 DEF AddPatternMissing
  <2>2. history' \in Seq(HistoryEntry)
    BY <1>1, <2>1, EntryTypes
  <2>3. ASSUME NEW a \in AccessPattern
        PROVE  AccessOK(history', a, fsms'[a])
    <3>1. AccessOK(history, a, fsms[a])
      BY DEF FSMsOK
    <3>2. AccessOK(Append(history, <<FALSE, 0>>), a, FeedMissing(a, fsms[a]))
      BY <1>1, <3>1, AccessMissing
    <3>3. QED
      BY ONLY <2>1, <3>2
  <2>4. QED
    BY <2>2, <2>3 DEF FSMsOK
<1>5. CASE history' = <<>> /\ fsms' = FreshFSMs
  <2>1. <<>> \in Seq(HistoryEntry)
    OBVIOUS
  <2>2. QED
    BY <1>5, <2>1, FreshOK DEF FSMsOK
<1>6. QED
  BY <1>2, <1>3, <1>4, <1>5 DEF HistoryStep

LEMMA DynInit == Init => DynType
<1> SUFFICES ASSUME Init PROVE DynType
  OBVIOUS
<1>1. type \in {"MEM", "IV"} /\ candidate \in BOOLEAN /\ touched \in BOOLEAN /\ late \in BOOLEAN
  BY Zenon DEF Init
<1>2. iters = 1 /\ lastAccessIters = 0 /\ history = <<>> /\ seen = <<>>
  BY DEF Init
<1>3. iters \in Nat \ {0} /\ lastAccessIters \in 0 .. iters /\ <<>> \in Seq(HistoryEntry)
  BY <1>2
<1>4. QED
  BY ONLY <1>1, <1>2, <1>3, Zenon DEF DynType

LEMMA DynStep == DynType /\ [Next]_vars => DynType'
<1> SUFFICES ASSUME DynType, [Next]_vars PROVE DynType'
  OBVIOUS
<1>1. /\ history \in Seq(HistoryEntry) /\ seen \in Seq(HistoryEntry)
      /\ iters \in Nat \ {0} /\ lastAccessIters \in 0 .. iters
  BY DEF DynType
<1>2. /\ \A h \in Seq(HistoryEntry) : Append(h, <<FALSE, 0>>) \in Seq(HistoryEntry)
      /\ \A h \in Seq(HistoryEntry), x \in Vals : Append(h, <<TRUE, x>>) \in Seq(HistoryEntry)
      /\ <<>> \in Seq(HistoryEntry)
  <2>1. ASSUME NEW h \in Seq(HistoryEntry), NEW e \in HistoryEntry
        PROVE  Append(h, e) \in Seq(HistoryEntry)
    OBVIOUS
  <2>2. <<>> \in Seq(HistoryEntry)
    OBVIOUS
  <2>3. QED
    BY <2>1, <2>2, EntryTypes, Zenon
<1>3. /\ iters \in 0 .. iters /\ iters \in 0 .. iters + 1 /\ iters + 1 \in Nat \ {0}
      /\ 1 \in Nat \ {0} /\ 0 \in 0 .. 1
  BY <1>1
<1>4. ASSUME NEW x \in Vals, AddAccess(x)
      PROVE  iters' = iters /\ lastAccessIters' \in 0 .. iters /\ history' \in Seq(HistoryEntry)
  BY ONLY <1>1, <1>2, <1>3, <1>4 DEF AddAccess, AddPatternAccess, dyn
<1>5. ASSUME NEW x \in Vals, Execute(x) PROVE DynType'
  <2>1. seen' \in Seq(HistoryEntry) /\ AddAccess(x) /\ touched' = TRUE
        /\ type' = type /\ candidate' = candidate /\ late' = late
    BY ONLY <1>1, <1>2, <1>5 DEF Execute
  <2>2. iters' = iters /\ lastAccessIters' \in 0 .. iters /\ history' \in Seq(HistoryEntry)
    BY <1>4, <2>1
  <2>3. QED
    BY ONLY <2>1, <2>2, DynType, Zenon DEF DynType
<1>6. ASSUME NEW x \in Vals, UseLate(x) PROVE DynType'
  <2>1. seen' \in Seq(HistoryEntry) /\ AddAccess(x) /\ touched' = touched
        /\ type' = type /\ candidate' = candidate /\ late' = TRUE
    BY ONLY <1>1, <1>2, <1>6 DEF UseLate
  <2>2. iters' = iters /\ lastAccessIters' \in 0 .. iters /\ history' \in Seq(HistoryEntry)
    BY <1>4, <2>1
  <2>3. QED
    BY ONLY <2>1, <2>2, DynType, Zenon DEF DynType
<1>7. CASE EndIter
  <2>1. seen' \in Seq(HistoryEntry) /\ history' \in Seq(HistoryEntry)
    BY ONLY <1>1, <1>2, <1>7 DEF EndIter, AddPatternMissing
  <2>2. iters' = iters + 1 /\ lastAccessIters' = iters /\ touched' = FALSE
        /\ type' = type /\ candidate' = candidate /\ late' = late
    BY ONLY <1>7 DEF EndIter
  <2>3. lastAccessIters' \in 0 .. iters' /\ iters' \in Nat \ {0}
    BY ONLY <1>3, <2>2
  <2>4. QED
    BY ONLY <2>1, <2>2, <2>3, DynType, Zenon DEF DynType
<1>8. CASE EndStream
  <2>1. /\ history' = <<>> /\ seen' = <<>> /\ iters' = 1 /\ lastAccessIters' = 0
        /\ touched' = FALSE /\ type' = type /\ candidate' = candidate /\ late' = late
    BY ONLY <1>8 DEF EndStream
  <2>2. lastAccessIters' \in 0 .. iters' /\ iters' \in Nat \ {0}
    BY ONLY <1>3, <2>1
  <2>3. QED
    BY ONLY <1>2, <2>1, <2>2, DynType, Zenon DEF DynType
<1>9. CASE UNCHANGED vars
  BY ONLY <1>9, DynType DEF vars, dyn, DynType
<1>10. QED
  BY <1>5, <1>6, <1>7, <1>8, <1>9 DEF Next

LEMMA ComputedType ==
  ASSUME FSMsOK, history # <<>>
  PROVE  Computed \in PatternType
<1>1. history \in Seq(Entry) /\ \A a \in AccessPattern : AccessOK(history, a, fsms[a])
  BY EntryTypes DEF FSMsOK
<1>2. PICK c \in AccessPattern, F \in {fsms[Chosen]} : c = Chosen /\ F = fsms[Chosen] /\ F.state = "SUCCESS"
  BY <1>1, ChosenFits
<1>3. PICK V : V = F.vals
  OBVIOUS
<1>4. V["RANDOM"].state = "SUCCESS" /\ V \in [ValuePattern -> FSM]
  BY <1>1, <1>2, <1>3 DEF AccessOK, AccessType, ValuesOK, ValuesType
<1>5. PICK v : v = ValueOf(F)
  OBVIOUS
<1>6. FirstOf(V, v)
  BY <1>3, <1>4, <1>5, ValueOfFirst
<1>7. v \in ValuePattern
  BY <1>6 DEF FirstOf
<1>8. PICK f \in FSM : f = V[v]
  BY <1>4, <1>7
<1>9. f.prev \in Word /\ f.base \in Word /\ f.strideI \in Word /\ f.ni \in Nat
      /\ f.strideJ \in Word /\ 0 \in Word
  BY FSMFields, WordType
<1>10. PICK b \in Word :
         b = CASE v = "CONSTANT" -> f.prev [] v \in {"LINEAR", "QUARDRIC"} -> f.base [] OTHER -> 0
  BY ONLY <1>9
<1>11. Computed = [acc |-> c, val |-> v, history |-> history, base |-> b,
                   strideI |-> f.strideI, ni |-> f.ni, strideJ |-> f.strideJ]
  BY ONLY <1>2, <1>3, <1>5, <1>8, <1>10 DEF Computed
<1>12. history \in Seq(HistoryEntry)
  BY DEF FSMsOK
<1>13. QED
  BY ONLY <1>7, <1>9, <1>11, <1>12, c \in AccessPattern, b \in Word DEF PatternType

LEMMA NotComputedType ==
  NotComputed \in PatternType /\ ReplayOK(NotComputed)
<1>1. /\ "UNCOND" \in AccessPattern /\ "UNKNOWN" \in ValuePattern /\ 0 \in Word
      /\ <<>> \in Seq(HistoryEntry)
  BY PatternNames, WordType
<1>2. NotComputed \in PatternType
  BY ONLY <1>1 DEF NotComputed, PatternType
<1>3. ~ IsReplayable(NotComputed)
  BY ONLY DEF NotComputed, IsReplayable
<1>4. QED
  BY ONLY <1>2, <1>3 DEF ReplayOK

(* What the end of the loop would find now. *)
Found == IF history = <<>> THEN NotComputed ELSE Computed

LEMMA FoundOK == FSMsOK => Found \in PatternType /\ ReplayOK(Found)
<1> SUFFICES ASSUME FSMsOK PROVE Found \in PatternType /\ ReplayOK(Found)
  OBVIOUS
<1>1. CASE history = <<>>
  BY <1>1, NotComputedType DEF Found
<1>2. CASE history # <<>>
  <2>1. ReplayOK(Computed)
    BY <1>2, EntryTypes, ComputedReplays DEF FSMsOK
  <2>2. QED
    BY <1>2, <2>1, ComputedType DEF Found
<1>3. QED
  BY <1>1, <1>2

(* The end of the loop, and nothing else, adds a pattern. *)
PatternStep ==
  \/ patterns' = patterns /\ aggregated' = aggregated
  \/ /\ patterns' = Append(patterns, Found)
     /\ aggregated' =
          LET new == [val |-> Computed.val, acc |-> Computed.acc] IN
          IF history = <<>> THEN aggregated
          ELSE IF aggregated = None THEN new ELSE Merge(aggregated, new)

LEMMA PatternEffects == [Next]_vars => PatternStep
  BY DEF Next, vars, Execute, UseLate, EndIter, EndStream, PatternStep, Found

PatternsOK ==
  /\ patterns \in Seq(PatternType) /\ \A i \in DOMAIN patterns : ReplayOK(patterns[i])
  /\ aggregated \in Aggregates \cup {None}

LEMMA MergeType ==
  ASSUME NEW old \in Aggregates, NEW new \in Aggregates
  PROVE  /\ Merge(old, new) \in Aggregates
         /\ IsValuePatternRelaxed(old.val, Merge(old, new).val)
         /\ IsValuePatternRelaxed(new.val, Merge(old, new).val)
<1>1. PICK v \in ValuePattern, a \in AccessPattern : v = old.val /\ a = old.acc
  BY DEF Aggregates
<1>2. PICK w \in ValuePattern, b \in AccessPattern : w = new.val /\ b = new.acc
  BY DEF Aggregates
<1>3. PICK i \in Int, j \in Int : i = IndexIn(ValueOrder, v) /\ j = IndexIn(ValueOrder, w)
  BY IndexOfValue
<1>4. PICK m : m = Merge(old, new)
  OBVIOUS
<1>5. /\ m = [val |-> m.val, acc |-> m.acc]
      /\ m.val = (IF i <= j THEN w ELSE v)
      /\ m.acc \in {a, b}
  BY ONLY <1>1, <1>2, <1>3, <1>4 DEF Merge, IsValuePatternRelaxed
<1>6. m \in Aggregates
  BY ONLY <1>5, v \in ValuePattern, w \in ValuePattern, a \in AccessPattern, b \in AccessPattern
  DEF Aggregates
<1>7. IsValuePatternRelaxed(v, m.val) /\ IsValuePatternRelaxed(w, m.val)
  BY ONLY <1>3, <1>5, i \in Int, j \in Int DEF IsValuePatternRelaxed
<1>8. QED
  BY ONLY <1>1, <1>2, <1>4, <1>6, <1>7

LEMMA NewAggregate ==
  ASSUME FSMsOK, history # <<>>
  PROVE  [val |-> Computed.val, acc |-> Computed.acc] \in Aggregates
  BY ComputedType DEF PatternType, Aggregates

LEMMA PatternsStep == FSMsOK /\ PatternsOK /\ PatternStep => PatternsOK'
<1> SUFFICES ASSUME FSMsOK, PatternsOK, PatternStep PROVE PatternsOK'
  OBVIOUS
<1>1. CASE patterns' = patterns /\ aggregated' = aggregated
  BY <1>1 DEF PatternsOK
<1>2. ASSUME /\ patterns' = Append(patterns, Found)
             /\ aggregated' =
                  LET new == [val |-> Computed.val, acc |-> Computed.acc] IN
                  IF history = <<>> THEN aggregated
                  ELSE IF aggregated = None THEN new ELSE Merge(aggregated, new)
      PROVE  PatternsOK'
  <2>1. PICK p \in PatternType : p = Found /\ ReplayOK(p)
    BY FoundOK
  <2>2. PICK s \in Seq(PatternType) : s = patterns /\ \A i \in DOMAIN s : ReplayOK(s[i])
    BY DEF PatternsOK
  <2>3. PICK n \in Nat : n = Len(s)
    OBVIOUS
  <2>4. /\ Append(s, p) \in Seq(PatternType) /\ DOMAIN Append(s, p) = 1 .. n + 1
        /\ Append(s, p)[n + 1] = p /\ \A i \in 1 .. n : Append(s, p)[i] = s[i]
        /\ DOMAIN s = 1 .. n
        /\ \A i \in 1 .. n + 1 : i = n + 1 \/ i \in 1 .. n
    BY <2>3
  <2>5. \A i \in DOMAIN Append(s, p) : ReplayOK(Append(s, p)[i])
    BY ONLY <2>1, <2>2, <2>4
  <2>6. patterns' = Append(s, p)
    BY ONLY <1>2, <2>1, <2>2
  <2>7. aggregated' \in Aggregates \cup {None}
    <3>1. aggregated \in Aggregates \cup {None}
      BY DEF PatternsOK
    <3>2. CASE history = <<>>
      BY ONLY <1>2, <3>1, <3>2
    <3>3. CASE history # <<>>
      <4>1. PICK new \in Aggregates : new = [val |-> Computed.val, acc |-> Computed.acc]
        BY <3>3, NewAggregate
      <4>2. aggregated' = IF aggregated = None THEN new ELSE Merge(aggregated, new)
        BY ONLY <1>2, <3>3, <4>1
      <4>3. aggregated # None => Merge(aggregated, new) \in Aggregates
        BY <3>1, MergeType
      <4>4. QED
        BY ONLY <4>1, <4>2, <4>3
    <3>4. QED
      BY ONLY <3>2, <3>3
  <2>8. QED
    BY ONLY <2>4, <2>5, <2>6, <2>7 DEF PatternsOK
<1>3. QED
  BY <1>1, <1>2 DEF PatternStep

(* The sequence of entries is the one of the iterations. *)
OnceInv ==
  candidate /\ ~late =>
    history = seen /\ (touched <=> lastAccessIters = iters) /\ lastAccessIters <= iters

LEMMA OnceInit == Init => OnceInv
<1> SUFFICES ASSUME Init PROVE OnceInv
  OBVIOUS
<1>1. history = <<>> /\ seen = <<>> /\ iters = 1 /\ lastAccessIters = 0 /\ touched = FALSE
  BY DEF Init
<1>2. QED
  BY ONLY <1>1 DEF OnceInv

LEMMA OnceStep == DynType /\ OnceInv /\ [Next]_vars => OnceInv'
<1> SUFFICES ASSUME DynType, OnceInv, [Next]_vars PROVE OnceInv'
  OBVIOUS
<1>1. iters \in Nat
  BY DEF DynType
<1>2. ASSUME NEW x \in Vals, Execute(x) PROVE OnceInv'
  <2>1. candidate' = candidate /\ late' = late /\ touched' = TRUE /\ iters' = iters
    BY ONLY <1>2 DEF Execute, AddAccess, dyn
  <2>2. CASE ~(candidate /\ ~late)
    BY ONLY <2>1, <2>2 DEF OnceInv
  <2>3. CASE candidate /\ ~late /\ touched
    <3>1. type = "IV" /\ lastAccessIters = iters /\ history = seen
      BY ONLY <1>2, <2>3, OnceInv DEF Execute, OnceInv
    <3>2. history' = history /\ seen' = seen /\ lastAccessIters' = lastAccessIters
      BY ONLY <1>2, <2>3, <3>1 DEF Execute, AddAccess, dyn
    <3>3. QED
      BY ONLY <1>1, <2>1, <3>1, <3>2 DEF OnceInv
  <2>4. CASE candidate /\ ~late /\ ~touched
    <3>1. lastAccessIters # iters /\ history = seen
      BY ONLY <2>4, OnceInv DEF OnceInv
    <3>2. history' = Append(history, <<TRUE, x>>) /\ lastAccessIters' = iters
      BY ONLY <1>2, <3>1 DEF Execute, AddAccess, AddPatternAccess
    <3>3. seen' = Append(seen, <<TRUE, x>>)
      BY ONLY <1>2, <2>4 DEF Execute
    <3>4. QED
      BY ONLY <1>1, <2>1, <3>1, <3>2, <3>3 DEF OnceInv
  <2>5. QED
    BY ONLY <2>2, <2>3, <2>4
<1>3. ASSUME NEW x \in Vals, UseLate(x) PROVE OnceInv'
  BY ONLY <1>3 DEF UseLate, OnceInv
<1>4. CASE EndIter
  <2>1. candidate' = candidate /\ late' = late /\ touched' = FALSE /\ iters' = iters + 1
        /\ lastAccessIters' = iters
    BY ONLY <1>4 DEF EndIter
  <2>2. ASSUME candidate, ~late PROVE history' = seen'
    <3>1. CASE touched
      BY ONLY <1>4, <2>2, <3>1, OnceInv DEF EndIter, OnceInv
    <3>2. CASE ~touched
      BY ONLY <1>4, <2>2, <3>2, OnceInv DEF EndIter, OnceInv, AddPatternMissing
    <3>3. QED
      BY ONLY <3>1, <3>2
  <2>3. QED
    BY ONLY <1>1, <2>1, <2>2 DEF OnceInv
<1>5. CASE EndStream
  BY ONLY <1>5 DEF EndStream, OnceInv
<1>6. CASE UNCHANGED vars
  BY ONLY <1>6, OnceInv DEF vars, dyn, OnceInv
<1>7. QED
  BY <1>2, <1>3, <1>4, <1>5, <1>6 DEF Next

LEMMA CoversStep == FSMsOK /\ PatternsOK /\ AggregateCovers /\ PatternStep => AggregateCovers'
<1> SUFFICES ASSUME FSMsOK, PatternsOK, AggregateCovers, PatternStep PROVE AggregateCovers'
  OBVIOUS
<1>1. CASE patterns' = patterns /\ aggregated' = aggregated
  BY ONLY <1>1, AggregateCovers DEF AggregateCovers
<1>2. ASSUME /\ patterns' = Append(patterns, Found)
             /\ aggregated' =
                  LET new == [val |-> Computed.val, acc |-> Computed.acc] IN
                  IF history = <<>> THEN aggregated
                  ELSE IF aggregated = None THEN new ELSE Merge(aggregated, new)
      PROVE  AggregateCovers'
  <2>1. PICK s \in Seq(PatternType) : s = patterns
    BY DEF PatternsOK
  <2>2. PICK p : p = Found
    OBVIOUS
  <2>3. PICK n \in Nat : n = Len(s)
    OBVIOUS
  <2>4. /\ DOMAIN Append(s, p) = 1 .. n + 1 /\ Append(s, p)[n + 1] = p
        /\ \A i \in 1 .. n : Append(s, p)[i] = s[i]
        /\ DOMAIN s = 1 .. n /\ \A i \in 1 .. n + 1 : i = n + 1 \/ i \in 1 .. n
    BY <2>3
  <2>5. \A i \in 1 .. n : s[i].history # <<>> =>
          aggregated # None /\ IsValuePatternRelaxed(s[i].val, aggregated.val)
    BY ONLY <2>1, <2>4, AggregateCovers DEF AggregateCovers
  <2>6. aggregated \in Aggregates \cup {None} /\ \A i \in 1 .. n : s[i].val \in ValuePattern
    <3>1. \A i \in 1 .. n : s[i] \in PatternType
      BY <2>3
    <3>2. QED
      BY <3>1 DEF PatternsOK, PatternType
  <2>7. None \notin Aggregates
    <3>1. "none" \notin ValuePattern
      BY PatternNames
    <3>2. QED
      BY <3>1 DEF None, Aggregates
  <2>8. CASE history = <<>>
    <3>1. p.history = <<>> /\ aggregated' = aggregated
      BY ONLY <1>2, <2>2, <2>8 DEF Found, NotComputed
    <3>2. QED
      BY ONLY <1>2, <2>1, <2>2, <2>4, <2>5, <3>1 DEF AggregateCovers
  <2>9. CASE history # <<>>
    <3>1. PICK new \in Aggregates : new = [val |-> Computed.val, acc |-> Computed.acc]
      BY <2>9, NewAggregate
    <3>2. aggregated' = IF aggregated = None THEN new ELSE Merge(aggregated, new)
      BY ONLY <1>2, <2>9, <3>1
    <3>3. p.val = new.val /\ new.val \in ValuePattern
      BY ONLY <2>2, <2>9, <3>1 DEF Found, Aggregates
    <3>4. \A v \in ValuePattern : IsValuePatternRelaxed(v, v)
      BY IndexOfValue DEF IsValuePatternRelaxed
    <3>5. CASE aggregated = None
      <4>1. \A i \in 1 .. n : s[i].history = <<>>
        BY ONLY <2>5, <3>5
      <4>2. aggregated' = new /\ new # None /\ IsValuePatternRelaxed(p.val, new.val)
        BY ONLY <2>7, <3>1, <3>2, <3>3, <3>4, <3>5
      <4>3. QED
        BY ONLY <1>2, <2>1, <2>2, <2>4, <4>1, <4>2 DEF AggregateCovers
    <3>6. CASE aggregated # None
      <4>1. PICK old \in Aggregates : old = aggregated
        BY <2>6, <3>6
      <4>2. PICK m \in Aggregates : m = Merge(old, new) /\ IsValuePatternRelaxed(old.val, m.val)
                                    /\ IsValuePatternRelaxed(new.val, m.val)
        BY MergeType
      <4>3. aggregated' = m /\ m # None /\ IsValuePatternRelaxed(p.val, m.val)
        BY ONLY <2>7, <3>2, <3>3, <3>6, <4>1, <4>2
      <4>4. ASSUME NEW i \in 1 .. n, s[i].history # <<>>
            PROVE  IsValuePatternRelaxed(s[i].val, m.val)
        <5>1. PICK u \in ValuePattern, v \in ValuePattern, w \in ValuePattern :
                u = s[i].val /\ v = old.val /\ w = m.val
          BY <2>6 DEF Aggregates
        <5>2. IsValuePatternRelaxed(u, v) /\ IsValuePatternRelaxed(v, w)
          BY ONLY <2>5, <4>1, <4>2, <4>4, <5>1
        <5>3. IndexIn(ValueOrder, u) \in Int /\ IndexIn(ValueOrder, v) \in Int
              /\ IndexIn(ValueOrder, w) \in Int
          BY IndexOfValue
        <5>4. IsValuePatternRelaxed(u, w)
          BY ONLY <5>2, <5>3 DEF IsValuePatternRelaxed
        <5>5. QED
          BY ONLY <5>1, <5>4
      <4>5. QED
        BY ONLY <1>2, <2>1, <2>2, <2>4, <4>3, <4>4 DEF AggregateCovers
    <3>7. QED
      BY ONLY <3>5, <3>6
  <2>10. QED
    BY ONLY <2>8, <2>9
<1>3. QED
  BY <1>1, <1>2 DEF PatternStep

-----------------------------------------------------------------------------
(* Values that a state machine does not give up *)

(* A linear state machine goes on as long as the values do. *)
LinearGoesOn(f, x) ==
  /\ f.state = "SUCCESS" => x = NextLinear(f)
  /\ f.state = "UNKNOWN" =>
       \/ Len(f.confirmed) = 0
       \/ Len(f.confirmed) = 1 /\ HasStride(f.confirmed[1], <<f.updates, x>>)

LEMMA LinearNotFailed ==
  ASSUME NEW n \in Nat, NEW f, FSMType(f, n), NEW x \in Word,
         f.state # "FAILURE", LinearGoesOn(f, x)
  PROVE  UpdateLinear(f, x).state # "FAILURE"
<1>1. f \in FSM /\ InOrder(f.confirmed, f.updates)
  BY DEF FSMType
<1>2. /\ f.updates \in Nat /\ f.confirmed \in Seq(Nat \X Word) /\ f.i \in Nat
      /\ f.state \in {"UNKNOWN", "SUCCESS"}
  BY <1>1, FSMFields DEF States
<1>3. PICK g : g = Counted(f, x)
  OBVIOUS
<1>4. g \in FSM /\ g.state = f.state
  <2>1. FSMType(g, n + 1) /\ g.state = f.state
    BY <1>3, CountedType
  <2>2. QED
    BY ONLY <2>1 DEF FSMType
<1>5. PICK u \in Nat, fc \in Seq(Nat \X Word) : u = f.updates /\ fc = f.confirmed
  BY <1>2
<1>6. PICK c : c = Append(fc, <<u, x>>)
  OBVIOUS
<1>7. PICK m \in Nat : m = Len(fc)
  OBVIOUS
<1>8. /\ Len(c) = m + 1 /\ c[m + 1] = <<u, x>>
      /\ \A k \in 1 .. m : c[k] = fc[k]
  <2>1. InOrder(fc, u)
    BY <1>1, <1>5
  <2>2. Extended(fc, u, x, c)
    BY <1>6, <2>1, Extend
  <2>3. QED
    BY ONLY <1>7, <2>2 DEF Extended
<1>9. PICK w : w = UpdateLinear(f, x)
  OBVIOUS
<1>10. w = CASE f.state = "SUCCESS" /\ x = NextLinear(f) -> [g EXCEPT !.i = @ + 1]
           [] f.state = "UNKNOWN" /\ Len(c) = 1 -> [g EXCEPT !.confirmed = c]
           [] f.state = "UNKNOWN" /\ Len(c) = 2 /\ HasStride(c[1], c[2]) ->
                [g EXCEPT !.state = "SUCCESS", !.confirmed = c, !.i = f.updates,
                          !.base = BaseOf(c[1], c[2]), !.strideI = StrideOf(c[1], c[2])]
           [] OTHER -> Failed(g)
  BY ONLY <1>3, <1>5, <1>6, <1>9 DEF UpdateLinear, Counted
<1>11. CASE f.state = "SUCCESS"
  <2>1. f.state = "SUCCESS" /\ x = NextLinear(f) /\ f.state # "UNKNOWN"
    BY ONLY <1>11, LinearGoesOn(f, x) DEF LinearGoesOn
  <2>2. PICK a : a = g.i + 1
    OBVIOUS
  <2>3. w = [g EXCEPT !.i = a]
    BY ONLY <1>10, <2>1, <2>2
  <2>4. w.state = g.state
    BY ONLY <1>4, <2>3 DEF FSM
  <2>5. QED
    BY ONLY <1>4, <1>9, <2>1, <2>4
<1>12. CASE f.state = "UNKNOWN" /\ m = 0
  <2>1. Len(c) = 1 /\ f.state = "UNKNOWN" /\ f.state # "SUCCESS"
    BY ONLY <1>8, <1>12
  <2>2. Len(c) # 2
    BY ONLY <2>1
  <2>3. w = [g EXCEPT !.confirmed = c]
    BY ONLY <1>10, <2>1, <2>2
  <2>4. w.state = g.state
    BY ONLY <1>4, <2>3 DEF FSM
  <2>5. QED
    BY ONLY <1>4, <1>9, <2>1, <2>4
<1>13. CASE f.state = "UNKNOWN" /\ m # 0
  <2>1. m = 1 /\ HasStride(fc[1], <<u, x>>)
    BY ONLY <1>5, <1>7, <1>13, LinearGoesOn(f, x) DEF LinearGoesOn
  <2>2. m + 1 = 2 /\ 1 \in 1 .. m
    BY ONLY <2>1
  <2>3. Len(c) = 2 /\ c[1] = fc[1] /\ c[2] = <<u, x>>
    BY ONLY <1>8, <2>2
  <2>4. HasStride(c[1], c[2])
    BY ONLY <2>1, <2>3
  <2>5. Len(c) # 1 /\ f.state # "SUCCESS" /\ f.state = "UNKNOWN"
    BY ONLY <1>13, <2>3
  <2>6. PICK a, b : a = BaseOf(c[1], c[2]) /\ b = StrideOf(c[1], c[2])
    OBVIOUS
  <2>7. w = [g EXCEPT !.state = "SUCCESS", !.confirmed = c, !.i = u,
                      !.base = a, !.strideI = b]
    BY ONLY <1>5, <1>10, <2>3, <2>4, <2>5, <2>6
  <2>8. w.state = "SUCCESS"
    BY ONLY <1>4, <2>7 DEF FSM
  <2>9. QED
    BY ONLY <1>9, <2>8
<1>14. QED
  BY ONLY <1>2, <1>11, <1>12, <1>13

Aligned(r, s, t) == (ValDiff(r, s) * IdxDiff(r, t)) % M = (ValDiff(r, t) * IdxDiff(r, s)) % M

(* So does one for rows, when a value out of line ends a row that rises.    *)
QuardricGoesOn(f, x) ==
  /\ f.state = "SUCCESS" => x = NextQuardric(f)
  /\ f.state = "UNKNOWN" /\ Len(f.confirmed) = 2 =>
       \/ Aligned(f.confirmed[1], f.confirmed[2], <<f.updates, x>>)
       \/ HasStride(f.confirmed[1], f.confirmed[2])

LEMMA QuardricNotFailed ==
  ASSUME NEW n \in Nat, NEW f, FSMType(f, n), NEW x \in Word,
         f.state # "FAILURE", QuardricGoesOn(f, x)
  PROVE  /\ UpdateQuardric(f, x).state # "FAILURE"
         /\ f.state = "UNKNOWN" /\ UpdateQuardric(f, x).state = "SUCCESS" =>
              ~ Aligned(f.confirmed[1], f.confirmed[2], <<f.updates, x>>)
<1>1. f \in FSM /\ InOrder(f.confirmed, f.updates)
      /\ (f.state = "UNKNOWN" => Len(f.confirmed) <= 2)
  BY DEF FSMType
<1>2. /\ f.updates \in Nat /\ f.confirmed \in Seq(Nat \X Word) /\ f.i \in Nat
      /\ f.state \in {"UNKNOWN", "SUCCESS"}
  BY <1>1, FSMFields DEF States
<1>3. PICK g : g = Counted(f, x)
  OBVIOUS
<1>4. g \in FSM /\ g.state = f.state /\ g.j \in Nat /\ g.i \in Nat
  <2>1. FSMType(g, n + 1) /\ g.state = f.state
    BY <1>3, CountedType
  <2>2. g \in FSM /\ g.state = f.state
    BY ONLY <2>1 DEF FSMType
  <2>3. QED
    BY <2>2, FSMFields
<1>5. PICK u \in Nat, fc \in Seq(Nat \X Word) : u = f.updates /\ fc = f.confirmed
  BY <1>2
<1>6. PICK c : c = Append(fc, <<u, x>>)
  OBVIOUS
<1>7. PICK m \in Nat : m = Len(fc)
  OBVIOUS
<1>8. /\ Len(c) = m + 1 /\ c[m + 1] = <<u, x>>
      /\ \A k \in 1 .. m : c[k] = fc[k]
  <2>1. InOrder(fc, u)
    BY <1>1, <1>5
  <2>2. Extended(fc, u, x, c)
    BY <1>6, <2>1, Extend
  <2>3. QED
    BY ONLY <1>7, <2>2 DEF Extended
<1>9. PICK w : w = UpdateQuardric(f, x)
  OBVIOUS
<1>10. w = CASE f.state = "SUCCESS" /\ x = NextQuardric(f) -> StepQuardric(g)
           [] f.state = "UNKNOWN" /\ Len(c) < 3 -> [g EXCEPT !.confirmed = c]
           [] f.state = "UNKNOWN" /\ Len(c) = 3 /\ IsAligned(c) ->
                [g EXCEPT !.confirmed = DropMiddle(c)]
           [] f.state = "UNKNOWN" /\ Len(c) = 3 /\ ~IsAligned(c) /\ HasStride(c[1], c[2]) ->
                StartRows(g, c, x)
           [] OTHER -> Failed(g)
  BY ONLY <1>3, <1>5, <1>6, <1>9 DEF UpdateQuardric, Counted
<1>11. CASE f.state = "SUCCESS"
  <2>1. x = NextQuardric(f) /\ f.state # "UNKNOWN"
    BY ONLY <1>11, QuardricGoesOn(f, x) DEF QuardricGoesOn
  <2>2. PICK a, b : a = g.i + 1 /\ b = g.j + 1
    OBVIOUS
  <2>3. w = IF EndsRow(g) THEN [g EXCEPT !.i = 0, !.j = b] ELSE [g EXCEPT !.i = a]
    BY ONLY <1>10, <1>11, <2>1, <2>2 DEF StepQuardric
  <2>4. w.state = g.state
    BY ONLY <1>4, <2>3 DEF FSM
  <2>5. QED
    BY ONLY <1>4, <1>9, <1>11, <2>4
<1>12. CASE f.state = "UNKNOWN" /\ m < 2
  <2>1. Len(c) < 3 /\ f.state # "SUCCESS"
    BY ONLY <1>8, <1>12, m \in Nat
  <2>2. Len(c) # 3
    BY ONLY <1>8, <1>12, m \in Nat
  <2>3. w = [g EXCEPT !.confirmed = c]
    BY ONLY <1>10, <1>12, <2>1, <2>2
  <2>4. w.state = g.state
    BY ONLY <1>4, <2>3 DEF FSM
  <2>5. QED
    BY ONLY <1>4, <1>9, <1>12, <2>4
<1>13. CASE f.state = "UNKNOWN" /\ m = 2
  <2>1. m + 1 = 3 /\ 1 \in 1 .. m /\ 2 \in 1 .. m
    BY ONLY <1>13
  <2>2. Len(c) = 3 /\ ~ Len(c) < 3 /\ c[1] = fc[1] /\ c[2] = fc[2] /\ c[3] = <<u, x>>
    BY ONLY <1>8, <2>1
  <2>3. IsAligned(c) <=> Aligned(fc[1], fc[2], <<u, x>>)
    BY ONLY <2>2 DEF IsAligned, Aligned
  <2>4. CASE IsAligned(c)
    <3>1. PICK d : d = DropMiddle(c)
      OBVIOUS
    <3>2. w = [g EXCEPT !.confirmed = d]
      BY ONLY <1>10, <1>13, <2>2, <2>4, <3>1
    <3>3. w.state = g.state
      BY ONLY <1>4, <3>2 DEF FSM
    <3>4. QED
      BY ONLY <1>4, <1>9, <1>13, <3>3
  <2>5. CASE ~ IsAligned(c)
    <3>1. Len(fc) = 2 /\ ~ Aligned(fc[1], fc[2], <<u, x>>)
      BY ONLY <1>7, <1>13, <2>3, <2>5
    <3>2. HasStride(c[1], c[2])
      BY ONLY <1>5, <1>13, <2>2, <3>1, QuardricGoesOn(f, x) DEF QuardricGoesOn
    <3>3. w = StartRows(g, c, x)
      BY ONLY <1>10, <1>13, <2>2, <2>5, <3>2
    <3>4. w.state = "SUCCESS"
      BY ONLY <1>4, <3>3 DEF FSM, StartRows
    <3>5. QED
      BY ONLY <1>5, <1>9, <3>1, <3>4
  <2>6. QED
    BY ONLY <2>4, <2>5
<1>14. f.state = "UNKNOWN" => m < 2 \/ m = 2
  BY ONLY <1>1, <1>5, <1>7, m \in Nat
<1>15. QED
  BY ONLY <1>2, <1>11, <1>12, <1>13, <1>14

(* Is there a value at every step?  Do the values lie on a line, or, when    *)
(* there are, on one that wraps around?                                     *)
Full(P, N) == \A k \in 0 .. N - 1 : \E q \in P : q[1] = k

OnLineBy(q, r, s)    == r[2] - q[2] = s * (r[1] - q[1])
WrapsOnLineBy(q, r, s) == (r[2] - q[2]) % M = (s * (r[1] - q[1])) % M

Line(P, N, s) ==
  \/ \A q, r \in P : OnLineBy(q, r, s)
  \/ Full(P, N) /\ \A q, r \in P : WrapsOnLineBy(q, r, s)

LinearTight(f, P, N) ==
  /\ f.state = "SUCCESS" => P # {}
  /\ \A s \in 1 .. M - 1 : Line(P, N, s) =>
       f.state # "FAILURE" /\ (f.state = "SUCCESS" => f.strideI = s)

LEMMA FullBefore ==
  ASSUME NEW P, NEW N \in Nat, NEW x \in Word, NEW t, t = <<N, x>>
  PROVE  /\ Full(P \cup {t}, N + 1) => Full(P, N)
         /\ Full(P, N + 1) => Full(P, N)
<1>1. t[1] = N
  OBVIOUS
<1>2. \A k \in 0 .. N - 1 : k \in 0 .. N + 1 - 1 /\ k # N
  BY ONLY N \in Nat
<1>3. QED
  BY ONLY <1>1, <1>2 DEF Full

LEMMA LineBefore ==
  ASSUME NEW P, NEW N \in Nat, NEW x \in Word, NEW t, t = <<N, x>>, NEW s
  PROVE  /\ Line(P \cup {t}, N + 1, s) => Line(P, N, s)
         /\ Line(P, N + 1, s) => Line(P, N, s)
<1>1. /\ Full(P \cup {t}, N + 1) => Full(P, N)
      /\ Full(P, N + 1) => Full(P, N)
  BY FullBefore
<1>2. QED
  BY ONLY <1>1 DEF Line

LEMMA StrideFound ==
  ASSUME NEW r \in Nat \X Word, NEW t \in Nat \X Word, r[1] < t[1], NEW s \in 1 .. M - 1,
         OnLineBy(r, t, s) \/ (t[1] = r[1] + 1 /\ WrapsOnLineBy(r, t, s))
  PROVE  HasStride(r, t) /\ StrideOf(r, t) = s
<1>1. PICK a \in Nat, b \in Nat, x \in Word, y \in Word :
        a = r[1] /\ b = t[1] /\ x = r[2] /\ y = t[2]
  OBVIOUS
<1>2. M \in Nat \ {0} /\ x \in Nat /\ y \in Nat /\ x < M /\ y < M /\ s \in Nat \ {0}
  BY WordType
<1>3. PICK d \in Nat \ {0} : d = b - a
  BY ONLY <1>1, r[1] < t[1], a \in Nat, b \in Nat, b - a \in Nat \ {0}
<1>4. PICK v \in Nat : v = s * d
  BY ONLY s \in 1 .. M - 1, d \in Nat \ {0}, <1>2
<1>5. (y - x) % M = v
  <2>1. CASE y - x = v
    <3>1. v \in 0 .. M - 1
      BY ONLY <1>2, <2>1, v \in Nat
    <3>2. v % M = v
      BY <1>2, <3>1, ModSmall
    <3>3. QED
      BY ONLY <2>1, <3>2
  <2>2. CASE b = a + 1 /\ (y - x) % M = v % M
    <3>1. d = 1
      BY ONLY <1>3, <2>2, a \in Nat, b \in Nat
    <3>2. v = s
      BY ONLY <1>2, <1>4, <3>1
    <3>3. s % M = s
      BY <1>2, ModSmall, s \in 0 .. M - 1
    <3>4. QED
      BY ONLY <2>2, <3>2, <3>3
  <2>3. QED
    BY ONLY <1>1, <1>3, <1>4, <2>1, <2>2,
       OnLineBy(r, t, s) \/ (t[1] = r[1] + 1 /\ WrapsOnLineBy(r, t, s))
    DEF OnLineBy, WrapsOnLineBy
<1>6. ValDiff(r, t) = v /\ IdxDiff(r, t) = d
  BY ONLY <1>1, <1>3, <1>5 DEF ValDiff, IdxDiff
<1>7. v = d * s + 0 /\ v # 0
  <2>1. v = d * s
    BY ONLY <1>2, <1>4, d \in Nat \ {0}
  <2>2. d * s > 0
    BY ONLY <1>2, d \in Nat \ {0}
  <2>3. QED
    BY ONLY <2>1, <2>2, v \in Nat
<1>8. v \div d = s /\ v % d = 0
  <2>1. s \in Int /\ 0 \in 0 .. d - 1 /\ v \in Int
    BY <1>2
  <2>2. QED
    BY <1>7, <2>1, DivModUnique
<1>9. QED
  BY ONLY <1>6, <1>7, <1>8, d \in Nat \ {0} DEF HasStride, StrideOf

LEMMA LineGoesOn ==
  ASSUME NEW b \in Word, NEW s \in Word, NEW q \in Nat \X Word, NEW N \in Nat, NEW x \in Word,
         (b + s * q[1]) % M = q[2], NEW t, t = <<N, x>>,
         OnLineBy(q, t, s) \/ WrapsOnLineBy(q, t, s)
  PROVE  (b + s * N) % M = x
<1>1. PICK a \in Nat, y \in Word : a = q[1] /\ y = q[2]
  OBVIOUS
<1>2. M \in Nat \ {0} /\ x \in Nat /\ y \in Nat /\ b \in Nat /\ s \in Nat /\ x \in 0 .. M - 1
  BY WordType DEF Word
<1>3. t[1] = N /\ t[2] = x
  OBVIOUS
<1>4. (x - y) % M = (s * (N - a)) % M
  BY ONLY <1>1, <1>3, OnLineBy(q, t, s) \/ WrapsOnLineBy(q, t, s) DEF OnLineBy, WrapsOnLineBy
<1>5. PICK A \in Int, K \in Int, D \in Int : A = b + s * a /\ K = s * (N - a) /\ D = x - y
  BY <1>2
<1>6. A + K = b + s * N
  BY ONLY <1>2, <1>5, a \in Nat, N \in Nat
<1>7. (A + K) % M = (y + K) % M
  <2>1. ((A % M) + K) % M = (A + K) % M
    BY <1>2, ModPlus
  <2>2. A % M = y
    BY ONLY <1>1, <1>5, (b + s * q[1]) % M = q[2]
  <2>3. QED
    BY ONLY <2>1, <2>2
<1>8. ((K % M) + y) % M = (K + y) % M /\ ((D % M) + y) % M = (D + y) % M
  BY <1>2, ModPlus, y \in Int
<1>9. D + y = x /\ K + y = y + K
  BY ONLY <1>2, <1>5, K \in Int
<1>10. x % M = x
  BY <1>2, ModSmall
<1>11. QED
  BY ONLY <1>4, <1>5, <1>6, <1>7, <1>8, <1>9, <1>10

LEMMA LinearUpdateTight ==
  ASSUME NEW n \in Nat, NEW f, FSMType(f, n), NEW N \in Nat, NEW P, Sees(P, N),
         NEW x \in Word, f.state # "FAILURE", LinearOK(f, P, N), LinearTight(f, P, N)
  PROVE  LinearTight(UpdateLinear(f, x), P \cup {<<N, x>>}, N + 1)
<1>1. PICK w \in FSM : /\ w = UpdateLinear(f, x) /\ LinearStep(f, x, w)
  BY UpdateLinearStep
<1>2. f \in FSM /\ f.updates = N /\ f.state \in {"UNKNOWN", "SUCCESS"}
  <2>1. f \in FSM /\ f.updates = N
    BY ONLY FSMType(f, n), f.state # "FAILURE", LinearOK(f, P, N) DEF FSMType, LinearOK
  <2>2. QED
    BY <2>1, FSMFields DEF States
<1>3. PICK t \in Nat \X Word : t = <<N, x>> /\ t[1] = N /\ t[2] = x
  <2>1. <<N, x>> \in Nat \X Word /\ <<N, x>>[1] = N /\ <<N, x>>[2] = x
    OBVIOUS
  <2>2. QED
    BY ONLY <2>1, Zenon
<1>4. PICK Q : Q = P \cup {t}
  OBVIOUS
<1>5. SUFFICES ASSUME NEW s \in 1 .. M - 1, Line(Q, N + 1, s)
               PROVE  w.state # "FAILURE" /\ (w.state = "SUCCESS" => w.strideI = s)
  <2>1. t \in Q /\ Q # {}
    BY ONLY <1>4
  <2>2. QED
    BY ONLY <1>1, <1>3, <1>4, <1>5, <2>1 DEF LinearTight
<1>6. Line(P, N, s)
  BY <1>3, <1>4, <1>5, LineBefore
<1>7. f.state = "SUCCESS" => f.strideI = s /\ P # {}
  BY ONLY <1>6, s \in 1 .. M - 1, LinearTight(f, P, N) DEF LinearTight
<1>8. CASE f.state = "SUCCESS"
  <2>1. f.i = N - 1 /\ OnLineOf(f, P) /\ f.strideI = s
    BY ONLY <1>7, <1>8, LinearOK(f, P, N) DEF LinearOK
  <2>2. PICK q \in P : TRUE
    BY ONLY <1>7, <1>8
  <2>3. q \in Nat \X Word /\ (f.base + f.strideI * q[1]) % M = q[2]
    BY ONLY <2>1, Sees(P, N), q \in P DEF OnLineOf, Sees
  <2>4. PICK b \in Word, z \in Word : b = f.base /\ z = f.strideI /\ z = s
    BY <1>2, <2>1, FSMFields
  <2>5. OnLineBy(q, t, z) \/ WrapsOnLineBy(q, t, z)
    BY ONLY <1>4, <1>5, <2>4, q \in P DEF Line
  <2>6. (b + z * N) % M = x
    BY <1>3, <2>3, <2>4, <2>5, LineGoesOn
  <2>7. f.i + 1 = N
    BY ONLY <2>1, N \in Nat
  <2>8. x = NextLinear(f)
    BY ONLY <2>4, <2>6, <2>7 DEF NextLinear
  <2>9. LinearGoesOn(f, x)
    BY ONLY <1>8, <2>8 DEF LinearGoesOn
  <2>10. w.state # "FAILURE"
    BY <1>1, <2>9, LinearNotFailed
  <2>11. QED
    BY ONLY <1>1, <1>8, <2>1, <2>10 DEF LinearStep
<1>9. CASE f.state = "UNKNOWN" /\ Len(f.confirmed) = 0
  <2>1. LinearGoesOn(f, x)
    BY ONLY <1>9 DEF LinearGoesOn
  <2>2. w.state # "FAILURE"
    BY <1>1, <2>1, LinearNotFailed
  <2>3. w.state # "SUCCESS"
    BY ONLY <1>1, <1>9, <2>2 DEF LinearStep
  <2>4. QED
    BY ONLY <2>2, <2>3
<1>10. CASE f.state = "UNKNOWN" /\ Len(f.confirmed) = 1
  <2>1. PICK r : r = f.confirmed[1]
    OBVIOUS
  <2>2. P = {r}
    BY ONLY <1>10, <2>1, LinearOK(f, P, N) DEF LinearOK
  <2>3. r \in Nat \X Word /\ r[1] < N
    BY ONLY <2>2, Sees(P, N) DEF Sees
  <2>4. OnLineBy(r, t, s) \/ (t[1] = r[1] + 1 /\ WrapsOnLineBy(r, t, s))
    <3>1. r \in Q /\ t \in Q
      BY ONLY <1>4, <2>2
    <3>2. CASE Full(Q, N + 1) /\ \A q, z \in Q : WrapsOnLineBy(q, z, s)
      <4>1. PICK a \in Nat : a = r[1]
        BY <2>3
      <4>2. \A k \in 0 .. N - 1 : k = a
        <5>1. Full(P, N)
          BY <1>3, <1>4, <3>2, FullBefore
        <5>2. QED
          BY ONLY <2>2, <4>1, <5>1 DEF Full
      <4>3. N = a + 1
        <5>1. N > 0 /\ 0 \in 0 .. N - 1 /\ N - 1 \in 0 .. N - 1
          BY <2>3, <4>1
        <5>2. QED
          BY ONLY <4>2, <5>1, N \in Nat
      <4>4. QED
        BY ONLY <1>3, <3>1, <3>2, <4>1, <4>3
    <3>3. QED
      BY ONLY <1>5, <3>1, <3>2 DEF Line
  <2>5. HasStride(r, t) /\ StrideOf(r, t) = s
    BY <1>3, <2>3, <2>4, StrideFound
  <2>6. LinearGoesOn(f, x)
    BY ONLY <1>2, <1>3, <1>10, <2>1, <2>5 DEF LinearGoesOn
  <2>7. w.state # "FAILURE"
    BY <1>1, <2>6, LinearNotFailed
  <2>8. w.strideI = StrideOf(r, t)
    BY ONLY <1>1, <1>2, <1>3, <1>10, <2>1, <2>7 DEF LinearStep
  <2>9. QED
    BY ONLY <2>5, <2>7, <2>8
<1>11. f.state = "UNKNOWN" => Len(f.confirmed) = 0 \/ Len(f.confirmed) = 1
  BY ONLY LinearOK(f, P, N), f.state # "FAILURE" DEF LinearOK
<1>12. QED
  BY ONLY <1>2, <1>8, <1>9, <1>10, <1>11

LEMMA LinearMissTight ==
  ASSUME NEW n \in Nat, NEW f, FSMType(f, n), NEW N \in Nat, NEW P, LinearTight(f, P, N)
  PROVE  LinearTight(MissLinear(f), P, N + 1)
<1>1. PICK w \in FSM : w = MissLinear(f) /\ w.state = f.state /\ w.strideI = f.strideI
  BY MissLinearStep
<1>2. \A s : Line(P, N + 1, s) => Line(P, N, s)
  <2>1. 0 \in Word
    BY WordType
  <2>2. \A s : Line(P, N + 1, s) => Line(P, N, s)
    BY <2>1, LineBefore
  <2>3. QED
    BY <2>2
<1>3. LinearTight(w, P, N + 1)
  BY ONLY <1>1, <1>2, LinearTight(f, P, N) DEF LinearTight
<1>4. QED
  BY ONLY <1>1, <1>3

(* Do the values lie in rows of ni, and has the state machine found them, or *)
(* not yet seen where the second one starts?                                *)
RowPoint(q, N, b, sI, ni, sJ) ==
  /\ q[2] = b + sI * (q[1] % ni) + sJ * (q[1] \div ni)
  /\ b <= q[2] /\ (q[2] - b) * N < M

Rows(P, N, b, sI, ni, sJ) == Full(P, N) /\ \A q \in P : RowPoint(q, N, b, sI, ni, sJ)

RowStart(f, N) ==
  /\ N = 0 => Len(f.confirmed) = 0
  /\ N = 1 => Len(f.confirmed) = 1
  /\ N >= 2 => Len(f.confirmed) = 2 /\ f.confirmed[2][1] = N - 1
  /\ N >= 1 => f.confirmed[1][1] = 0

RowsFound(f, N, b, sI, ni, sJ) ==
  /\ f.state # "FAILURE"
  /\ f.state = "UNKNOWN" => RowStart(f, N) /\ (N > ni => sJ = sI * ni)
  /\ f.state = "SUCCESS" => f.base = b /\ f.strideI = sI /\ f.ni = ni /\ f.strideJ = sJ

RowsTight(f, P, N) ==
  \A b, sI, sJ \in Word, ni \in Nat :
    sI # 0 /\ ni >= 2 /\ Rows(P, N, b, sI, ni, sJ) => RowsFound(f, N, b, sI, ni, sJ)

LEMMA RowsBefore ==
  ASSUME NEW P, NEW N \in Nat, NEW x \in Word, Sees(P, N), NEW t, t = <<N, x>>,
         NEW b \in Word, NEW sI, NEW ni, NEW sJ, Rows(P \cup {t}, N + 1, b, sI, ni, sJ)
  PROVE  Rows(P, N, b, sI, ni, sJ)
<1>1. Full(P, N)
  BY FullBefore DEF Rows
<1>2. ASSUME NEW q \in P PROVE RowPoint(q, N, b, sI, ni, sJ)
  <2>1. RowPoint(q, N + 1, b, sI, ni, sJ)
    BY ONLY q \in P, Rows(P \cup {t}, N + 1, b, sI, ni, sJ) DEF Rows
  <2>2. q[2] \in Nat /\ b \in Nat /\ M \in Nat
    BY WordType, q \in P DEF Sees
  <2>3. PICK y \in Nat : y = q[2]
    BY ONLY <2>2
  <2>4. PICK d \in Nat : d = y - b
    BY ONLY <2>1, <2>2, <2>3, y \in Nat, y - b \in Nat DEF RowPoint
  <2>5. d * (N + 1) < M
    BY ONLY <2>1, <2>3, <2>4 DEF RowPoint
  <2>6. d * N <= d * (N + 1) /\ d * N \in Nat /\ d * (N + 1) \in Nat
    BY ONLY d \in Nat, N \in Nat
  <2>7. d * N < M
    BY ONLY <2>2, <2>5, <2>6
  <2>8. QED
    BY ONLY <2>1, <2>3, <2>4, <2>7 DEF RowPoint
<1>3. QED
  BY ONLY <1>1, <1>2 DEF Rows

(* In the first row, or when the rows continue each other, values rise       *)
(* evenly.                                                                  *)
Continues(sI, ni, sJ)   == sJ = sI * ni
Rises(k, sI, ni, sJ)    == sI * (k % ni) + sJ * (k \div ni) = sI * k

LEMMA LinePoint ==
  ASSUME NEW ni \in Nat \ {0}, NEW k \in Nat, NEW sI \in Nat, NEW sJ \in Nat,
         k < ni \/ Continues(sI, ni, sJ)
  PROVE  Rises(k, sI, ni, sJ)
<1>1. PICK u \in Nat, v \in Int : u = k % ni /\ v = k \div ni
  <2>1. k \in Int
    OBVIOUS
  <2>2. k \div ni \in Int /\ k % ni \in 0 .. ni - 1
    BY <2>1, DivMod
  <2>3. k % ni \in Nat
    BY <2>2
  <2>4. QED
    BY ONLY <2>2, <2>3, Zenon
<1>2. k = ni * v + u
  BY <1>1, DivMod
<1>3. CASE k < ni
  <2>1. k = ni * 0 + k /\ k \in 0 .. ni - 1 /\ 0 \in Int /\ k \in Int
    BY <1>3
  <2>2. k % ni = k /\ k \div ni = 0
    BY <2>1, DivModUnique
  <2>3. QED
    BY <2>2 DEF Rises
<1>4. CASE sJ = sI * ni
  <2>1. sI * u + (sI * ni) * v = sI * (ni * v + u)
    BY ONLY u \in Nat, v \in Int, sI \in Nat, ni \in Nat \ {0}
  <2>2. QED
    BY ONLY <1>1, <1>2, <1>4, <2>1 DEF Rises
<1>5. QED
  BY <1>3, <1>4 DEF Continues

LEMMA DiffUp ==
  ASSUME NEW r \in Nat \X Word, NEW s \in Nat \X Word, r[2] <= s[2]
  PROVE  ValDiff(r, s) = s[2] - r[2]
<1>1. PICK x \in Word, y \in Word : x = r[2] /\ y = s[2]
  OBVIOUS
<1>2. M \in Nat \ {0} /\ x \in Nat /\ y \in Nat /\ x < M /\ y < M /\ x <= y
  BY <1>1, WordType
<1>3. y - x \in 0 .. M - 1
  BY ONLY <1>2
<1>4. (y - x) % M = y - x
  BY <1>2, <1>3, ModSmall
<1>5. QED
  BY ONLY <1>1, <1>4 DEF ValDiff

LEMMA AlignedOnLine ==
  ASSUME NEW r \in Nat \X Word, NEW s \in Nat \X Word, NEW t \in Nat \X Word,
         NEW b \in Nat, NEW c \in Nat, r[1] = 0, r[2] = b,
         s[2] = b + c * s[1], t[2] = b + c * t[1]
  PROVE  Aligned(r, s, t)
<1>1. PICK p \in Nat, q \in Nat, y \in Nat, z \in Nat :
        p = s[1] /\ q = t[1] /\ y = s[2] /\ z = t[2]
  BY WordType
<1>2. PICK u \in Nat, v \in Nat : u = c * p /\ v = c * q
  OBVIOUS
<1>3. y = b + u /\ z = b + v
  BY ONLY <1>1, <1>2, s[2] = b + c * s[1], t[2] = b + c * t[1]
<1>4. r[2] <= s[2] /\ r[2] <= t[2]
  BY ONLY <1>1, <1>3, r[2] = b, b \in Nat, u \in Nat, v \in Nat
<1>5. ValDiff(r, s) = u /\ ValDiff(r, t) = v
  <2>1. ValDiff(r, s) = s[2] - r[2] /\ ValDiff(r, t) = t[2] - r[2]
    BY <1>4, DiffUp
  <2>2. y - b = u /\ z - b = v
    BY ONLY <1>3, b \in Nat, u \in Nat, v \in Nat
  <2>3. QED
    BY ONLY <1>1, <2>1, <2>2, r[2] = b
<1>6. IdxDiff(r, s) = p /\ IdxDiff(r, t) = q
  BY ONLY <1>1, r[1] = 0, p \in Nat, q \in Nat DEF IdxDiff
<1>7. u * q = v * p
  BY ONLY <1>2, p \in Nat, q \in Nat, c \in Nat
<1>8. QED
  BY ONLY <1>5, <1>6, <1>7 DEF Aligned

(* The first value of the second row is out of line, unless that continues  *)
(* the first.                                                               *)
Turn(r, s, t, b, sI, sJ, m) ==
  /\ r[1] = 0 /\ r[2] = b /\ s[1] = m /\ t[1] = m + 1
  /\ s[2] = b + sI * m /\ t[2] = b + sJ
  /\ (s[2] - b) * (m + 2) < M /\ (t[2] - b) * (m + 2) < M

LEMMA TurnAligned ==
  ASSUME NEW r \in Nat \X Word, NEW s \in Nat \X Word, NEW t \in Nat \X Word,
         NEW b \in Nat, NEW sI \in Nat, NEW sJ \in Nat, NEW m \in Nat \ {0},
         Turn(r, s, t, b, sI, sJ, m), Aligned(r, s, t), NEW ni, ni = m + 1
  PROVE  Continues(sI, ni, sJ)
<1>0. /\ r[1] = 0 /\ r[2] = b /\ s[1] = m /\ t[1] = m + 1
      /\ s[2] = b + sI * m /\ t[2] = b + sJ
      /\ (s[2] - b) * (m + 2) < M /\ (t[2] - b) * (m + 2) < M
  BY DEF Turn
<1>1. PICK u \in Nat, y \in Nat, z \in Nat : u = sI * m /\ y = s[2] /\ z = t[2]
  <2>1. s[2] \in Nat /\ t[2] \in Nat
    BY WordType
  <2>2. sI * m \in Nat
    BY ONLY sI \in Nat, m \in Nat \ {0}
  <2>3. QED
    BY ONLY <2>1, <2>2, Zenon
<1>2. y = b + u /\ z = b + sJ
  BY ONLY <1>0, <1>1
<1>3. r[2] <= s[2] /\ r[2] <= t[2]
  BY ONLY <1>0, <1>1, <1>2, b \in Nat, u \in Nat, sJ \in Nat
<1>4. ValDiff(r, s) = u /\ ValDiff(r, t) = sJ
  <2>1. ValDiff(r, s) = s[2] - r[2] /\ ValDiff(r, t) = t[2] - r[2]
    BY <1>3, DiffUp
  <2>2. y - b = u /\ z - b = sJ
    BY ONLY <1>2, b \in Nat, u \in Nat, sJ \in Nat
  <2>3. QED
    BY ONLY <1>0, <1>1, <2>1, <2>2
<1>5. IdxDiff(r, s) = m /\ IdxDiff(r, t) = m + 1
  BY ONLY <1>0, m \in Nat \ {0} DEF IdxDiff
<1>6. (u * (m + 1)) % M = (sJ * m) % M
  BY ONLY <1>4, <1>5, Aligned(r, s, t) DEF Aligned
<1>7. M \in Nat \ {0}
  BY WordType
<1>8. u * (m + 2) < M /\ sJ * (m + 2) < M
  <2>1. y - b = u /\ z - b = sJ
    BY ONLY <1>2, b \in Nat, u \in Nat, sJ \in Nat
  <2>2. QED
    BY ONLY <1>0, <1>1, <2>1
<1>9. PICK g \in Nat, h \in Nat : g = u * (m + 1) /\ h = sJ * m
  OBVIOUS
<1>10. g < M /\ h < M
  <2>1. u * (m + 2) = g + u
    BY ONLY <1>9, u \in Nat, m \in Nat \ {0}
  <2>2. sJ * (m + 2) = h + 2 * sJ
    BY ONLY <1>9, sJ \in Nat, m \in Nat \ {0}
  <2>3. QED
    BY ONLY <1>7, <1>8, <2>1, <2>2, g \in Nat, h \in Nat, u \in Nat, sJ \in Nat
<1>11. g = h
  <2>1. g \in 0 .. M - 1 /\ h \in 0 .. M - 1
    BY ONLY <1>7, <1>10, g \in Nat, h \in Nat
  <2>2. g % M = g /\ h % M = h
    BY <1>7, <2>1, ModSmall
  <2>3. QED
    BY ONLY <1>6, <1>9, <2>2
<1>12. (sI * (m + 1)) * m = sJ * m
  <2>1. (sI * (m + 1)) * m = (sI * m) * (m + 1)
    BY ONLY sI \in Nat, m \in Nat \ {0}
  <2>2. QED
    BY ONLY <1>1, <1>9, <1>11, <2>1
<1>13. sI * (m + 1) \in Int /\ sJ \in Int
  BY ONLY sI \in Nat, sJ \in Nat, m \in Nat \ {0}
<1>14. sI * (m + 1) = sJ
  BY <1>12, <1>13, Cancel
<1>15. QED
  BY ONLY <1>14, ni = m + 1 DEF Continues

LEMMA QuardricUpdateTight ==
  ASSUME NEW n \in Nat, NEW f, FSMType(f, n), NEW N \in Nat, NEW P, Sees(P, N),
         NEW x \in Word, f.state # "FAILURE", QuardricOK(f, P, N), RowsTight(f, P, N)
  PROVE  RowsTight(UpdateQuardric(f, x), P \cup {<<N, x>>}, N + 1)
<1>1. PICK w \in FSM : w = UpdateQuardric(f, x) /\ QuardricStep(f, x, w)
  BY UpdateQuardricStep
<1>2. f \in FSM /\ f.updates = N /\ f.state \in {"UNKNOWN", "SUCCESS"}
  <2>1. f \in FSM /\ f.updates = N
    BY ONLY FSMType(f, n), f.state # "FAILURE", QuardricOK(f, P, N) DEF FSMType, QuardricOK
  <2>2. QED
    BY <2>1, FSMFields DEF States
<1>3. PICK t \in Nat \X Word : t = <<N, x>> /\ t[1] = N /\ t[2] = x
  <2>1. <<N, x>> \in Nat \X Word /\ <<N, x>>[1] = N /\ <<N, x>>[2] = x
    OBVIOUS
  <2>2. QED
    BY ONLY <2>1, Zenon
<1>4. PICK Q : Q = P \cup {t}
  OBVIOUS
<1>5. SUFFICES ASSUME NEW b \in Word, NEW sI \in Word, NEW sJ \in Word, NEW ni \in Nat,
                      sI # 0, ni >= 2, Rows(Q, N + 1, b, sI, ni, sJ)
               PROVE  RowsFound(w, N + 1, b, sI, ni, sJ)
  BY ONLY <1>1, <1>3, <1>4, <1>5 DEF RowsTight
<1>6. Rows(P, N, b, sI, ni, sJ)
  BY <1>3, <1>4, <1>5, RowsBefore
<1>7. RowsFound(f, N, b, sI, ni, sJ)
  BY ONLY <1>5, <1>6, b \in Word, sI \in Word, sJ \in Word, ni \in Nat, RowsTight(f, P, N)
  DEF RowsTight
<1>8. /\ M \in Nat \ {0} /\ b \in Nat /\ sI \in Nat \ {0} /\ sJ \in Nat /\ ni \in Nat \ {0}
      /\ x \in Nat /\ x \in 0 .. M - 1 /\ sJ \in 0 .. M - 1 /\ b \in 0 .. M - 1
      /\ sI \in 1 .. M - 1
  BY <1>5, WordType DEF Word
<1>9. /\ x = b + sI * (N % ni) + sJ * (N \div ni)
      /\ b <= x /\ (x - b) * (N + 1) < M
  BY ONLY <1>3, <1>4, <1>5 DEF Rows, RowPoint
<1>10. CASE f.state = "SUCCESS"
  <2>1. f.ni # 0 /\ f.i = (N - 1) % f.ni /\ f.j = (N - 1) \div f.ni
    BY ONLY <1>10, QuardricOK(f, P, N) DEF QuardricOK
  <2>2. f.base = b /\ f.strideI = sI /\ f.ni = ni /\ f.strideJ = sJ
    BY ONLY <1>7, <1>10 DEF RowsFound
  <2>3. PICK z \in FSM : SameRows(f, z) /\ Stepped(f, z)
    BY <1>10, MissQuardricStep
  <2>4. NextQuardric(f) = (f.base + f.strideI * (N % f.ni) + f.strideJ * (N \div f.ni)) % M
    BY <1>2, <2>1, <2>3, RowsStep
  <2>5. x % M = x
    BY <1>8, ModSmall
  <2>6. x = NextQuardric(f)
    BY ONLY <1>9, <2>2, <2>4, <2>5
  <2>7. QuardricGoesOn(f, x)
    BY ONLY <1>10, <2>6 DEF QuardricGoesOn
  <2>8. w.state # "FAILURE"
    BY <1>1, <2>7, QuardricNotFailed
  <2>9. w.state = "SUCCESS" /\ SameRows(f, w)
    BY ONLY <1>1, <1>10, <2>8 DEF QuardricStep
  <2>10. QED
    BY ONLY <2>2, <2>9 DEF SameRows, RowsFound
<1>11. CASE f.state = "UNKNOWN"
  <2>1. RowStart(f, N) /\ (N > ni => sJ = sI * ni)
    BY ONLY <1>7, <1>11 DEF RowsFound
  <2>2. CASE N = 0 \/ N = 1
    <3>1. Len(f.confirmed) # 2 /\ (N = 0 => Len(f.confirmed) = 0)
          /\ (N = 1 => Len(f.confirmed) = 1 /\ f.confirmed[1][1] = 0)
      <4>1. CASE N = 0
        BY ONLY <2>1, <4>1 DEF RowStart
      <4>2. CASE N = 1
        <5>1. N >= 1
          BY ONLY <4>2
        <5>2. Len(f.confirmed) = 1 /\ f.confirmed[1][1] = 0 /\ N # 0
          BY ONLY <2>1, <4>2, <5>1 DEF RowStart
        <5>3. QED
          BY ONLY <4>2, <5>2
      <4>3. QED
        BY ONLY <2>2, <4>1, <4>2
    <3>2. QuardricGoesOn(f, x)
      BY ONLY <1>11, <3>1 DEF QuardricGoesOn
    <3>3. w.state # "FAILURE"
      BY <1>1, <3>2, QuardricNotFailed
    <3>4. /\ w.state = "UNKNOWN"
          /\ N = 0 => Len(w.confirmed) = 1 /\ w.confirmed[1] = t
          /\ N = 1 => /\ Len(w.confirmed) = 2 /\ w.confirmed[1] = f.confirmed[1]
                      /\ w.confirmed[2] = t
      BY ONLY <1>1, <1>2, <1>3, <1>11, <2>2, <3>1, <3>3 DEF QuardricStep
    <3>5. RowStart(w, N + 1)
      <4>1. CASE N = 0
        BY ONLY <1>3, <3>4, <4>1 DEF RowStart
      <4>2. CASE N = 1
        BY ONLY <1>3, <3>1, <3>4, <4>2 DEF RowStart
      <4>3. QED
        BY ONLY <2>2, <4>1, <4>2
    <3>6. ~ N + 1 > ni
      BY ONLY <1>5, <2>2, ni \in Nat
    <3>7. QED
      BY ONLY <3>4, <3>5, <3>6 DEF RowsFound
  <2>3. CASE N >= 2
    <3>1. PICK r, s : r = f.confirmed[1] /\ s = f.confirmed[2]
      OBVIOUS
    <3>2. Len(f.confirmed) = 2 /\ r[1] = 0 /\ s[1] = N - 1
      <4>1. N >= 1
        BY ONLY <2>3, N \in Nat
      <4>2. QED
        BY ONLY <2>1, <2>3, <3>1, <4>1 DEF RowStart
    <3>3. r \in P /\ s \in P
      BY ONLY <1>11, <3>1, <3>2, QuardricOK(f, P, N) DEF QuardricOK
    <3>4. r \in Nat \X Word /\ s \in Nat \X Word
      BY ONLY <3>3, Sees(P, N) DEF Sees
    <3>5. /\ RowPoint(r, N + 1, b, sI, ni, sJ) /\ RowPoint(s, N + 1, b, sI, ni, sJ)
          /\ RowPoint(t, N + 1, b, sI, ni, sJ)
      BY ONLY <1>4, <1>5, <3>3 DEF Rows
    <3>6. r[2] = b
      <4>1. 0 = ni * 0 + 0 /\ 0 \in 0 .. ni - 1 /\ 0 \in Int
        BY <1>8
      <4>2. 0 % ni = 0 /\ 0 \div ni = 0
        BY <1>8, <4>1, DivModUnique
      <4>3. r[2] = b + sI * 0 + sJ * 0
        BY ONLY <3>2, <3>5, <4>2 DEF RowPoint
      <4>4. QED
        BY ONLY <1>8, <4>3
    <3>7. PICK m \in Nat \ {0} : m = N - 1 /\ N = m + 1
      BY ONLY <2>3, N \in Nat, N - 1 \in Nat \ {0}
    <3>8. s[2] = b + sI * m
      <4>1. m < ni \/ sJ = sI * ni
        BY ONLY <2>1, <3>7, ni \in Nat, m \in Nat \ {0}
      <4>2. sI * (m % ni) + sJ * (m \div ni) = sI * m
        <5>1. ni \in Nat \ {0} /\ m \in Nat /\ sI \in Nat /\ sJ \in Nat
          BY ONLY <1>8, m \in Nat \ {0}
        <5>2. m < ni \/ Continues(sI, ni, sJ)
          BY ONLY <4>1 DEF Continues
        <5>3. Rises(m, sI, ni, sJ)
          BY ONLY <5>1, <5>2, LinePoint
        <5>4. QED
          BY ONLY <5>3 DEF Rises
      <4>3. s[2] = b + sI * (m % ni) + sJ * (m \div ni)
        BY ONLY <3>2, <3>5, <3>7 DEF RowPoint
      <4>4. PICK u \in Int, v \in Int : u = sI * (m % ni) /\ v = sJ * (m \div ni)
        <5>1. m \in Int
          BY <3>7
        <5>2. m \div ni \in Int /\ m % ni \in Int
          BY <1>8, <5>1, DivMod
        <5>3. QED
          BY ONLY <1>8, <5>2
      <4>5. b + u + v = b + (u + v)
        BY ONLY <1>8, u \in Int, v \in Int
      <4>6. QED
        BY ONLY <4>2, <4>3, <4>4, <4>5
    <3>9. HasStride(r, s) /\ StrideOf(r, s) = sI /\ BaseOf(r, s) = b
      <4>1. s[2] - r[2] = sI * (s[1] - r[1])
        <5>1. PICK u \in Int : u = sI * m
          BY ONLY <1>8, m \in Nat \ {0}
        <5>2. s[1] - r[1] = m
          BY ONLY <3>2, <3>7, m \in Nat \ {0}
        <5>3. b + u - b = u
          BY ONLY <1>8, u \in Int
        <5>4. u = sI * (s[1] - r[1]) /\ s[2] = b + u
          BY ONLY <3>8, <5>1, <5>2
        <5>5. s[2] - r[2] = b + u - b
          BY ONLY <1>8, <3>6, <5>4, u \in Int
        <5>6. QED
          BY ONLY <5>3, <5>4, <5>5
      <4>2. r[1] < s[1]
        BY ONLY <3>2, <3>7, m \in Nat \ {0}
      <4>3. HasStride(r, s) /\ StrideOf(r, s) = sI
        <5>1. OnLineBy(r, s, sI)
          BY ONLY <4>1 DEF OnLineBy
        <5>2. QED
          BY <1>8, <3>4, <4>2, <5>1, StrideFound
      <4>4. b - 0 * sI = b /\ b % M = b
        <5>1. b - 0 * sI = b
          BY ONLY <1>8
        <5>2. b % M = b
          BY <1>8, ModSmall
        <5>3. QED
          BY ONLY <5>1, <5>2
      <4>5. QED
        BY ONLY <3>2, <3>6, <4>3, <4>4 DEF BaseOf
    <3>10. QuardricGoesOn(f, x)
      BY ONLY <1>11, <3>1, <3>9 DEF QuardricGoesOn
    <3>11. w.state # "FAILURE" /\ (w.state = "SUCCESS" => ~ Aligned(r, s, t))
      BY <1>1, <1>2, <1>3, <1>11, <3>1, <3>10, QuardricNotFailed
    <3>12. \/ /\ w.state = "UNKNOWN" /\ Len(w.confirmed) = 2 /\ w.confirmed[1] = r
              /\ w.confirmed[2] = t /\ Aligned(r, s, t)
           \/ /\ w.state = "SUCCESS" /\ w.ni = N /\ w.base = b /\ w.strideI = sI
              /\ w.strideJ = (x - b) % M /\ ~ Aligned(r, s, t)
      BY ONLY <1>1, <1>2, <1>3, <1>11, <3>1, <3>2, <3>9, <3>11 DEF QuardricStep, Aligned
    <3>13. w.state = "UNKNOWN" => RowStart(w, N + 1)
      <4>1. N + 1 # 0 /\ N + 1 # 1 /\ N + 1 - 1 = N
        BY ONLY <2>3, N \in Nat
      <4>2. QED
        BY ONLY <1>3, <3>2, <3>12, <4>1 DEF RowStart
    <3>14. CASE N # ni
      <4>1. N < ni \/ sJ = sI * ni
        BY ONLY <2>1, <3>14, N \in Nat, ni \in Nat
      <4>2. x = b + sI * N
        <5>1. sI * (N % ni) + sJ * (N \div ni) = sI * N
          <6>1. ni \in Nat \ {0} /\ sI \in Nat /\ sJ \in Nat
            BY ONLY <1>8
          <6>2. N < ni \/ Continues(sI, ni, sJ)
            BY ONLY <4>1 DEF Continues
          <6>3. Rises(N, sI, ni, sJ)
            BY ONLY <6>1, <6>2, N \in Nat, LinePoint
          <6>4. QED
            BY ONLY <6>3 DEF Rises
        <5>2. PICK u \in Int, v \in Int : u = sI * (N % ni) /\ v = sJ * (N \div ni)
          <6>1. N \in Int
            OBVIOUS
          <6>2. N \div ni \in Int /\ N % ni \in Int
            BY <1>8, <6>1, DivMod
          <6>3. QED
            BY ONLY <1>8, <6>2
        <5>3. b + u + v = b + (u + v)
          BY ONLY <1>8, u \in Int, v \in Int
        <5>4. QED
          BY ONLY <1>9, <5>1, <5>2, <5>3
      <4>3. Aligned(r, s, t)
        <5>1. s[2] = b + sI * s[1] /\ t[2] = b + sI * t[1]
          BY ONLY <1>3, <3>2, <3>7, <3>8, <4>2
        <5>2. QED
          BY <1>8, <3>2, <3>4, <3>6, <5>1, AlignedOnLine
      <4>4. w.state = "UNKNOWN"
        BY ONLY <3>12, <4>3
      <4>5. N + 1 > ni => sJ = sI * ni
        BY ONLY <3>14, <4>1, N \in Nat, ni \in Nat
      <4>6. QED
        BY ONLY <3>13, <4>4, <4>5 DEF RowsFound
    <3>15. CASE N = ni
      <4>1. x = b + sJ
        <5>1. N % ni = 0 /\ N \div ni = 1
          <6>1. N = ni * 1 + 0 /\ 0 \in 0 .. ni - 1 /\ 1 \in Int /\ N \in Int
            BY <1>8, <3>15
          <6>2. QED
            BY <1>8, <6>1, DivModUnique
        <5>2. b + sI * 0 + sJ * 1 = b + sJ
          BY ONLY <1>8
        <5>3. QED
          BY ONLY <1>9, <5>1, <5>2
      <4>2. w.state = "UNKNOWN" => sJ = sI * ni
        <5>1. (s[2] - b) * (m + 2) < M /\ (t[2] - b) * (m + 2) < M
          <6>1. N + 1 = m + 2
            BY ONLY <3>7, m \in Nat \ {0}
          <6>2. QED
            BY ONLY <3>5, <6>1 DEF RowPoint
        <5>2. r[1] = 0 /\ r[2] = b /\ s[1] = m /\ t[1] = m + 1 /\ t[2] = b + sJ
          BY ONLY <1>3, <3>2, <3>6, <3>7, <4>1
        <5>3. Turn(r, s, t, b, sI, sJ, m)
          BY ONLY <3>8, <5>1, <5>2 DEF Turn
        <5>4. ASSUME Aligned(r, s, t) PROVE Continues(sI, ni, sJ)
          <6>1. b \in Nat /\ sI \in Nat /\ sJ \in Nat /\ ni = m + 1
            BY ONLY <1>8, <3>7, <3>15
          <6>2. QED
            BY ONLY <3>4, <5>3, <5>4, <6>1, m \in Nat \ {0}, t \in Nat \X Word,
               TurnAligned
        <5>5. QED
          BY ONLY <3>12, <5>4 DEF Continues
      <4>3. (x - b) % M = sJ
        <5>1. x - b = sJ
          BY ONLY <1>8, <4>1
        <5>2. sJ % M = sJ
          BY <1>8, ModSmall
        <5>3. QED
          BY ONLY <5>1, <5>2
      <4>4. QED
        BY ONLY <3>12, <3>13, <3>15, <4>2, <4>3 DEF RowsFound
    <3>16. QED
      BY ONLY <3>14, <3>15
  <2>4. N = 0 \/ N = 1 \/ N >= 2
    BY ONLY N \in Nat
  <2>5. QED
    BY ONLY <2>2, <2>3, <2>4
<1>12. QED
  BY ONLY <1>2, <1>10, <1>11

LEMMA QuardricMissTight ==
  ASSUME NEW N \in Nat, NEW P, Sees(P, N), NEW w
  PROVE  RowsTight(w, P, N + 1)
<1>1. ~ Full(P, N + 1)
  <2>1. N \in 0 .. N + 1 - 1
    OBVIOUS
  <2>2. ASSUME NEW q \in P, q[1] = N PROVE FALSE
    BY ONLY <2>2, Sees(P, N), N \in Nat DEF Sees
  <2>3. QED
    BY ONLY <2>1, <2>2 DEF Full
<1>2. QED
  BY ONLY <1>1 DEF RowsTight, Rows

ValuesTight(V, P, N) == LinearTight(V["LINEAR"], P, N) /\ RowsTight(V["QUARDRIC"], P, N)

LEMMA ValuesFreshTight ==
  ASSUME NEW V, V = [v \in ValuePattern |-> FreshValueFSM(v)]
  PROVE  ValuesTight(V, {}, 0)
<1>1. "LINEAR" \in ValuePattern /\ "QUARDRIC" \in ValuePattern
  BY PatternNames
<1>2. /\ V["LINEAR"].state = "UNKNOWN" /\ V["QUARDRIC"].state = "UNKNOWN"
      /\ V["QUARDRIC"].confirmed = <<>>
  BY <1>1 DEF FreshValueFSM
<1>3. LinearTight(V["LINEAR"], {}, 0)
  BY ONLY <1>2 DEF LinearTight
<1>4. RowsTight(V["QUARDRIC"], {}, 0)
  <2>1. Len(<<>>) = 0 /\ ~ 0 >= 1 /\ ~ 0 >= 2 /\ 0 # 1
    OBVIOUS
  <2>2. \A ni \in Nat : ni >= 2 => ~ 0 > ni
    OBVIOUS
  <2>3. QED
    BY ONLY <1>2, <2>1, <2>2 DEF RowsTight, RowsFound, RowStart
<1>5. QED
  BY ONLY <1>3, <1>4 DEF ValuesTight

LEMMA ValuesUpdateTight ==
  ASSUME NEW n \in Nat, NEW V, ValuesType(V, n), NEW x \in Word,
         NEW P, NEW N \in Nat, ValuesOK(V, P, N), ValuesTight(V, P, N)
  PROVE  ValuesTight(Updated(V, x), P \cup {<<N, x>>}, N + 1)
<1>1. PICK W : W = Updated(V, x)
  OBVIOUS
<1>2. PICK t : t = <<N, x>>
  OBVIOUS
<1>3. PICK Q : Q = P \cup {t}
  OBVIOUS
<1>4. "LINEAR" \in ValuePattern /\ "QUARDRIC" \in ValuePattern
  BY PatternNames
<1>5. \A v \in ValuePattern : W[v] = Update(v, V[v], x)
  BY <1>1 DEF Updated
<1>6. \A v \in ValuePattern : FSMType(V[v], n)
  BY DEF ValuesType
<1>7. Sees(P, N)
  BY DEF ValuesOK
<1>8. LinearTight(W["LINEAR"], Q, N + 1)
  <2>1. PICK f : f = V["LINEAR"]
    OBVIOUS
  <2>2. FSMType(f, n) /\ LinearOK(f, P, N) /\ LinearTight(f, P, N)
    BY ONLY <1>4, <1>6, <2>1, ValuesOK(V, P, N), ValuesTight(V, P, N) DEF ValuesOK, ValuesTight
  <2>3. W["LINEAR"] = (IF f.state = "FAILURE" THEN f ELSE UpdateLinear(f, x))
    BY ONLY <1>4, <1>5, <2>1 DEF Update
  <2>4. CASE f.state = "FAILURE"
    <3>1. \A s : Line(Q, N + 1, s) => Line(P, N, s)
      BY <1>2, <1>3, LineBefore
    <3>2. QED
      BY ONLY <2>2, <2>3, <2>4, <3>1 DEF LinearTight
  <2>5. CASE f.state # "FAILURE"
    BY <1>2, <1>3, <1>7, <2>2, <2>3, <2>5, LinearUpdateTight
  <2>6. QED
    BY ONLY <2>4, <2>5
<1>9. RowsTight(W["QUARDRIC"], Q, N + 1)
  <2>1. PICK f : f = V["QUARDRIC"]
    OBVIOUS
  <2>2. FSMType(f, n) /\ QuardricOK(f, P, N) /\ RowsTight(f, P, N)
    BY ONLY <1>4, <1>6, <2>1, ValuesOK(V, P, N), ValuesTight(V, P, N) DEF ValuesOK, ValuesTight
  <2>3. W["QUARDRIC"] = (IF f.state = "FAILURE" THEN f ELSE UpdateQuardric(f, x))
    BY ONLY <1>4, <1>5, <2>1 DEF Update
  <2>4. CASE f.state = "FAILURE"
    <3>1. SUFFICES ASSUME NEW b \in Word, NEW sI \in Word, NEW sJ \in Word, NEW ni \in Nat,
                          sI # 0, ni >= 2, Rows(Q, N + 1, b, sI, ni, sJ)
                   PROVE  FALSE
      BY ONLY <2>3, <2>4, <3>1 DEF RowsTight
    <3>2. Rows(P, N, b, sI, ni, sJ)
      BY <1>2, <1>3, <1>7, <3>1, RowsBefore
    <3>3. QED
      BY ONLY <2>2, <2>4, <3>1, <3>2, b \in Word, sI \in Word, sJ \in Word, ni \in Nat
      DEF RowsTight, RowsFound
  <2>5. CASE f.state # "FAILURE"
    BY <1>2, <1>3, <1>7, <2>2, <2>3, <2>5, QuardricUpdateTight
  <2>6. QED
    BY ONLY <2>4, <2>5
<1>10. QED
  BY ONLY <1>1, <1>2, <1>3, <1>8, <1>9 DEF ValuesTight

LEMMA ValuesMissTight ==
  ASSUME NEW n \in Nat, NEW V, ValuesType(V, n),
         NEW P, NEW N \in Nat, ValuesOK(V, P, N), ValuesTight(V, P, N)
  PROVE  ValuesTight(Missed(V), P, N + 1)
<1>1. PICK W : W = Missed(V)
  OBVIOUS
<1>2. "LINEAR" \in ValuePattern /\ "QUARDRIC" \in ValuePattern
  BY PatternNames
<1>3. \A v \in ValuePattern : W[v] = UpdateMissing(v, V[v])
  BY <1>1 DEF Missed
<1>4. LinearTight(W["LINEAR"], P, N + 1)
  <2>1. PICK f : f = V["LINEAR"]
    OBVIOUS
  <2>2. FSMType(f, n) /\ LinearTight(f, P, N)
    BY ONLY <1>2, <2>1, ValuesType(V, n), ValuesTight(V, P, N) DEF ValuesType, ValuesTight
  <2>3. W["LINEAR"] = (IF f.state = "FAILURE" THEN f ELSE MissLinear(f))
    BY ONLY <1>2, <1>3, <2>1 DEF UpdateMissing
  <2>4. CASE f.state = "FAILURE"
    <3>1. 0 \in Word
      BY WordType
    <3>2. \A s : Line(P, N + 1, s) => Line(P, N, s)
      BY <3>1, LineBefore
    <3>3. QED
      BY ONLY <2>2, <2>3, <2>4, <3>2 DEF LinearTight
  <2>5. CASE f.state # "FAILURE"
    BY <2>2, <2>3, <2>5, LinearMissTight
  <2>6. QED
    BY ONLY <2>4, <2>5
<1>5. RowsTight(W["QUARDRIC"], P, N + 1)
  <2>1. Sees(P, N)
    BY DEF ValuesOK
  <2>2. QED
    BY <2>1, QuardricMissTight
<1>6. QED
  BY ONLY <1>1, <1>4, <1>5 DEF ValuesTight

(* An access pattern only fails when an entry has no value. *)
AccessTight(h, a, F) ==
  /\ F.state = "FAILURE" => a \in {"UNCOND", "COND_UPDATE"} /\ \E k \in 1 .. Len(h) : ~ h[k][1]
  /\ F.state # "FAILURE" => ValuesTight(F.vals, Points(h, a), StepCount(h, a))

LEMMA FreshTight ==
  ASSUME NEW a \in AccessPattern
  PROVE  AccessTight(<<>>, a, FreshFSMs[a])
<1>1. PICK V : V = [v \in ValuePattern |-> FreshValueFSM(v)]
  OBVIOUS
<1>2. FreshFSMs[a].state = "UNKNOWN" /\ FreshFSMs[a].vals = V
  BY ONLY <1>1, a \in AccessPattern DEF FreshFSMs
<1>3. ValuesTight(V, {}, 0)
  BY <1>1, ValuesFreshTight
<1>4. Points(<<>>, a) = {} /\ StepCount(<<>>, a) = 0
  BY NoPoints
<1>5. QED
  BY ONLY <1>2, <1>3, <1>4 DEF AccessTight

LEMMA MissingTight ==
  ASSUME NEW h \in Seq(Entry), NEW a \in AccessPattern, NEW F, AccessOK(h, a, F),
         AccessTight(h, a, F)
  PROVE  AccessTight(Append(h, <<FALSE, 0>>), a, FeedMissing(a, F))
<1>1. PICK n \in Nat : n = Len(h)
  OBVIOUS
<1>2. PICK e \in Entry : e = <<FALSE, 0>> /\ ~e[1]
  <2>1. <<FALSE, 0>> \in Entry
    BY WordType DEF Entry
  <2>2. ~(<<FALSE, 0>>[1])
    OBVIOUS
  <2>3. QED
    BY ONLY <2>1, <2>2, Zenon
<1>3. PICK g : g = Append(h, e)
  OBVIOUS
<1>4. Len(g) = n + 1 /\ n + 1 \in 1 .. Len(g) /\ g[n + 1] = e
  BY <1>1, <1>3
<1>5. Points(g, a) = Points(h, a)
      /\ (NewStep(h, a, e) => StepCount(g, a) = StepCount(h, a) + 1)
      /\ (~NewStep(h, a, e) => StepCount(g, a) = StepCount(h, a))
  <2>1. Longer(h, a, e, g)
    BY <1>3, HistoryGrows
  <2>2. QED
    BY ONLY <1>2, <2>1 DEF Longer
<1>6. PICK S, V : S = F.state /\ V = F.vals
  OBVIOUS
<1>7. /\ F = [state |-> S, vals |-> V] /\ S \in States /\ ValuesType(V, n)
      /\ S # "FAILURE" =>
           ValuesOK(V, Points(h, a), StepCount(h, a)) /\ ValuesTight(V, Points(h, a), StepCount(h, a))
      /\ S = "FAILURE" => a \in {"UNCOND", "COND_UPDATE"}
  BY ONLY <1>1, <1>6, AccessOK(h, a, F), AccessTight(h, a, F)
  DEF AccessOK, AccessType, AccessTight
<1>8. a \in {"UNCOND", "COND_ACCESS", "COND_UPDATE", "SAME_COND"}
  BY PatternNames
<1>9. PICK G : G = FeedMissing(a, F)
  OBVIOUS
<1>10. SUFFICES AccessTight(g, a, G)
  BY <1>2, <1>3, <1>9
<1>11. CASE S = "FAILURE" \/ a \in {"UNCOND", "COND_UPDATE"}
  <2>1. G.state = "FAILURE" /\ a \in {"UNCOND", "COND_UPDATE"}
    BY ONLY <1>7, <1>9, <1>11 DEF FeedMissing
  <2>2. \E k \in 1 .. Len(g) : ~ g[k][1]
    BY <1>2, <1>4, Zenon
  <2>3. QED
    BY ONLY <2>1, <2>2 DEF AccessTight
<1>12. CASE S # "FAILURE" /\ a = "COND_ACCESS"
  <2>1. G = [state |-> "SUCCESS", vals |-> Missed(V)]
    BY ONLY <1>6, <1>7, <1>9, <1>12 DEF FeedMissing, Missed
  <2>2. StepCount(g, a) = StepCount(h, a) + 1
    BY ONLY <1>5, <1>12 DEF NewStep
  <2>3. StepCount(h, a) \in Nat
    BY <1>1, n + 1 \in Nat, StepsFinite DEF StepCount
  <2>4. ValuesTight(Missed(V), Points(h, a), StepCount(h, a) + 1)
    BY <1>7, <1>12, <2>3, ValuesMissTight
  <2>5. G.state = "SUCCESS" /\ G.vals = Missed(V)
    BY ONLY <2>1
  <2>6. QED
    BY ONLY <1>5, <2>2, <2>4, <2>5 DEF AccessTight
<1>13. CASE S # "FAILURE" /\ a = "SAME_COND"
  <2>1. G.state = "SUCCESS" /\ G.vals = V
    BY ONLY <1>7, <1>9, <1>13 DEF FeedMissing
  <2>2. StepCount(g, a) = StepCount(h, a)
    BY ONLY <1>2, <1>5, <1>13 DEF NewStep
  <2>3. QED
    BY ONLY <1>5, <1>7, <1>13, <2>1, <2>2 DEF AccessTight
<1>14. QED
  BY ONLY <1>8, <1>11, <1>12, <1>13

LEMMA AccessedTight ==
  ASSUME NEW h \in Seq(Entry), NEW a \in AccessPattern, NEW F, AccessOK(h, a, F),
         AccessTight(h, a, F), NEW x \in Word
  PROVE  AccessTight(Append(h, <<TRUE, x>>), a, FeedAccess(a, F, x, h = <<>>))
<1>1. PICK n \in Nat : n = Len(h)
  OBVIOUS
<1>2. PICK e \in Entry : e = <<TRUE, x>> /\ e[1] /\ e[2] = x
  <2>1. <<TRUE, x>> \in Entry
    BY DEF Entry
  <2>2. <<TRUE, x>>[1] /\ <<TRUE, x>>[2] = x
    OBVIOUS
  <2>3. QED
    BY ONLY <2>1, <2>2, Zenon
<1>3. PICK g : g = Append(h, e)
  OBVIOUS
<1>4. Len(g) = n + 1 /\ \A k \in 1 .. n : k \in 1 .. Len(g) /\ g[k] = h[k]
  BY <1>1, <1>3
<1>5. /\ NewStep(h, a, e) =>
           /\ StepCount(g, a) = StepCount(h, a) + 1
           /\ Points(g, a) = Points(h, a) \cup {<<StepCount(h, a), x>>}
      /\ ~NewStep(h, a, e) =>
           StepCount(g, a) = StepCount(h, a) /\ Points(g, a) = Points(h, a)
  <2>1. Longer(h, a, e, g)
    BY <1>3, HistoryGrows
  <2>2. QED
    BY ONLY <1>2, <2>1 DEF Longer
<1>6. PICK S, V : S = F.state /\ V = F.vals
  OBVIOUS
<1>7. /\ F = [state |-> S, vals |-> V] /\ S \in States /\ ValuesType(V, n)
      /\ S # "FAILURE" =>
           /\ ValuesOK(V, Points(h, a), StepCount(h, a))
           /\ ValuesTight(V, Points(h, a), StepCount(h, a))
           /\ a = "COND_UPDATE" /\ h # <<>> => PrevOK(V, h[n][2])
      /\ S = "FAILURE" => a \in {"UNCOND", "COND_UPDATE"} /\ \E k \in 1 .. n : ~ h[k][1]
  BY ONLY <1>1, <1>6, AccessOK(h, a, F), AccessTight(h, a, F)
  DEF AccessOK, AccessType, AccessTight
<1>8. PICK G : G = FeedAccess(a, F, x, h = <<>>)
  OBVIOUS
<1>9. SUFFICES AccessTight(g, a, G)
  BY <1>2, <1>3, <1>8
<1>10. CASE S = "FAILURE"
  <2>1. G.state = "FAILURE"
    BY ONLY <1>7, <1>8, <1>10 DEF FeedAccess
  <2>2. \E k \in 1 .. Len(g) : ~ g[k][1]
    BY ONLY <1>4, <1>7, <1>10
  <2>3. QED
    BY ONLY <1>7, <1>10, <2>1, <2>2 DEF AccessTight
<1>11. CASE S # "FAILURE"
  <2>1. PICK W : W = [v \in ValuePattern |->
                        IF a = "COND_UPDATE" /\ ~(h = <<>>) /\ x = V[v].prev
                        THEN V[v] ELSE Update(v, V[v], x)]
    OBVIOUS
  <2>2. G = [state |-> "SUCCESS", vals |-> W]
    BY ONLY <1>6, <1>7, <1>8, <1>11, <2>1 DEF FeedAccess
  <2>3. G.state = "SUCCESS" /\ G.vals = W
    BY ONLY <2>2
  <2>4. NewStep(h, a, e) <=> ~(a = "COND_UPDATE" /\ h # <<>> /\ x = h[n][2])
    BY ONLY <1>1, <1>2 DEF NewStep
  <2>5. CASE a = "COND_UPDATE" /\ h # <<>> /\ x = h[n][2]
    <3>1. PrevOK(V, x)
      BY ONLY <1>7, <1>11, <2>5
    <3>2. \A v \in ValuePattern : W[v] = V[v]
      BY ONLY <2>1, <2>5, <3>1 DEF PrevOK, Update
    <3>3. V = [v \in ValuePattern |-> V[v]] /\ W = [v \in ValuePattern |-> W[v]]
      BY ONLY <1>7, <2>1 DEF ValuesType
    <3>4. W = V
      BY ONLY <3>2, <3>3
    <3>5. QED
      BY ONLY <1>5, <1>7, <1>11, <2>3, <2>4, <2>5, <3>4 DEF AccessTight
  <2>6. CASE ~(a = "COND_UPDATE" /\ h # <<>> /\ x = h[n][2])
    <3>1. a = "COND_UPDATE" /\ h # <<>> => PrevOK(V, h[n][2]) /\ x # h[n][2]
      BY ONLY <1>7, <1>11, <2>6
    <3>2. \A v \in ValuePattern : W[v] = Update(v, V[v], x)
      BY ONLY <2>1, <3>1 DEF PrevOK, Update
    <3>3. W = [v \in ValuePattern |-> W[v]]
      BY ONLY <2>1
    <3>4. W = Updated(V, x)
      BY ONLY <3>2, <3>3 DEF Updated
    <3>5. PICK N \in Nat, P \in {Points(h, a)} : N = StepCount(h, a) /\ P = Points(h, a)
      BY <1>1, n + 1 \in Nat, StepsFinite DEF StepCount
    <3>6. ValuesTight(W, P \cup {<<N, x>>}, N + 1)
      BY <1>7, <1>11, <3>4, <3>5, ValuesUpdateTight
    <3>7. StepCount(g, a) = N + 1 /\ Points(g, a) = P \cup {<<N, x>>}
      BY ONLY <1>5, <2>4, <2>6, <3>5
    <3>8. QED
      BY ONLY <2>3, <3>6, <3>7 DEF AccessTight
  <2>7. QED
    BY ONLY <2>5, <2>6
<1>12. QED
  BY ONLY <1>10, <1>11

FSMsTight == \A a \in AccessPattern : AccessTight(history, a, fsms[a])

LEMMA TightInit == Init => FSMsTight
  BY FreshTight DEF Init, FSMsTight

LEMMA TightStep == FSMsOK /\ FSMsTight /\ HistoryStep => FSMsTight'
<1> SUFFICES ASSUME FSMsOK, FSMsTight, HistoryStep PROVE FSMsTight'
  OBVIOUS
<1>1. history \in Seq(Entry)
  BY EntryTypes DEF FSMsOK
<1>2. CASE history' = history /\ fsms' = fsms
  BY <1>2 DEF FSMsTight
<1>3. ASSUME NEW x \in Vals, AddPatternAccess(x) PROVE FSMsTight'
  <2>1. /\ history' = Append(history, <<TRUE, x>>)
        /\ fsms' = [a \in AccessPattern |-> FeedAccess(a, fsms[a], x, history = <<>>)]
    BY <1>3 DEF AddPatternAccess
  <2>2. x \in Word
    BY EntryTypes
  <2>3. ASSUME NEW a \in AccessPattern
        PROVE  AccessTight(history', a, fsms'[a])
    <3>1. AccessOK(history, a, fsms[a]) /\ AccessTight(history, a, fsms[a])
      BY DEF FSMsOK, FSMsTight
    <3>2. AccessTight(Append(history, <<TRUE, x>>), a, FeedAccess(a, fsms[a], x, history = <<>>))
      BY <1>1, <2>2, <3>1, AccessedTight
    <3>3. fsms'[a] = FeedAccess(a, fsms[a], x, history = <<>>)
      BY ONLY <2>1
    <3>4. QED
      BY ONLY <2>1, <3>2, <3>3
  <2>4. QED
    BY <2>3 DEF FSMsTight
<1>4. CASE AddPatternMissing
  <2>1. /\ history' = Append(history, <<FALSE, 0>>)
        /\ fsms' = [a \in AccessPattern |-> FeedMissing(a, fsms[a])]
    BY <1>4 DEF AddPatternMissing
  <2>2. ASSUME NEW a \in AccessPattern
        PROVE  AccessTight(history', a, fsms'[a])
    <3>1. AccessOK(history, a, fsms[a]) /\ AccessTight(history, a, fsms[a])
      BY DEF FSMsOK, FSMsTight
    <3>2. AccessTight(Append(history, <<FALSE, 0>>), a, FeedMissing(a, fsms[a]))
      BY <1>1, <3>1, MissingTight
    <3>3. QED
      BY ONLY <2>1, <3>2
  <2>3. QED
    BY <2>2 DEF FSMsTight
<1>5. CASE history' = <<>> /\ fsms' = FreshFSMs
  BY <1>5, FreshTight DEF FSMsTight
<1>6. QED
  BY <1>2, <1>3, <1>4, <1>5 DEF HistoryStep

-----------------------------------------------------------------------------
(* Nothing simpler is overlooked *)

LEMMA Ranks ==
  /\ IndexIn(ValueOrder, "CONSTANT") = 2 /\ IndexIn(ValueOrder, "LINEAR") = 3
  /\ IndexIn(ValueOrder, "QUARDRIC") = 4 /\ IndexIn(ValueOrder, "RANDOM") = 5
  /\ \A k \in 1 .. 5 : IndexIn(ValueOrder, ValueOrder[k]) = k
<1>1. /\ "CONSTANT" \in ValuePattern /\ "LINEAR" \in ValuePattern
      /\ "QUARDRIC" \in ValuePattern /\ "RANDOM" \in ValuePattern
  BY PatternNames
<1>2. ASSUME NEW k \in 1 .. 5, NEW l \in 1 .. 5, ValueOrder[k] = ValueOrder[l] PROVE k = l
  <2>1. k \in {1, 2, 3, 4, 5} /\ l \in {1, 2, 3, 4, 5}
    OBVIOUS
  <2>2. /\ ValueOrder[1] = "UNKNOWN" /\ ValueOrder[2] = "CONSTANT" /\ ValueOrder[3] = "LINEAR"
        /\ ValueOrder[4] = "QUARDRIC" /\ ValueOrder[5] = "RANDOM"
    BY Orders
  <2>3. QED
    BY ONLY <1>2, <2>1, <2>2
<1>3. ASSUME NEW k \in 1 .. 5 PROVE IndexIn(ValueOrder, ValueOrder[k]) = k
  <2>1. PICK v \in ValuePattern : v = ValueOrder[k]
    BY Orders
  <2>2. IndexIn(ValueOrder, v) \in 1 .. 5 /\ ValueOrder[IndexIn(ValueOrder, v)] = v
    BY IndexOfValue
  <2>3. QED
    BY <1>2, <2>1, <2>2
<1>4. 2 \in 1 .. 5 /\ 3 \in 1 .. 5 /\ 4 \in 1 .. 5 /\ 5 \in 1 .. 5
  OBVIOUS
<1>5. /\ ValueOrder[2] = "CONSTANT" /\ ValueOrder[3] = "LINEAR"
      /\ ValueOrder[4] = "QUARDRIC" /\ ValueOrder[5] = "RANDOM"
  BY Orders
<1>6. QED
  BY ONLY <1>3, <1>4, <1>5

(* A pattern that fits is not passed over. *)
LEMMA ValueNotAbove ==
  ASSUME NEW F, NEW v \in ValuePattern, F.vals["RANDOM"].state # "FAILURE",
         F.vals[v].state # "FAILURE"
  PROVE  IndexIn(ValueOrder, ValueOf(F)) <= IndexIn(ValueOrder, v)
<1> DEFINE Good(k) == /\ F.vals[ValueOrder[k]].state # "FAILURE"
                      /\ \A l \in 1 .. k - 1 : F.vals[ValueOrder[l]].state = "FAILURE"
           T == {k \in 1 .. 5 : F.vals[ValueOrder[k]].state # "FAILURE"}
<1>1. T # {} /\ T \subseteq Nat
  BY Orders, 5 \in 1 .. 5
<1>2. PICK x \in T : \A y \in T : x <= y
  <2> HIDE DEF T
  <2>1. QED
    BY <1>1, LeastElement
<1>3. Good(x)
  BY <1>2
<1>4. \E k \in 1 .. 5 : Good(k)
  BY <1>2, <1>3
<1>5. PICK k \in 1 .. 5 : Good(k) /\ ValueOf(F) = ValueOrder[k]
  <2>1. ValueOf(F) = ValueOrder[CHOOSE k \in 1 .. 5 : Good(k)]
    BY DEF ValueOf
  <2> HIDE DEF Good
  <2>2. QED
    BY ONLY <1>4, <2>1
<1>6. PICK m \in 1 .. 5 : m = IndexIn(ValueOrder, v) /\ ValueOrder[m] = v
  BY IndexOfValue
<1>7. m \notin 1 .. k - 1
  BY ONLY <1>5, <1>6, F.vals[v].state # "FAILURE"
<1>8. k <= m
  BY ONLY <1>7, k \in 1 .. 5, m \in 1 .. 5
<1>9. IndexIn(ValueOrder, ValueOf(F)) = k
  BY <1>5, Ranks
<1>10. QED
  BY ONLY <1>6, <1>8, <1>9

LEMMA ChosenNotAbove ==
  ASSUME FSMsOK, history # <<>>, NEW a \in AccessPattern, NEW v \in ValuePattern,
         fsms[a].state # "FAILURE", fsms[a].vals[v].state # "FAILURE"
  PROVE  IndexIn(ValueOrder, Computed.val) <= IndexIn(ValueOrder, v)
<1>1. PICK F : F = fsms[a]
  OBVIOUS
<1>2. F.state = "SUCCESS" /\ F.vals["RANDOM"].state = "SUCCESS"
  <2>1. AccessOK(history, a, F)
    BY <1>1 DEF FSMsOK
  <2>2. F.state \in States /\ F.state # "UNKNOWN" /\ F.state # "FAILURE"
        /\ ValuesOK(F.vals, Points(history, a), StepCount(history, a))
    BY ONLY <1>1, <2>1, history # <<>>, fsms[a].state # "FAILURE" DEF AccessOK, AccessType
  <2>3. QED
    BY ONLY <2>2 DEF States, ValuesOK
<1>3. IndexIn(ValueOrder, ValueOf(F)) <= IndexIn(ValueOrder, v)
  BY <1>1, <1>2, ValueNotAbove
<1>4. IndexIn(ValueOrder, ValueOf(fsms[Chosen])) <= IndexIn(ValueOrder, ValueOf(F))
      /\ fsms[Chosen].state = "SUCCESS" /\ Chosen \in AccessPattern
  <2>1. \A b \in AccessPattern : AccessOK(history, b, fsms[b])
    BY DEF FSMsOK
  <2>2. QED
    BY <1>1, <1>2, <2>1, ChosenFits
<1>5. Computed.val = ValueOf(fsms[Chosen])
  BY DEF Computed
<1>6. ValueOf(F) \in ValuePattern
  BY <1>2, ValueOfFirst DEF FirstOf
<1>7. ValueOf(fsms[Chosen]) \in ValuePattern
  <2>1. PICK C : C = fsms[Chosen]
    OBVIOUS
  <2>2. AccessOK(history, Chosen, C)
    BY <1>4, <2>1 DEF FSMsOK
  <2>3. C.vals["RANDOM"].state = "SUCCESS"
    BY ONLY <1>4, <2>1, <2>2 DEF AccessOK, ValuesOK
  <2>4. QED
    BY <2>1, <2>3, ValueOfFirst DEF FirstOf
<1>8. /\ IndexIn(ValueOrder, ValueOf(F)) \in 1 .. 5
      /\ IndexIn(ValueOrder, ValueOf(fsms[Chosen])) \in 1 .. 5
      /\ IndexIn(ValueOrder, v) \in 1 .. 5
  BY <1>6, <1>7, IndexOfValue
<1>9. QED
  BY ONLY <1>3, <1>4, <1>5, <1>8

(* COND_ACCESS makes a step at every iteration. *)
LEMMA AccessSteps ==
  ASSUME NEW h \in Seq(Entry)
  PROVE  /\ StepCount(h, "COND_ACCESS") = Len(h)
         /\ \A k \in DOMAIN h : StepsBefore(h, "COND_ACCESS", k) = k - 1
         /\ Valued(h, "COND_ACCESS") = {k \in DOMAIN h : h[k][1]}
<1>1. \A k : Steps(h, "COND_ACCESS", k)
  BY DEF Steps
<1>2. ASSUME NEW k \in Nat \ {0} PROVE StepsBefore(h, "COND_ACCESS", k) = k - 1
  <2>1. {j \in 1 .. k - 1 : Steps(h, "COND_ACCESS", j)} = 1 .. k - 1
    BY ONLY <1>1
  <2>2. Cardinality(1 .. k - 1) = k - 1
    <3>1. PICK b \in Nat : b = k - 1
      OBVIOUS
    <3>2. Cardinality(1 .. b) = IF 1 > b THEN 0 ELSE b - 1 + 1
      BY FS_Interval
    <3>3. QED
      BY ONLY <3>1, <3>2, b \in Nat
  <2>3. QED
    BY ONLY <2>1, <2>2 DEF StepsBefore
<1>3. StepCount(h, "COND_ACCESS") = Len(h)
  <2>1. PICK n \in Nat : n = Len(h)
    OBVIOUS
  <2>2. n + 1 \in Nat \ {0} /\ n + 1 - 1 = n
    OBVIOUS
  <2>3. StepsBefore(h, "COND_ACCESS", n + 1) = n
    BY <1>2, <2>2
  <2>4. QED
    BY ONLY <2>1, <2>3 DEF StepCount
<1>4. \A k \in DOMAIN h : StepsBefore(h, "COND_ACCESS", k) = k - 1
  BY <1>2
<1>5. Valued(h, "COND_ACCESS") = {k \in DOMAIN h : h[k][1]}
  BY ONLY <1>1 DEF Valued
<1>6. QED
  BY ONLY <1>3, <1>4, <1>5

(* A point is an entry with a value, at its step. *)
PointAt(h, q, k) ==
  /\ k \in DOMAIN h /\ h[k][1] /\ k \in Nat \ {0} /\ h[k][2] \in Word
  /\ q[1] = k - 1 /\ q[2] = h[k][2]

LEMMA AccessPoints ==
  ASSUME NEW h \in Seq(Entry)
  PROVE  /\ \A q \in Points(h, "COND_ACCESS") : \E k : PointAt(h, q, k)
         /\ Gapless(h) => Full(Points(h, "COND_ACCESS"), Len(h))
<1>1. /\ \A k \in DOMAIN h : StepsBefore(h, "COND_ACCESS", k) = k - 1
      /\ Valued(h, "COND_ACCESS") = {k \in DOMAIN h : h[k][1]}
  BY AccessSteps
<1>2. \A k \in DOMAIN h : k \in Nat \ {0} /\ h[k] \in Entry
  OBVIOUS
<1>3. \A k \in DOMAIN h : h[k][2] \in Word
  BY <1>2 DEF Entry
<1>4. ASSUME NEW q \in Points(h, "COND_ACCESS") PROVE \E k : PointAt(h, q, k)
  <2>1. PICK k \in Valued(h, "COND_ACCESS") : q = <<StepsBefore(h, "COND_ACCESS", k), h[k][2]>>
    BY <1>4 DEF Points
  <2>2. k \in DOMAIN h /\ h[k][1] /\ q = <<k - 1, h[k][2]>>
    BY ONLY <1>1, <2>1
  <2>3. q[1] = k - 1 /\ q[2] = h[k][2]
    BY ONLY <2>2
  <2>4. PointAt(h, q, k)
    BY ONLY <1>2, <1>3, <2>2, <2>3 DEF PointAt
  <2>5. QED
    BY ONLY <2>4
<1>5. ASSUME Gapless(h), NEW k \in 0 .. Len(h) - 1
      PROVE  \E q \in Points(h, "COND_ACCESS") : q[1] = k
  <2>1. PICK l \in DOMAIN h : l = k + 1 /\ l - 1 = k
    OBVIOUS
  <2>2. l \in Valued(h, "COND_ACCESS")
    BY ONLY <1>1, <1>5, l \in DOMAIN h DEF Gapless
  <2>3. <<k, h[l][2]>> \in Points(h, "COND_ACCESS")
    BY ONLY <1>1, <2>1, <2>2 DEF Points
  <2>4. <<k, h[l][2]>>[1] = k
    OBVIOUS
  <2>5. QED
    BY ONLY <2>3, <2>4
<1>6. Gapless(h) => Full(Points(h, "COND_ACCESS"), Len(h))
  BY ONLY <1>5 DEF Full
<1>7. QED
  BY ONLY <1>4, <1>6

LineIn(h, s) == OnLine(h, s) \/ (Gapless(h) /\ WrapsOnLine(h, s))

LEMMA LineOfPoints ==
  ASSUME NEW h \in Seq(Entry), NEW s, LineIn(h, s)
  PROVE  Line(Points(h, "COND_ACCESS"), Len(h), s)
<1>1. PICK P : P = Points(h, "COND_ACCESS")
  OBVIOUS
<1>2. (\A q \in P : \E k : PointAt(h, q, k)) /\ (Gapless(h) => Full(P, Len(h)))
  BY <1>1, AccessPoints
<1>3. ASSUME NEW q \in P, NEW r \in P
      PROVE  /\ OnLine(h, s) => OnLineBy(q, r, s)
             /\ WrapsOnLine(h, s) => WrapsOnLineBy(q, r, s)
  <2>1. PICK k : PointAt(h, q, k)
    BY ONLY <1>2, q \in P
  <2>2. PICK l : PointAt(h, r, l)
    BY ONLY <1>2, r \in P
  <2>3. /\ k \in DOMAIN h /\ h[k][1] /\ k \in Nat /\ q[1] = k - 1 /\ q[2] = h[k][2]
        /\ l \in DOMAIN h /\ h[l][1] /\ l \in Nat /\ r[1] = l - 1 /\ r[2] = h[l][2]
    BY ONLY <2>1, <2>2 DEF PointAt
  <2>4. r[1] - q[1] = l - k
    BY ONLY <2>3
  <2>5. QED
    BY ONLY <2>3, <2>4 DEF OnLine, WrapsOnLine, OnLineBy, WrapsOnLineBy
<1>4. Line(P, Len(h), s)
  BY ONLY <1>2, <1>3, LineIn(h, s) DEF LineIn, Line
<1>5. QED
  BY ONLY <1>1, <1>4

(* Values on a line that does not rise are equal. *)
Equal(h) == \A k, l \in DOMAIN h : h[k][1] /\ h[l][1] => h[k][2] = h[l][2]

LEMMA FlatLine ==
  ASSUME NEW h \in Seq(Entry), LineIn(h, 0)
  PROVE  Equal(h)
<1>1. SUFFICES ASSUME NEW k \in DOMAIN h, NEW l \in DOMAIN h, h[k][1], h[l][1]
               PROVE  h[k][2] = h[l][2]
  BY ONLY <1>1 DEF Equal
<1>2. h[k] \in Entry /\ h[l] \in Entry /\ k \in Int /\ l \in Int
  OBVIOUS
<1>3. PICK x \in Word, y \in Word : x = h[k][2] /\ y = h[l][2]
  BY <1>2 DEF Entry
<1>4. M \in Nat \ {0} /\ x \in Nat /\ y \in Nat /\ x < M /\ y < M
  BY WordType
<1>5. 0 * (l - k) = 0 /\ 0 * (k - l) = 0
  BY ONLY <1>2
<1>6. y - x = 0 \/ ((y - x) % M = 0 % M /\ (x - y) % M = 0 % M)
  BY ONLY <1>1, <1>3, <1>5, k \in DOMAIN h, l \in DOMAIN h, LineIn(h, 0)
  DEF LineIn, OnLine, WrapsOnLine
<1>7. ASSUME NEW a \in Word, NEW b \in Word, (a - b) % M = 0 % M PROVE ~ b < a
  <2>1. SUFFICES ASSUME b < a PROVE FALSE
    OBVIOUS
  <2>2. a \in Nat /\ b \in Nat /\ a < M
    BY WordType
  <2>3. a - b \in 0 .. M - 1 /\ 0 \in 0 .. M - 1
    BY ONLY <1>4, <2>1, <2>2
  <2>4. (a - b) % M = a - b /\ 0 % M = 0
    BY <1>4, <2>3, ModSmall
  <2>5. QED
    BY ONLY <1>7, <2>1, <2>2, <2>4
<1>8. QED
  BY ONLY <1>3, <1>4, <1>6, <1>7, x \in Word, y \in Word

-----------------------------------------------------------------------------
(* Rows of a rising nest *)

LEMMA RowsOfPoints ==
  ASSUME NEW h \in Seq(Entry), Gapless(h), h # <<>>, NEW sI \in Word, NEW sJ \in Word,
         NEW ni \in Nat, ni >= 2, InRows(h, sI, ni, sJ)
  PROVE  Rows(Points(h, "COND_ACCESS"), Len(h), h[1][2], sI, ni, sJ)
<1>1. PICK P : P = Points(h, "COND_ACCESS")
  OBVIOUS
<1>2. (\A q \in P : \E k : PointAt(h, q, k)) /\ Full(P, Len(h))
  BY <1>1, AccessPoints
<1>3. 1 \in DOMAIN h /\ h[1] \in Entry
  OBVIOUS
<1>4. PICK b \in Word : b = h[1][2]
  BY <1>3 DEF Entry
<1>5. PICK n \in Nat : n = Len(h)
  OBVIOUS
<1>6. M \in Nat /\ b \in Nat /\ sI \in Nat /\ sJ \in Nat
  BY WordType
<1>7. ASSUME NEW q \in P PROVE RowPoint(q, n, b, sI, ni, sJ)
  <2>1. PICK k : PointAt(h, q, k)
    BY ONLY <1>2, q \in P
  <2>2. k \in DOMAIN h /\ k \in Nat \ {0} /\ q[1] = k - 1 /\ q[2] = h[k][2]
    BY ONLY <2>1 DEF PointAt
  <2>3. PICK m \in Nat : m = k - 1
    BY ONLY <2>2
  <2>4. PICK i \in Nat, j \in Nat : i = m % ni /\ j = m \div ni
    BY ONLY m \in Nat, ni \in Nat, ni >= 2
  <2>5. PICK u \in Nat, v \in Nat : u = sI * i /\ v = sJ * j
    BY ONLY <1>6, i \in Nat, j \in Nat
  <2>6. /\ h[k][2] = h[1][2] + sI * ((k - 1) % ni) + sJ * ((k - 1) \div ni)
        /\ (h[k][2] - h[1][2]) * Len(h) < M
    BY ONLY <2>2, InRows(h, sI, ni, sJ) DEF InRows
  <2>7. /\ q[2] = b + sI * i + sJ * j /\ (q[2] - b) * n < M
    BY ONLY <1>4, <1>5, <2>2, <2>3, <2>4, <2>6
  <2>8. b <= q[2]
    BY ONLY <1>6, <2>5, <2>7, u \in Nat, v \in Nat
  <2>9. q[1] % ni = i /\ q[1] \div ni = j
    BY ONLY <2>2, <2>3, <2>4
  <2>10. QED
    BY ONLY <2>7, <2>8, <2>9 DEF RowPoint
<1>8. QED
  BY ONLY <1>1, <1>2, <1>4, <1>5, <1>7 DEF Rows

(* One more entry is one more step, or none. *)
StepsAre(h, a, k, n) == StepsBefore(h, a, k) = n

LEMMA StepsNext ==
  ASSUME NEW h, NEW a, NEW k \in Nat, NEW n \in Nat, StepsAre(h, a, k, n), k # 0
  PROVE  /\ Steps(h, a, k) => StepsAre(h, a, k + 1, n + 1)
         /\ ~Steps(h, a, k) => StepsAre(h, a, k + 1, n)
<1>1. PICK S : S = {j \in 1 .. k - 1 : Steps(h, a, j)}
  OBVIOUS
<1>2. IsFiniteSet(S) /\ Cardinality(S) = n
  BY <1>1, StepsFinite DEF StepsAre, StepsBefore
<1>3. PICK T : T = {j \in 1 .. k + 1 - 1 : Steps(h, a, j)}
  OBVIOUS
<1>4. 1 .. k + 1 - 1 = (1 .. k - 1) \cup {k} /\ k \notin 1 .. k - 1
  BY ONLY k \in Nat, k # 0
<1>5. Steps(h, a, k) => T = S \cup {k} /\ k \notin S
  BY ONLY <1>1, <1>3, <1>4
<1>6. ~Steps(h, a, k) => T = S
  BY ONLY <1>1, <1>3, <1>4
<1>7. k \notin S => Cardinality(S \cup {k}) = n + 1
  BY <1>2, FS_AddElement
<1>8. StepsBefore(h, a, k + 1) = Cardinality(T)
  BY ONLY <1>3 DEF StepsBefore
<1>9. QED
  BY ONLY <1>2, <1>5, <1>6, <1>7, <1>8 DEF StepsAre

(* When rows repeat one value, each row is one update. *)
RowSteps(h, ni, k) == StepsAre(h, "COND_UPDATE", k + 1, ((k - 1) \div ni) + 1)

LEMMA RowUpdate ==
  ASSUME NEW h \in Seq(Entry), NEW sJ \in Word, sJ # 0,
         NEW ni \in Nat, ni >= 2, InRows(h, 0, ni, sJ), NEW k \in DOMAIN h, k > 1
  PROVE  /\ Steps(h, "COND_UPDATE", k) => (k - 1) \div ni = (k - 2) \div ni + 1
         /\ ~Steps(h, "COND_UPDATE", k) => (k - 1) \div ni = (k - 2) \div ni
<1>1. k \in Nat /\ k - 1 \in DOMAIN h /\ h[1] \in Entry
  OBVIOUS
<1>2. PICK b \in Nat : b = h[1][2]
  BY <1>1, WordType DEF Entry
<1>3. PICK N \in Nat : N = k - 1 /\ N - 1 = k - 2 /\ k - 1 - 1 = k - 2
  BY ONLY <1>1, k > 1
<1>4. NextAt(N, ni, (N - 1) % ni, (N - 1) \div ni)
  BY NextPosition
<1>5. PICK j \in Int : j = (N - 1) \div ni
  BY ONLY <1>4 DEF NextAt
<1>6. PICK l \in Int : l = N \div ni /\ (l = j \/ l = j + 1)
  BY ONLY <1>4, <1>5, j \in Int DEF NextAt
<1>7. /\ h[k][2] = b + 0 * (N % ni) + sJ * l
      /\ h[k - 1][2] = b + 0 * ((N - 1) % ni) + sJ * j
  BY ONLY <1>1, <1>2, <1>3, <1>5, <1>6, k \in DOMAIN h, InRows(h, 0, ni, sJ) DEF InRows
<1>8. N % ni \in Int /\ (N - 1) % ni \in Int
  BY ONLY N \in Nat, ni \in Nat, ni >= 2
<1>9. h[k][2] = b + sJ * l /\ h[k - 1][2] = b + sJ * j
  BY ONLY <1>7, <1>8
<1>10. sJ \in Nat \ {0}
  BY WordType, sJ # 0
<1>11. l = j + 1 => sJ * l = sJ * j + sJ
  BY ONLY <1>10, j \in Int
<1>12. PICK u, v \in Int : u = sJ * l /\ v = sJ * j
  BY ONLY <1>10, j \in Int, l \in Int
<1>13. l # j <=> h[k][2] # h[k - 1][2]
  <2>1. h[k][2] = b + u /\ h[k - 1][2] = b + v
    BY ONLY <1>9, <1>12
  <2>2. l = j => u = v
    BY ONLY <1>12
  <2>3. l = j + 1 => u = v + sJ
    BY ONLY <1>11, <1>12
  <2>4. j # j + 1
    OBVIOUS
  <2>5. QED
    BY ONLY <1>6, <1>10, <2>1, <2>2, <2>3, <2>4, b \in Nat, u \in Int, v \in Int
<1>14. Steps(h, "COND_UPDATE", k) <=> h[k][2] # h[k - 1][2]
  BY ONLY k > 1, <1>1 DEF Steps
<1>15. QED
  BY ONLY <1>3, <1>5, <1>6, <1>13, <1>14

LEMMA RowStepsAll ==
  ASSUME NEW h \in Seq(Entry), NEW sJ \in Word, sJ # 0,
         NEW ni \in Nat, ni >= 2, InRows(h, 0, ni, sJ)
  PROVE  \A k \in DOMAIN h : RowSteps(h, ni, k)
<1> DEFINE T == {k \in DOMAIN h : ~RowSteps(h, ni, k)}
<1>1. T \subseteq Nat
  OBVIOUS
<1>2. SUFFICES ASSUME T # {} PROVE FALSE
  OBVIOUS
<1>3. PICK x \in T : \A y \in T : x <= y
  <2> HIDE DEF T
  <2>1. QED
    BY <1>1, <1>2, LeastElement
<1>4. x \in DOMAIN h /\ x \in Nat /\ x # 0 /\ ~RowSteps(h, ni, x)
  OBVIOUS
<1>5. CASE x = 1
  <2>1. {j \in 1 .. 1 - 1 : Steps(h, "COND_UPDATE", j)} = {} /\ 0 \in Nat /\ 1 \in Nat /\ 1 # 0
    OBVIOUS
  <2>2. StepsAre(h, "COND_UPDATE", 1, 0)
    BY ONLY <2>1, FS_EmptySet DEF StepsAre, StepsBefore
  <2>3. Steps(h, "COND_UPDATE", 1)
    BY DEF Steps
  <2>4. StepsAre(h, "COND_UPDATE", 1 + 1, 0 + 1)
    BY ONLY <2>1, <2>2, <2>3, StepsNext
  <2>5. (1 - 1) \div ni = 0
    <3>1. 1 - 1 = ni * 0 + 0 /\ 0 \in 0 .. ni - 1 /\ 0 \in Int /\ 1 - 1 \in Int /\ ni \in Nat \ {0}
      BY ONLY ni \in Nat, ni >= 2
    <3>2. QED
      BY ONLY <3>1, DivModUnique
  <2>6. RowSteps(h, ni, 1)
    BY ONLY <2>4, <2>5 DEF RowSteps
  <2>7. QED
    BY ONLY <1>4, <1>5, <2>6
<1>6. CASE x # 1
  <2>1. PICK y \in Nat : y = x - 1 /\ y + 1 = x /\ y - 1 = x - 2 /\ y \in DOMAIN h /\ ~ x <= y /\ x > 1
    BY ONLY <1>4, <1>6, h \in Seq(Entry)
  <2>2. RowSteps(h, ni, y)
    BY ONLY <1>3, <2>1
  <2>3. PICK n \in Int : n = (x - 2) \div ni
    BY ONLY <1>4, ni \in Nat, ni >= 2
  <2>4. StepsAre(h, "COND_UPDATE", x, n + 1)
    BY ONLY <2>1, <2>2, <2>3 DEF RowSteps
  <2>5. n + 1 \in Nat
    BY <1>4, <2>4, StepsFinite DEF StepsAre
  <2>6. /\ Steps(h, "COND_UPDATE", x) => (x - 1) \div ni = n + 1
        /\ ~Steps(h, "COND_UPDATE", x) => (x - 1) \div ni = n
    BY ONLY <1>4, <2>1, <2>3, RowUpdate, h \in Seq(Entry), sJ \in Word, sJ # 0, ni \in Nat, ni >= 2,
       InRows(h, 0, ni, sJ)
  <2>7. /\ Steps(h, "COND_UPDATE", x) => StepsAre(h, "COND_UPDATE", x + 1, n + 1 + 1)
        /\ ~Steps(h, "COND_UPDATE", x) => StepsAre(h, "COND_UPDATE", x + 1, n + 1)
    BY ONLY <1>4, <2>4, <2>5, StepsNext
  <2>8. RowSteps(h, ni, x)
    BY ONLY <2>6, <2>7 DEF RowSteps
  <2>9. QED
    BY ONLY <1>4, <2>8
<1>7. QED
  BY ONLY <1>5, <1>6

(* ... and the updates lie on a line. *)
LEMMA UpdatesOnLine ==
  ASSUME NEW h \in Seq(Entry), NEW sJ \in Word, sJ # 0,
         NEW ni \in Nat, ni >= 2, InRows(h, 0, ni, sJ)
  PROVE  Line(Points(h, "COND_UPDATE"), StepCount(h, "COND_UPDATE"), sJ)
<1>1. PICK P : P = Points(h, "COND_UPDATE")
  OBVIOUS
<1>2. PICK b : b = h[1][2]
  OBVIOUS
<1>3. ASSUME NEW q \in P PROVE \E j \in Int : q[1] = j /\ q[2] = b + sJ * j
  <2>1. PICK k \in Valued(h, "COND_UPDATE") : q = <<StepsBefore(h, "COND_UPDATE", k), h[k][2]>>
    BY <1>1 DEF Points
  <2>2. k \in DOMAIN h /\ Steps(h, "COND_UPDATE", k)
    BY ONLY k \in Valued(h, "COND_UPDATE") DEF Valued
  <2>3. k \in Nat /\ k # 0
    BY ONLY <2>2, h \in Seq(Entry)
  <2>4. PICK n \in Nat : StepsAre(h, "COND_UPDATE", k, n)
    BY ONLY <2>3, StepsFinite DEF StepsAre
  <2>5. StepsAre(h, "COND_UPDATE", k + 1, n + 1)
    BY ONLY <2>2, <2>3, <2>4, n \in Nat, StepsNext
  <2>6. RowSteps(h, ni, k)
    BY <2>2, RowStepsAll
  <2>7. PICK j \in Int, i \in Int : j = (k - 1) \div ni /\ i = (k - 1) % ni
    BY ONLY <2>3, ni \in Nat, ni >= 2
  <2>8. n + 1 = j + 1
    BY ONLY <2>5, <2>6, <2>7 DEF StepsAre, RowSteps
  <2>9. n = j
    BY ONLY <2>8, n \in Nat, j \in Int
  <2>10. h[k][2] = b + 0 * i + sJ * j
    BY ONLY <1>2, <2>2, <2>7, InRows(h, 0, ni, sJ) DEF InRows
  <2>11. 0 * i = 0 /\ b \in Int /\ b + 0 = b
    <3>1. 1 \in DOMAIN h
      BY ONLY <2>2, h \in Seq(Entry)
    <3>2. h[1] \in Entry
      BY ONLY <3>1, h \in Seq(Entry)
    <3>3. b \in Word
      BY ONLY <1>2, <3>2 DEF Entry
    <3>4. b \in Int
      BY ONLY <3>3, WordType
    <3>5. QED
      BY ONLY <3>4, i \in Int
  <2>12. q[2] = b + sJ * j
    BY ONLY <2>1, <2>10, <2>11
  <2>13. q[1] = j
    BY ONLY <2>1, <2>4, <2>9 DEF StepsAre
  <2>14. QED
    BY ONLY <2>12, <2>13, j \in Int
<1>4. ASSUME NEW q \in P, NEW r \in P PROVE OnLineBy(q, r, sJ)
  <2>1. PICK j \in Int : q[1] = j /\ q[2] = b + sJ * j
    BY ONLY <1>3, q \in P
  <2>2. PICK l \in Int : r[1] = l /\ r[2] = b + sJ * l
    BY ONLY <1>3, r \in P
  <2>3. b \in Int /\ sJ \in Int
    <3>1. PICK k \in Valued(h, "COND_UPDATE") : TRUE
      BY ONLY <1>1, q \in P DEF Points
    <3>2. 1 \in DOMAIN h
      BY ONLY k \in Valued(h, "COND_UPDATE"), h \in Seq(Entry) DEF Valued
    <3>3. h[1] \in Entry
      BY ONLY <3>2, h \in Seq(Entry)
    <3>4. b \in Word
      BY ONLY <1>2, <3>3 DEF Entry
    <3>5. QED
      BY ONLY <3>4, WordType, sJ \in Word
  <2>4. PICK y, z \in Int : y = b + sJ * j /\ z = b + sJ * l
    BY ONLY <2>3, j \in Int, l \in Int
  <2>5. z - y = sJ * (l - j)
    BY ONLY <2>3, <2>4, j \in Int, l \in Int
  <2>6. q[1] = j /\ q[2] = y /\ r[1] = l /\ r[2] = z
    BY ONLY <2>1, <2>2, <2>4
  <2>7. QED
    BY ONLY <2>5, <2>6 DEF OnLineBy
<1>5. QED
  BY ONLY <1>1, <1>4 DEF Line

-----------------------------------------------------------------------------
(* What is picked *)

(* How far a fitting state machine bounds the pattern that is picked. *)
AtMost(v, r) ==
  /\ r = 2 => v \in {"UNKNOWN", "CONSTANT"}
  /\ r = 3 => v \in {"UNKNOWN", "CONSTANT", "LINEAR"}
  /\ r = 4 => v # "RANDOM"

LEMMA RankBounds ==
  ASSUME NEW v \in ValuePattern, NEW r \in 2 .. 4, IndexIn(ValueOrder, v) <= r
  PROVE  AtMost(v, r)
<1>1. PICK k \in 1 .. 5 : k = IndexIn(ValueOrder, v) /\ ValueOrder[k] = v
  BY IndexOfValue
<1>2. /\ ValueOrder[1] = "UNKNOWN" /\ ValueOrder[2] = "CONSTANT" /\ ValueOrder[3] = "LINEAR"
      /\ ValueOrder[4] = "QUARDRIC" /\ ValueOrder[5] = "RANDOM"
  BY Orders
<1>3. k = 1 \/ (k = 2 /\ r >= 2) \/ (k = 3 /\ r >= 3) \/ (k = 4 /\ r >= 4)
  BY ONLY <1>1, k \in 1 .. 5, r \in 2 .. 4, IndexIn(ValueOrder, v) <= r
<1>4. QED
  BY ONLY <1>1, <1>2, <1>3, r \in 2 .. 4 DEF AtMost

LEMMA PickedAtMost ==
  ASSUME FSMsOK, history # <<>>, NEW a \in AccessPattern, NEW v \in ValuePattern,
         fsms[a].state # "FAILURE", fsms[a].vals[v].state # "FAILURE",
         v \in {"CONSTANT", "LINEAR", "QUARDRIC"}
  PROVE  AtMost(Computed.val, IndexIn(ValueOrder, v))
<1>1. PICK c : c = Computed
  OBVIOUS
<1>2. c.val \in ValuePattern
  BY <1>1, ComputedType DEF PatternType
<1>3. IndexIn(ValueOrder, c.val) <= IndexIn(ValueOrder, v)
  BY <1>1, ChosenNotAbove
<1>4. IndexIn(ValueOrder, v) \in {2, 3, 4}
  BY ONLY Ranks, v \in {"CONSTANT", "LINEAR", "QUARDRIC"}
<1>5. PICK r \in 2 .. 4 : r = IndexIn(ValueOrder, v)
  BY ONLY <1>4
<1>6. AtMost(c.val, r)
  BY ONLY <1>2, <1>3, <1>5, RankBounds
<1>7. QED
  BY ONLY <1>1, <1>5, <1>6

(* COND_ACCESS and COND_UPDATE of the history. *)
LEMMA AccessKnown ==
  ASSUME FSMsOK, FSMsTight, NEW a \in AccessPattern,
         a = "COND_ACCESS" \/ (a = "COND_UPDATE" /\ Gapless(history))
  PROVE  /\ fsms[a].state # "FAILURE"
         /\ ValuesOK(fsms[a].vals, Points(history, a), StepCount(history, a))
         /\ ValuesTight(fsms[a].vals, Points(history, a), StepCount(history, a))
<1>1. AccessTight(history, a, fsms[a]) /\ AccessOK(history, a, fsms[a])
  BY DEF FSMsTight, FSMsOK
<1>2. fsms[a].state # "FAILURE"
  <2>1. history \in Seq(Entry)
    BY EntryTypes DEF FSMsOK
  <2>2. Gapless(history) => \A k \in 1 .. Len(history) : history[k][1]
    BY <2>1 DEF Gapless
  <2>3. QED
    BY <1>1, <2>2 DEF AccessTight
<1>3. QED
  BY ONLY <1>1, <1>2 DEF AccessTight, AccessOK

LEMMA EqualFound ==
  ASSUME FSMsOK, FSMsTight, history # <<>>, Equal(history)
  PROVE  AtMost(Computed.val, 2)
<1>1. PICK V : V = fsms["COND_ACCESS"].vals
  OBVIOUS
<1>2. "COND_ACCESS" \in AccessPattern /\ "CONSTANT" \in ValuePattern
  BY PatternNames
<1>3. fsms["COND_ACCESS"].state # "FAILURE"
      /\ ConstFails(V["CONSTANT"], Points(history, "COND_ACCESS"))
  BY <1>1, <1>2, AccessKnown DEF ValuesOK
<1>4. \A q \in Points(history, "COND_ACCESS") : \E k : PointAt(history, q, k)
  BY EntryTypes, AccessPoints DEF FSMsOK
<1>5. \A q, r \in Points(history, "COND_ACCESS") : q[2] = r[2]
  BY ONLY <1>4, Equal(history) DEF PointAt, Equal
<1>6. V["CONSTANT"].state # "FAILURE"
  BY ONLY <1>3, <1>5 DEF ConstFails
<1>7. AtMost(Computed.val, IndexIn(ValueOrder, "CONSTANT"))
  BY <1>1, <1>2, <1>3, <1>6, PickedAtMost
<1>8. QED
  BY ONLY <1>7, Ranks

LEMMA LineFound ==
  ASSUME FSMsOK, FSMsTight, history # <<>>, NEW a \in AccessPattern,
         a = "COND_ACCESS" \/ (a = "COND_UPDATE" /\ Gapless(history)),
         NEW s \in 1 .. M - 1, Line(Points(history, a), StepCount(history, a), s)
  PROVE  AtMost(Computed.val, 3)
<1>1. PICK V : V = fsms[a].vals
  OBVIOUS
<1>2. "LINEAR" \in ValuePattern
  BY PatternNames
<1>3. fsms[a].state # "FAILURE" /\ LinearTight(V["LINEAR"], Points(history, a), StepCount(history, a))
  BY <1>1, <1>2, AccessKnown DEF ValuesTight
<1>4. V["LINEAR"].state # "FAILURE"
  BY ONLY <1>3, s \in 1 .. M - 1, Line(Points(history, a), StepCount(history, a), s) DEF LinearTight
<1>5. AtMost(Computed.val, IndexIn(ValueOrder, "LINEAR"))
  BY <1>1, <1>2, <1>3, <1>4, PickedAtMost
<1>6. QED
  BY ONLY <1>5, Ranks

LEMMA RowsFoundBy ==
  ASSUME FSMsOK, FSMsTight, history # <<>>, Gapless(history),
         NEW sI \in Word, NEW sJ \in Word, NEW ni \in Nat, ni >= 2, sI # 0,
         InRows(history, sI, ni, sJ)
  PROVE  AtMost(Computed.val, 4)
<1>1. PICK V : V = fsms["COND_ACCESS"].vals
  OBVIOUS
<1>2. "COND_ACCESS" \in AccessPattern /\ "QUARDRIC" \in ValuePattern
  BY PatternNames
<1>3. PICK P, N : P = Points(history, "COND_ACCESS") /\ N = StepCount(history, "COND_ACCESS")
  OBVIOUS
<1>4. fsms["COND_ACCESS"].state # "FAILURE" /\ RowsTight(V["QUARDRIC"], P, N)
  BY <1>1, <1>2, <1>3, AccessKnown DEF ValuesTight
<1>5. history \in Seq(Entry)
  BY EntryTypes DEF FSMsOK
<1>6. PICK b \in Word : b = history[1][2]
  <2>1. history[1] \in Entry
    BY <1>5
  <2>2. QED
    BY <2>1 DEF Entry
<1>7. Rows(P, N, b, sI, ni, sJ)
  <2>1. N = Len(history)
    BY <1>3, <1>5, AccessSteps
  <2>2. QED
    BY <1>3, <1>5, <1>6, <2>1, RowsOfPoints
<1>8. V["QUARDRIC"].state # "FAILURE"
  BY ONLY <1>4, <1>7, b \in Word, sI \in Word, sJ \in Word, ni \in Nat, ni >= 2, sI # 0
  DEF RowsTight, RowsFound
<1>9. AtMost(Computed.val, IndexIn(ValueOrder, "QUARDRIC"))
  BY <1>1, <1>2, <1>4, <1>8, PickedAtMost
<1>10. QED
  BY ONLY <1>9, Ranks

(* A value that was seen is known of. *)
LEMMA KnownFound ==
  ASSUME FSMsOK, history # <<>>, NEW k \in DOMAIN history, history[k][1]
  PROVE  Computed.val # "UNKNOWN"
<1>1. PICK h \in Seq(Entry) : h = history
  BY EntryTypes DEF FSMsOK
<1>2. \A a \in AccessPattern : AccessOK(h, a, fsms[a])
  BY <1>1 DEF FSMsOK
<1>3. PICK c \in AccessPattern, F \in {fsms[Chosen]} : c = Chosen /\ F = fsms[Chosen] /\ F.state = "SUCCESS"
  BY <1>1, <1>2, ChosenFits
<1>4. AccessOK(h, c, F)
  BY ONLY <1>2, <1>3, c \in AccessPattern
<1>5. ValuesOK(F.vals, Points(h, c), StepCount(h, c))
  BY ONLY <1>3, <1>4 DEF AccessOK
<1>6. F.vals["RANDOM"].state # "FAILURE" /\ NoneOK(F.vals["UNKNOWN"], Points(h, c))
  BY ONLY <1>5 DEF ValuesOK
<1>7. FirstOf(F.vals, ValueOf(F))
  BY ONLY <1>6, ValueOfFirst
<1>8. Points(h, c) # {}
  <2>1. k \in DOMAIN h /\ h[k][1] /\ h # <<>>
    BY <1>1
  <2>2. CASE c = "COND_UPDATE"
    <3>1. 1 \in 1 .. Len(h) /\ 1 \in DOMAIN h
      BY ONLY <2>1, h \in Seq(Entry)
    <3>2. h[1][1]
      BY ONLY <1>3, <1>4, <2>2, <3>1 DEF AccessOK
    <3>3. Steps(h, c, 1)
      BY ONLY <2>2 DEF Steps
    <3>4. 1 \in Valued(h, c)
      BY ONLY <3>1, <3>2, <3>3 DEF Valued
    <3>5. QED
      BY ONLY <3>4 DEF Points
  <2>3. CASE c # "COND_UPDATE"
    <3>1. Steps(h, c, k)
      BY ONLY <2>1, <2>3 DEF Steps
    <3>2. k \in Valued(h, c)
      BY ONLY <2>1, <3>1 DEF Valued
    <3>3. QED
      BY ONLY <3>2 DEF Points
  <2>4. QED
    BY ONLY <2>2, <2>3
<1>9. ValueOf(F) # "UNKNOWN"
  BY ONLY <1>6, <1>7, <1>8 DEF FirstOf, NoneOK
<1>10. QED
  BY ONLY <1>3, <1>9 DEF Computed

Fits(h, v) ==
  /\ (\E k \in DOMAIN h : h[k][1]) /\ OnLine(h, 0) => v = "CONSTANT"
  /\ (\E stride \in 0 .. M - 1 : OnLine(h, stride) \/ (Gapless(h) /\ WrapsOnLine(h, stride)))
     => v \in {"UNKNOWN", "CONSTANT", "LINEAR"}
  /\ Gapless(h) /\ (\E strideI, strideJ \in Vals, ni \in 2 .. MaxEntries :
        InRows(h, strideI, ni, strideJ))
     => v # "RANDOM"

LEMMA LinesFit ==
  ASSUME FSMsOK, FSMsTight, history # <<>>, NEW s \in 0 .. M - 1, LineIn(history, s)
  PROVE  AtMost(Computed.val, 2) \/ AtMost(Computed.val, 3)
<1>1. history \in Seq(Entry)
  BY EntryTypes DEF FSMsOK
<1>2. CASE s = 0
  <2>1. LineIn(history, 0)
    BY ONLY <1>2, LineIn(history, s)
  <2>2. Equal(history)
    BY <1>1, <2>1, FlatLine
  <2>3. QED
    BY <2>2, EqualFound
<1>3. CASE s # 0
  <2>1. s \in 1 .. M - 1
    BY <1>3, WordType
  <2>2. "COND_ACCESS" \in AccessPattern
    BY PatternNames
  <2>3. Line(Points(history, "COND_ACCESS"), Len(history), s)
    BY ONLY <1>1, LineOfPoints, LineIn(history, s)
  <2>4. Line(Points(history, "COND_ACCESS"), StepCount(history, "COND_ACCESS"), s)
    BY <1>1, <2>3, AccessSteps
  <2>5. QED
    BY <2>1, <2>2, <2>4, LineFound
<1>4. QED
  BY ONLY <1>2, <1>3

LEMMA RowsFit ==
  ASSUME FSMsOK, FSMsTight, history # <<>>, Gapless(history),
         NEW sI \in Word, NEW sJ \in Word, NEW ni \in Nat, ni >= 2,
         InRows(history, sI, ni, sJ)
  PROVE  AtMost(Computed.val, 2) \/ AtMost(Computed.val, 3) \/ AtMost(Computed.val, 4)
<1>1. history \in Seq(Entry)
  BY EntryTypes DEF FSMsOK
<1>2. CASE sI # 0
  BY <1>2, RowsFoundBy
<1>3. CASE sI = 0 /\ sJ # 0
  <2>1. InRows(history, 0, ni, sJ)
    BY ONLY <1>3, InRows(history, sI, ni, sJ)
  <2>2. Line(Points(history, "COND_UPDATE"), StepCount(history, "COND_UPDATE"), sJ)
    BY <1>1, <1>3, <2>1, UpdatesOnLine
  <2>3. "COND_UPDATE" \in AccessPattern
    BY PatternNames
  <2>4. sJ \in 1 .. M - 1
    BY <1>3, WordType DEF Word
  <2>5. QED
    BY <2>2, <2>3, <2>4, LineFound
<1>4. CASE sI = 0 /\ sJ = 0
  <2>1. ASSUME NEW k \in DOMAIN history PROVE history[k][2] = history[1][2]
    <3>1. k \in Nat /\ history[1] \in Entry
      BY ONLY <1>1, k \in DOMAIN history
    <3>2. history[1][2] \in Word
      BY ONLY <3>1 DEF Entry
    <3>3. PICK b \in Nat : b = history[1][2]
      BY ONLY <3>2, WordType
    <3>4. PICK i \in Int, j \in Int : i = (k - 1) % ni /\ j = (k - 1) \div ni
      BY ONLY <3>1, ni \in Nat, ni >= 2
    <3>5. history[k][2] = b + 0 * i + 0 * j
      BY ONLY <1>4, <3>3, <3>4, k \in DOMAIN history, InRows(history, sI, ni, sJ) DEF InRows
    <3>6. b + 0 * i + 0 * j = b
      BY ONLY b \in Nat, i \in Int, j \in Int
    <3>7. QED
      BY ONLY <3>3, <3>5, <3>6
  <2>2. Equal(history)
    BY ONLY <2>1 DEF Equal
  <2>3. QED
    BY <2>2, EqualFound
<1>5. QED
  BY ONLY <1>2, <1>3, <1>4

MostOK(p) == Fits(p.history, p.val)

LEMMA FoundMost == FSMsOK /\ FSMsTight => MostOK(Found)
<1> SUFFICES ASSUME FSMsOK, FSMsTight PROVE MostOK(Found)
  OBVIOUS
<1>1. CASE history = <<>>
  <2>1. Found.history = <<>> /\ Found.val = "UNKNOWN"
    BY ONLY <1>1 DEF Found, NotComputed
  <2>2. ~ \E k \in DOMAIN <<>> : <<>>[k][1]
    OBVIOUS
  <2>3. Fits(<<>>, "UNKNOWN")
    BY ONLY <2>2 DEF Fits
  <2>4. QED
    BY ONLY <2>1, <2>3 DEF MostOK
<1>2. CASE history # <<>>
  <2>1. PICK v : v = Computed.val
    OBVIOUS
  <2>2. v \in ValuePattern
    BY <1>2, <2>1, ComputedType DEF PatternType
  <2>3. PICK h : h = history
    OBVIOUS
  <2>4. Found.history = h /\ Found.val = v
    BY ONLY <1>2, <2>1, <2>3 DEF Found, Computed
  <2>5. ASSUME NEW s \in 0 .. M - 1, LineIn(h, s) PROVE v \in {"UNKNOWN", "CONSTANT", "LINEAR"}
    <3>1. AtMost(v, 2) \/ AtMost(v, 3)
      BY <1>2, <2>1, <2>3, <2>5, LinesFit
    <3>2. QED
      BY ONLY <3>1 DEF AtMost
  <2>6. ASSUME NEW k \in DOMAIN h, h[k][1], OnLine(h, 0) PROVE v = "CONSTANT"
    <3>1. LineIn(h, 0) /\ h \in Seq(Entry)
      BY <2>3, <2>6, EntryTypes DEF LineIn, FSMsOK
    <3>2. Equal(h)
      BY <3>1, FlatLine
    <3>3. AtMost(v, 2)
      BY <1>2, <2>1, <2>3, <3>2, EqualFound
    <3>4. v # "UNKNOWN"
      BY <1>2, <2>1, <2>3, <2>6, KnownFound
    <3>5. QED
      BY ONLY <3>3, <3>4 DEF AtMost
  <2>7. ASSUME Gapless(h), NEW sI \in Vals, NEW sJ \in Vals, NEW ni \in 2 .. MaxEntries,
               InRows(h, sI, ni, sJ)
        PROVE  v # "RANDOM"
    <3>1. sI \in Word /\ sJ \in Word /\ ni \in Nat /\ ni >= 2
      <4>1. sI \in Word /\ sJ \in Word
        BY EntryTypes
      <4>2. MaxEntries \in Nat
        BY PatternAssumption
      <4>3. ni \in Nat /\ ni >= 2
        BY ONLY <4>2, ni \in 2 .. MaxEntries
      <4>4. QED
        BY ONLY <4>1, <4>3
    <3>2. AtMost(v, 2) \/ AtMost(v, 3) \/ AtMost(v, 4)
      BY <1>2, <2>1, <2>3, <2>7, <3>1, RowsFit
    <3>3. QED
      BY ONLY <3>2 DEF AtMost
  <2>8. Fits(h, v)
    <3>1. (\E k \in DOMAIN h : h[k][1]) /\ OnLine(h, 0) => v = "CONSTANT"
      BY ONLY <2>6
    <3>2. (\E s \in 0 .. M - 1 : OnLine(h, s) \/ (Gapless(h) /\ WrapsOnLine(h, s)))
          => v \in {"UNKNOWN", "CONSTANT", "LINEAR"}
      BY ONLY <2>5 DEF LineIn
    <3>3. Gapless(h) /\ (\E sI, sJ \in Vals, ni \in 2 .. MaxEntries : InRows(h, sI, ni, sJ))
          => v # "RANDOM"
      BY ONLY <2>7
    <3>4. QED
      BY ONLY <3>1, <3>2, <3>3 DEF Fits
  <2>9. QED
    BY ONLY <2>4, <2>8 DEF MostOK
<1>3. QED
  BY ONLY <1>1, <1>2

PatternsMost == \A i \in DOMAIN patterns : MostOK(patterns[i])

LEMMA MostStep == FSMsOK /\ FSMsTight /\ PatternsOK /\ PatternsMost /\ PatternStep => PatternsMost'
<1> SUFFICES ASSUME FSMsOK, FSMsTight, PatternsOK, PatternsMost, PatternStep PROVE PatternsMost'
  OBVIOUS
<1>1. CASE patterns' = patterns
  BY <1>1 DEF PatternsMost
<1>2. CASE patterns' = Append(patterns, Found)
  <2>1. PICK p : p = Found /\ MostOK(p)
    BY FoundMost
  <2>2. PICK s \in Seq(PatternType) : s = patterns /\ \A i \in DOMAIN s : MostOK(s[i])
    BY DEF PatternsOK, PatternsMost
  <2>3. PICK n \in Nat : n = Len(s)
    OBVIOUS
  <2>4. /\ DOMAIN Append(s, p) = 1 .. n + 1
        /\ Append(s, p)[n + 1] = p /\ \A i \in 1 .. n : Append(s, p)[i] = s[i]
        /\ DOMAIN s = 1 .. n
        /\ \A i \in 1 .. n + 1 : i = n + 1 \/ i \in 1 .. n
    BY <2>3
  <2>5. \A i \in DOMAIN Append(s, p) : MostOK(Append(s, p)[i])
    BY ONLY <2>1, <2>2, <2>4
  <2>6. patterns' = Append(s, p)
    BY ONLY <1>2, <2>1, <2>2
  <2>7. QED
    BY ONLY <2>5, <2>6 DEF PatternsMost
<1>3. QED
  BY <1>1, <1>2 DEF PatternStep

-----------------------------------------------------------------------------
(* Theorems *)

Inv == DynType /\ FSMsOK /\ PatternsOK /\ OnceInv /\ AggregateCovers
       /\ FSMsTight /\ PatternsMost

(* The inductive invariant: the state machines of every access pattern know *)
(* the points of the history as their parameters say, and have not failed   *)
(* for points that lie as their parameters can say.                         *)
THEOREM InvariantHolds == Spec => []Inv
<1>1. Init => Inv
  <2> SUFFICES ASSUME Init PROVE Inv
    OBVIOUS
  <2>1. DynType /\ FSMsOK /\ OnceInv
    BY DynInit, FSMsInit, OnceInit
  <2>2. patterns = <<>> /\ aggregated = None
    BY DEF Init
  <2>3. PatternsOK /\ AggregateCovers /\ PatternsMost
    BY <2>2 DEF PatternsOK, AggregateCovers, PatternsMost
  <2>4. FSMsTight
    BY TightInit
  <2>5. QED
    BY <2>1, <2>3, <2>4 DEF Inv
<1>2. Inv /\ [Next]_vars => Inv'
  <2> SUFFICES ASSUME Inv, [Next]_vars PROVE Inv'
    OBVIOUS
  <2>1. HistoryStep /\ PatternStep
    BY Effects, PatternEffects
  <2>2. DynType' /\ FSMsOK' /\ PatternsOK' /\ OnceInv' /\ AggregateCovers'
    BY <2>1, DynStep, FSMsStep, PatternsStep, OnceStep, CoversStep DEF Inv
  <2>3. FSMsTight' /\ PatternsMost'
    BY <2>1, TightStep, MostStep DEF Inv
  <2>4. QED
    BY <2>2, <2>3 DEF Inv
<1>3. QED
  BY <1>1, <1>2, PTL DEF Spec

(* Types: the counters of a state machine never pass the entries it was     *)
(* fed, and its parameters stay words.                                      *)
THEOREM TypeCorrect == Spec => []TypeOK
<1>1. Inv => TypeOK
  <2> SUFFICES ASSUME Inv PROVE TypeOK
    OBVIOUS
  <2>1. DynType /\ FSMsOK /\ PatternsOK
    BY DEF Inv
  <2>2. /\ type \in {"MEM", "IV"} /\ {candidate, touched, late} \subseteq BOOLEAN
        /\ iters \in Nat \ {0} /\ lastAccessIters \in 0 .. iters
    BY <2>1 DEF DynType
  <2>3. {history, seen} \subseteq Seq(BOOLEAN \X (Vals \cup {0}))
    BY <2>1 DEF DynType, HistoryEntry
  <2>4. ASSUME NEW a \in AccessPattern
        PROVE  /\ fsms[a].state \in {"UNKNOWN", "SUCCESS", "FAILURE"}
               /\ \A v \in ValuePattern : LET f == fsms[a].vals[v] IN
                    /\ f.state \in {"UNKNOWN", "SUCCESS", "FAILURE"}
                    /\ f.updates \in 0 .. Len(history)
                    /\ {f.prev, f.base, f.strideI, f.strideJ} \subseteq 0 .. M - 1
                    /\ {f.i, f.j, f.ni} \subseteq 0 .. Len(history)
                    /\ f.state = "UNKNOWN" => Len(f.confirmed) <= 2
    <3>1. AccessType(fsms[a], Len(history))
      BY <2>1 DEF FSMsOK, AccessOK
    <3>2. PICK n \in Nat : n = Len(history)
      BY <2>3
    <3>3. ASSUME NEW v \in ValuePattern, NEW f, f = fsms[a].vals[v]
          PROVE  /\ f.state \in {"UNKNOWN", "SUCCESS", "FAILURE"}
                 /\ f.updates \in 0 .. n
                 /\ {f.prev, f.base, f.strideI, f.strideJ} \subseteq 0 .. M - 1
                 /\ {f.i, f.j, f.ni} \subseteq 0 .. n
                 /\ f.state = "UNKNOWN" => Len(f.confirmed) <= 2
      <4>1. FSMType(f, n)
        BY <3>1, <3>2, <3>3 DEF AccessType, ValuesType
      <4>2. f \in FSM
        BY <4>1 DEF FSMType
      <4>3. /\ f.state \in States /\ f.updates \in Nat /\ f.prev \in Word
            /\ f.base \in Word /\ f.strideI \in Word
            /\ f.i \in Nat /\ f.ni \in Nat /\ f.strideJ \in Word /\ f.j \in Nat
        BY <4>2, FSMFields
      <4>4. QED
        BY ONLY <4>1, <4>3, n \in Nat DEF FSMType, States, Word
    <3>4. fsms[a].state \in {"UNKNOWN", "SUCCESS", "FAILURE"}
      BY <3>1 DEF AccessType, States
    <3>5. QED
      BY ONLY <3>2, <3>3, <3>4
  <2>5. aggregated = None \/ aggregated \in [val : ValuePattern, acc : AccessPattern]
    BY <2>1 DEF PatternsOK, Aggregates
  <2>6. \A i \in DOMAIN patterns : patterns[i].val \in ValuePattern
    <3>1. \A i \in DOMAIN patterns : patterns[i] \in PatternType
      BY <2>1 DEF PatternsOK
    <3>2. QED
      BY <3>1 DEF PatternType
  <2>7. QED
    BY ONLY <2>2, <2>3, <2>4, <2>5, <2>6 DEF TypeOK
<1>2. QED
  BY <1>1, InvariantHolds, PTL

(* FunctionalStreamPattern gives back every value StreamPattern was fed, at *)
(* the steps of the access pattern that was picked.                         *)
THEOREM ReplaysExactly == Spec => []ReplayExact
<1>1. Inv => ReplayExact
  <2> SUFFICES ASSUME Inv, NEW p \in Patterns PROVE ReplayOK(p)
    BY DEF ReplayExact, ReplayOK
  <2>1. CASE p \in {patterns[i] : i \in DOMAIN patterns}
    BY <2>1 DEF Inv, PatternsOK
  <2>2. CASE p = Found
    BY <2>2, FoundOK DEF Inv
  <2>3. QED
    BY <2>1, <2>2 DEF Patterns, Found
<1>2. QED
  BY <1>1, InvariantHolds, PTL

(* DynStream::endIter and DynIndVarStream::addAccess together make exactly  *)
(* one entry per iteration.                                                 *)
THEOREM EntriesAreIterations == Spec => []OncePerIteration
<1>1. Inv => OncePerIteration
  BY DEF Inv, OnceInv, OncePerIteration
<1>2. QED
  BY <1>1, InvariantHolds, PTL

(* AggregatedPattern::merge never makes the value pattern stricter than     *)
(* that of an instance it has seen.                                         *)
THEOREM AggregateCorrect == Spec => []AggregateCovers
<1>1. Inv => AggregateCovers
  BY DEF Inv
<1>2. QED
  BY <1>1, InvariantHolds, PTL

(* StreamPattern picks the most constrained pattern that the values of an   *)
(* instance have: no state machine gives up values that are all equal, on a *)
(* line, or in rows of a rising nest, and none that fits is passed over;    *)
(* the pattern of the stream then covers those of its instances.            *)
THEOREM PatternsAreTight == Spec => []PatternsTight
<1>1. Inv => PatternsTight
  <2> SUFFICES ASSUME Inv PROVE MostConstrained /\ AggregateCovers
    BY DEF PatternsTight
  <2>1. ASSUME NEW p \in Patterns PROVE Fits(p.history, p.val)
    <3>1. CASE p \in {patterns[i] : i \in DOMAIN patterns}
      BY <3>1 DEF Inv, PatternsMost, MostOK
    <3>2. CASE p = Found
      BY <3>2, FoundMost DEF Inv, MostOK
    <3>3. QED
      BY <3>1, <3>2 DEF Patterns, Found
  <2>2. MostConstrained
    BY ONLY <2>1 DEF MostConstrained, Fits
  <2>3. QED
    BY <2>2 DEF Inv
<1>2. QED
  BY <1>1, InvariantHolds, PTL

=============================================================================
