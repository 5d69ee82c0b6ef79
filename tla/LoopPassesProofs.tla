-------------------------- MODULE LoopPassesProofs --------------------------
(***************************************************************************)
(* Proofs about the passes on loops, for every program in LLVM's form and  *)
(* every nest of loops: the two streams of the abstract data flow          *)
(* accelerator are the trace, and its segments are whole.                  *)
(***************************************************************************)
EXTENDS LoopPasses, TraceReaderProofs

(* The entry of the list for the instruction at position p of the trace. *)
EntryFor(e, p) ==
  e.pos = p /\ e.inst = seen[p].inst /\ e.inst \in Inst

Given == Len(seen) - Len(list)
Waiting == IF fresh THEN 1 ELSE 0

(* The list ends the trace. *)
ListOK ==
  /\ IsSeq(list) /\ Len(list) <= Len(seen)
  /\ \A i \in 1 .. Len(list) : EntryFor(list[i], Given + i)

IsCandidate(l) == l \in Loop /\ IsLoopDataFlow(l)

(* What is in the list in each state. *)
SearchingOK == state = "SEARCHING" /\ Len(list) <= Waiting + 1
BufferingOK ==
  /\ state = "BUFFERING" /\ IsCandidate(currentLoop)
  /\ ~finished =>
       /\ Len(list) > Waiting /\ IsStaticInstLoopHead(currentLoop, list[1].inst)
       /\ \A i \in 1 .. Len(list) - Waiting : list[i].inst \in LoopInsts[currentLoop]
FlowOK ==
  /\ state = "DATAFLOW" /\ IsCandidate(currentLoop) /\ configured = currentLoop
  /\ Len(list) = Waiting + 1 /\ list[1].inst \in LoopInsts[currentLoop]
StateOK ==
  /\ fresh \in BOOLEAN /\ finished \in BOOLEAN /\ currentId \in Nat
  /\ fresh => ~finished
  /\ Waiting <= Len(list)
  /\ SearchingOK \/ BufferingOK \/ FlowOK
  /\ finished /\ state # "DATAFLOW" => list = <<>>
  /\ configured \in Loop \cup {NoLoop}

EndsOf(f) == {j \in DOMAIN f : ~IsInst(f[j])}
MovedOf(f) == {j \in DOMAIN f : IsInst(f[j])}
TokensOf(o, name) == {k \in DOMAIN o : IsToken(o[k], name)}
StartsOf(o) == TokensOf(o, "df-start")
SegmentOf(o, f, k) == {j \in MovedOf(f) : UpTo(EndsOf(f), j) + 1 = UpTo(StartsOf(o), k)}

(* The streams o and f hold the first m positions. *)
Ordered(s) == \A k, l \in MovedOf(s) : k < l => s[k].pos < s[l].pos
Positions(s) == {s[k].pos : k \in MovedOf(s)}
Interleaved(o, f) ==
  \A k \in MovedOf(o), j \in MovedOf(f) :
    IF UpTo(StartsOf(o), k) <= UpTo(EndsOf(f), j) THEN o[k].pos < f[j].pos ELSE f[j].pos < o[k].pos
Within(s, m) == \A k \in DOMAIN s : s[k].pos \in 0 .. m
Placed(o, f, m) ==
  /\ IsSeq(o) /\ IsSeq(f)
  /\ Within(o, m) /\ Within(f, m)
  /\ Positions(o) \cup Positions(f) = 1 .. m
  /\ Ordered(o) /\ Ordered(f) /\ Interleaved(o, f)
  /\ \A j \in MovedOf(f) : \E k \in StartsOf(o) : j \in SegmentOf(o, f, k)

Open(o, f, l) ==
  /\ o # <<>> /\ IsToken(o[Len(o)], "df-start") /\ o[Len(o)].loop = l
  /\ Cardinality(StartsOf(o)) = Cardinality(EndsOf(f)) + 1
Closed(o, f) ==
  /\ Cardinality(StartsOf(o)) = Cardinality(EndsOf(f))
  /\ f # <<>> => Len(f) \in EndsOf(f)

(* The last entry is the instruction at m. *)
EndsAt(f, m) == Len(f) \in MovedOf(f) /\ f[Len(f)].pos = m

Flowing == state = "DATAFLOW" /\ ~finished

ConfiguredAt(o, k, l) ==
  \E c \in 1 .. k : /\ IsToken(o[c], "df-config") /\ o[c].loop = l
                    /\ \A i \in c + 1 .. k : ~IsToken(o[i], "df-config")

SegPart(o, f, k) ==
  LET loop == o[k].loop IN
  /\ loop \in Loop
  /\ ConfiguredAt(o, k, loop)
  /\ \A j \in SegmentOf(o, f, k) : f[j].inst \in LoopInsts[loop]
  /\ \A j \in SegmentOf(o, f, k) : (\A i \in SegmentOf(o, f, k) : j <= i) => IsStaticInstLoopHead(loop, f[j].inst)
SegSize(o, f, k) ==
  SegmentOf(o, f, k) # {} /\ Cardinality(SegmentOf(o, f, k)) >= BufferThreshold
(* What follows the instruction at p in the trace t: another part of the    *)
(* program, or nothing that is left to decide on.                           *)
LeftAfter(t, x, p, loop) ==
  /\ p < Len(t)
  /\ (x = 1 /\ p + 1 = Len(t)) \/ t[p + 1].inst \notin LoopInsts[loop]
EndRight(seg, f, t, x, loop) ==
  \A j \in seg : (\A i \in seg : i <= j) => LeftAfter(t, x, f[j].pos, loop)
SegEnd(o, f, t, x, k) ==
  UpTo(StartsOf(o), k) <= Cardinality(EndsOf(f)) => EndRight(SegmentOf(o, f, k), f, t, x, o[k].loop)
Parts(o, f) == \A k \in StartsOf(o) : SegPart(o, f, k)
Sizes(o, f) == \A k \in StartsOf(o) : SegSize(o, f, k)
SizesBefore(o, f) == \A k \in StartsOf(o) : k # Len(o) => SegSize(o, f, k)
Ended(o, f, t, x) == \A k \in StartsOf(o) : SegEnd(o, f, t, x, k)

LoopTokens(o, name, l) == {k \in TokensOf(o, name) : o[k].loop = l}
MovedFor(o, f, l) == UNION {SegmentOf(o, f, k) : k \in LoopTokens(o, "df-start", l)}
Stat == [dynamic : Nat, dataFlowDynamic : Nat, config : Nat, dataFlow : Nat]
Counted(o, f, s) ==
  /\ s \in [Loop -> Stat]
  /\ \A l \in Loop :
    /\ s[l].config = Cardinality(LoopTokens(o, "df-config", l))
    /\ s[l].dataFlow = Cardinality(LoopTokens(o, "df-start", l))
    /\ s[l].dataFlowDynamic = Cardinality(MovedFor(o, f, l))

(* The streams o and f hold the first g instructions of the trace t, and    *)
(* the accelerator is configured for the loop c, if any.                    *)
Base(o, f, g, c, t, x) ==
  /\ Placed(o, f, g)
  /\ c # NoLoop => ConfiguredAt(o, Len(o), c)
  /\ Parts(o, f) /\ Ended(o, f, t, x)

(* Does the trace end in a data flow? *)
CutOff == IF finished /\ state = "DATAFLOW" THEN 1 ELSE 0

StreamsOK ==
  /\ Base(out, dataFlow, Given, configured, seen, CutOff)
  /\ Sizes(out, dataFlow)
  /\ Flowing => Open(out, dataFlow, currentLoop) /\ EndsAt(dataFlow, Given)
  /\ ~Flowing => Closed(out, dataFlow)
  /\ Counted(out, dataFlow, stats)

DFInv == running = "adfa" /\ ~aborted => ListOK /\ StateOK /\ StreamsOK
-----------------------------------------------------------------------------
(* Counting *)

LEMMA UpToFields ==
  ASSUME NEW n \in Nat, NEW S \in SUBSET (1 .. n)
  PROVE  /\ IsFiniteSet(S) /\ Cardinality(S) \in Nat
         /\ \A k \in Nat : UpTo(S, k) \in Nat /\ UpTo(S, k) <= Cardinality(S)
         /\ \A k \in Nat : n <= k => UpTo(S, k) = Cardinality(S)
<1>1. IsFiniteSet(1 .. n)
  BY FS_Interval
<1>2. IsFiniteSet(S)
  BY ONLY <1>1, S \in SUBSET (1 .. n), FS_Subset
<1>3. Cardinality(S) \in Nat
  BY ONLY <1>2, FS_CardinalityType
<1>4. ASSUME NEW k \in Nat PROVE UpTo(S, k) \in Nat /\ UpTo(S, k) <= Cardinality(S)
  <2>1. PICK T \in SUBSET S : T = S \cap 1 .. k
    OBVIOUS
  <2>2. IsFiniteSet(T) /\ Cardinality(T) <= Cardinality(S)
    BY ONLY <1>2, FS_Subset
  <2>3. Cardinality(T) \in Nat
    BY ONLY <2>2, FS_CardinalityType
  <2>4. QED
    BY ONLY <2>1, <2>2, <2>3 DEF UpTo
<1>5. ASSUME NEW k \in Nat, n <= k PROVE UpTo(S, k) = Cardinality(S)
  <2>1. \A i \in S : i \in 1 .. k
    BY <1>5
  <2>3. S \cap 1 .. k = S
    BY ONLY <2>1
  <2>2. QED
    BY ONLY <2>3 DEF UpTo
<1>6. QED
  BY <1>2, <1>3, <1>4, <1>5

LEMMA UpToMono ==
  ASSUME NEW n \in Nat, NEW S \in SUBSET (1 .. n), NEW k \in Nat, NEW l \in Nat, k <= l
  PROVE  UpTo(S, k) <= UpTo(S, l)
<1>1. PICK T : T = S \cap 1 .. l
  OBVIOUS
<1>2. PICK U \in SUBSET T : U = S \cap 1 .. k
  <2>1. \A i \in 1 .. k : i \in 1 .. l
    OBVIOUS
  <2>2. S \cap 1 .. k \in SUBSET T
    BY ONLY <1>1, <2>1
  <2>3. QED
    BY ONLY <2>2
<1>3. IsFiniteSet(T)
  <2>1. T \in SUBSET S /\ IsFiniteSet(S)
    BY <1>1, UpToFields
  <2>2. QED
    BY ONLY <2>1, FS_Subset
<1>4. Cardinality(U) <= Cardinality(T)
  BY ONLY <1>3, FS_Subset
<1>5. QED
  BY ONLY <1>1, <1>2, <1>4 DEF UpTo

LEMMA UpToLess ==
  ASSUME NEW n \in Nat, NEW S \in SUBSET (1 .. n), NEW k \in Nat, NEW l \in S, k < l
  PROVE  UpTo(S, k) < UpTo(S, l)
<1>0. l \in Nat
  OBVIOUS
<1>1. PICK T : T = S \cap 1 .. l
  OBVIOUS
<1>2. PICK U : U = S \cap 1 .. k
  OBVIOUS
<1>3. IsFiniteSet(T) /\ IsFiniteSet(U)
  <2>1. T \in SUBSET S /\ U \in SUBSET S /\ IsFiniteSet(S)
    BY <1>1, <1>2, UpToFields
  <2>2. QED
    BY ONLY <2>1, FS_Subset
<1>4. U \cup {l} \in SUBSET T /\ l \notin U
  BY <1>0, <1>1, <1>2
<1>5. Cardinality(U \cup {l}) <= Cardinality(T) /\ Cardinality(U \cup {l}) = Cardinality(U) + 1
  BY ONLY <1>3, <1>4, FS_Subset, FS_AddElement
<1>6. Cardinality(U) \in Nat /\ Cardinality(T) \in Nat
  BY ONLY <1>3, FS_CardinalityType
<1>7. Cardinality(U) < Cardinality(T)
  BY ONLY <1>5, <1>6
<1>8. QED
  BY ONLY <1>1, <1>2, <1>7 DEF UpTo

LEMMA UpToSame ==
  ASSUME NEW n \in Nat, NEW S, NEW T, T \cap 1 .. n = S \cap 1 .. n, NEW k \in Nat, k <= n
  PROVE  UpTo(T, k) = UpTo(S, k)
<1>1. T \cap 1 .. k = S \cap 1 .. k
  <2>1. \A i \in 1 .. k : i \in 1 .. n
    OBVIOUS
  <2>2. QED
    BY <2>1
<1>2. QED
  BY ONLY <1>1 DEF UpTo

LEMMA OneMore ==
  ASSUME NEW n \in Nat, NEW S \in SUBSET (1 .. n), NEW p \in Nat, p = n + 1
  PROVE  /\ Cardinality(S \cup {p}) = Cardinality(S) + 1
         /\ UpTo(S \cup {p}, p) = Cardinality(S) + 1
<1>1. IsFiniteSet(S) /\ p \notin S
  BY UpToFields
<1>2. Cardinality(S \cup {p}) = Cardinality(S) + 1
  BY ONLY <1>1, FS_AddElement
<1>3. (S \cup {p}) \cap 1 .. p = S \cup {p}
  <2>1. \A i \in S \cup {p} : i \in 1 .. p
    OBVIOUS
  <2>2. QED
    BY ONLY <2>1
<1>4. QED
  BY ONLY <1>2, <1>3 DEF UpTo

(* A range of numbers beyond those of S. *)
LEMMA RangeMore ==
  ASSUME NEW n \in Nat, NEW S \in SUBSET (1 .. n), NEW c \in Nat, NEW m \in Nat, m = n + c
  PROVE  Cardinality(S \cup (n + 1 .. m)) = Cardinality(S) + c
<1>1. IsFiniteSet(S) /\ Cardinality(S) \in Nat
  BY UpToFields
<1>2. PICK T : T = n + 1 .. m
  OBVIOUS
<1>3. IsFiniteSet(T) /\ Cardinality(T) = c
  <2>1. n + 1 \in Int /\ m \in Int /\ (IF n + 1 > m THEN 0 ELSE m - (n + 1) + 1) = c
    OBVIOUS
  <2>2. QED
    BY ONLY <1>2, <2>1, FS_Interval
<1>4. S \cap T = {}
  BY <1>2
<1>5. Cardinality(S \cap T) = 0
  BY ONLY <1>4, FS_EmptySet
<1>6. Cardinality(S \cup T) = Cardinality(S) + Cardinality(T) - 0
  BY ONLY <1>1, <1>3, <1>5, FS_Union
<1>7. QED
  BY ONLY <1>1, <1>2, <1>3, <1>6, c \in Nat

-----------------------------------------------------------------------------
(* Streams that grow *)

(* s2 goes on from s. *)
Longer(s2, s) ==
  /\ IsSeq(s) /\ IsSeq(s2) /\ Len(s) <= Len(s2)
  /\ \A k \in 1 .. Len(s) : s2[k] = s[k]

LEMMA AppendLonger ==
  ASSUME NEW s, IsSeq(s), NEW e, NEW p \in Nat, p = Len(s), NEW q \in Nat, q = p + 1
  PROVE  /\ Longer(Append(s, e), s) /\ Len(Append(s, e)) = q
         /\ Append(s, e)[q] = e
<1>1. PICK t : t = Append(s, e)
  OBVIOUS
<1>2. /\ IsSeq(t) /\ Len(t) = Len(s) + 1 /\ t[Len(s) + 1] = e
      /\ \A k \in 1 .. Len(s) : t[k] = s[k]
  BY <1>1, AppendFields
<1>3. Len(s) <= Len(t) /\ Len(t) = q /\ t[q] = e
  BY <1>2
<1>4. QED
  BY ONLY <1>1, <1>2, <1>3, IsSeq(s) DEF Longer

LEMMA ConcatLonger ==
  ASSUME NEW s, IsSeq(s), NEW c, IsSeq(c), NEW p \in Nat, p = Len(s), NEW n \in Nat, n = Len(c)
  PROVE  /\ Longer(s \o c, s) /\ Len(s \o c) = p + n
         /\ \A i \in 1 .. n : (s \o c)[p + i] = c[i]
<1>1. PICK t : t = s \o c
  OBVIOUS
<1>2. IsSeq(t) /\ Len(t) = Len(s) + Len(c) /\ \A k \in 1 .. Len(s) : t[k] = s[k]
  BY <1>1, ConcatFields
<1>3. Len(s) <= Len(t) /\ Len(t) = p + n
  BY <1>2
<1>4. ASSUME NEW i \in 1 .. n PROVE t[p + i] = c[i]
  <2>1. PICK S : s \in Seq(S)
    BY DEF IsSeq
  <2>2. PICK T : c \in Seq(T)
    BY DEF IsSeq
  <2>3. s \in Seq(S \cup T) /\ c \in Seq(S \cup T)
    BY ONLY <2>1, <2>2, SeqMonotonic
  <2>4. \A k \in 1 .. Len(s) + Len(c) : t[k] = IF k <= Len(s) THEN s[k] ELSE c[k - Len(s)]
    BY ONLY <1>1, <2>3, ConcatProperties
  <2>5. p + i \in 1 .. p + n /\ ~(p + i <= p) /\ p + i - p = i
    OBVIOUS
  <2>6. t[p + i] = c[p + i - p]
    <3>1. \A k \in 1 .. p + n : t[k] = IF k <= p THEN s[k] ELSE c[k - p]
      BY ONLY <2>4, p = Len(s), n = Len(c)
    <3>2. QED
      BY ONLY <2>5, <3>1
  <2>7. QED
    BY ONLY <2>5, <2>6
<1>5. QED
  BY ONLY <1>1, <1>2, <1>3, <1>4, IsSeq(s) DEF Longer

LEMMA StreamFields ==
  ASSUME NEW s, IsSeq(s)
  PROVE  /\ Len(s) \in Nat /\ DOMAIN s = 1 .. Len(s)
         /\ EndsOf(s) \in SUBSET (1 .. Len(s)) /\ MovedOf(s) \in SUBSET (1 .. Len(s))
         /\ StartsOf(s) \in SUBSET (1 .. Len(s)) /\ StartsOf(s) \in SUBSET EndsOf(s)
         /\ MovedOf(s) \cap EndsOf(s) = {} /\ MovedOf(s) \cup EndsOf(s) = 1 .. Len(s)
<1>1. Len(s) \in Nat /\ DOMAIN s = 1 .. Len(s)
  BY SeqFields
<1>2. QED
  BY ONLY <1>1 DEF EndsOf, MovedOf, TokensOf, StartsOf, IsToken

LEMMA StreamTokens ==
  ASSUME NEW s, IsSeq(s), NEW name
  PROVE  TokensOf(s, name) \in SUBSET EndsOf(s) /\ TokensOf(s, name) \in SUBSET (1 .. Len(s))
<1>1. DOMAIN s = 1 .. Len(s)
  BY SeqFields
<1>2. QED
  BY ONLY <1>1 DEF EndsOf, TokensOf, IsToken

LEMMA LongerFields ==
  ASSUME NEW s, NEW s2, Longer(s2, s)
  PROVE  /\ IsSeq(s) /\ IsSeq(s2) /\ Len(s) \in Nat /\ Len(s2) \in Nat /\ Len(s) <= Len(s2)
         /\ DOMAIN s = 1 .. Len(s) /\ DOMAIN s2 = 1 .. Len(s2)
         /\ \A k \in 1 .. Len(s) : k \in 1 .. Len(s2) /\ s2[k] = s[k]
         /\ EndsOf(s2) \cap 1 .. Len(s) = EndsOf(s)
         /\ MovedOf(s2) \cap 1 .. Len(s) = MovedOf(s)
         /\ StartsOf(s2) \cap 1 .. Len(s) = StartsOf(s)
<1>1. IsSeq(s) /\ IsSeq(s2) /\ Len(s) <= Len(s2) /\ \A k \in 1 .. Len(s) : s2[k] = s[k]
  BY DEF Longer
<1>2. /\ Len(s) \in Nat /\ Len(s2) \in Nat
      /\ DOMAIN s = 1 .. Len(s) /\ DOMAIN s2 = 1 .. Len(s2)
  BY ONLY <1>1, SeqFields
<1>3. \A k \in 1 .. Len(s) : k \in 1 .. Len(s2) /\ s2[k] = s[k]
  BY ONLY <1>1, <1>2
<1>4. \A k \in 1 .. Len(s) : k \in DOMAIN s /\ k \in DOMAIN s2 /\ s2[k] = s[k]
  BY ONLY <1>2, <1>3
<1>5. /\ EndsOf(s2) \cap 1 .. Len(s) = EndsOf(s)
      /\ MovedOf(s2) \cap 1 .. Len(s) = MovedOf(s)
  BY ONLY <1>2, <1>4 DEF EndsOf, MovedOf
<1>7. StartsOf(s2) \cap 1 .. Len(s) = StartsOf(s)
  BY ONLY <1>2, <1>4 DEF StartsOf, TokensOf
<1>8. QED
  BY ONLY <1>1, <1>2, <1>3, <1>5, <1>7

LEMMA LongerTokens ==
  ASSUME NEW s, NEW s2, Longer(s2, s), NEW name
  PROVE  TokensOf(s2, name) \cap 1 .. Len(s) = TokensOf(s, name)
<1>1. /\ DOMAIN s = 1 .. Len(s) /\ DOMAIN s2 = 1 .. Len(s2)
      /\ \A k \in 1 .. Len(s) : k \in 1 .. Len(s2) /\ s2[k] = s[k]
  BY LongerFields
<1>2. QED
  BY ONLY <1>1 DEF TokensOf

LEMMA LongerUpTo ==
  ASSUME NEW s, NEW s2, Longer(s2, s), NEW k \in 1 .. Len(s)
  PROVE  /\ UpTo(EndsOf(s2), k) = UpTo(EndsOf(s), k)
         /\ UpTo(StartsOf(s2), k) = UpTo(StartsOf(s), k)
<1>1. /\ Len(s) \in Nat /\ EndsOf(s2) \cap 1 .. Len(s) = EndsOf(s)
      /\ StartsOf(s2) \cap 1 .. Len(s) = StartsOf(s) /\ IsSeq(s)
  BY LongerFields
<1>2. EndsOf(s) \cap 1 .. Len(s) = EndsOf(s) /\ StartsOf(s) \cap 1 .. Len(s) = StartsOf(s)
  <2>1. EndsOf(s) \in SUBSET (1 .. Len(s)) /\ StartsOf(s) \in SUBSET (1 .. Len(s))
    BY ONLY <1>1, StreamFields
  <2>2. QED
    BY ONLY <2>1
<1>3. PICK n \in Nat : n = Len(s)
  BY <1>1
<1>4. k \in Nat /\ k <= n
  BY <1>3
<1>5. QED
  BY ONLY <1>1, <1>2, <1>3, <1>4, UpToSame

(* A stream that goes on without a start token keeps the segments. *)
LEMMA SegmentsStay ==
  ASSUME NEW o, NEW o2, Longer(o2, o), NEW f, NEW k \in 1 .. Len(o)
  PROVE  SegmentOf(o2, f, k) = SegmentOf(o, f, k)
<1>1. UpTo(StartsOf(o2), k) = UpTo(StartsOf(o), k)
  BY LongerUpTo
<1>2. QED
  BY ONLY <1>1 DEF SegmentOf

LEMMA SegmentsGrow ==
  ASSUME NEW f, NEW f2, Longer(f2, f), NEW o, NEW k
  PROVE  SegmentOf(o, f2, k) \cap 1 .. Len(f) = SegmentOf(o, f, k)
<1>1. \A j \in 1 .. Len(f) : UpTo(EndsOf(f2), j) = UpTo(EndsOf(f), j)
  BY LongerUpTo
<1>2. MovedOf(f2) \cap 1 .. Len(f) = MovedOf(f)
  BY LongerFields
<1>3. QED
  BY ONLY <1>1, <1>2 DEF SegmentOf

-----------------------------------------------------------------------------
(* The streams are the trace *)

(* s2 is s and the instructions from m + 1 to q. *)
Extends(s2, s, m, q) ==
  \E n \in Nat :
    /\ m \in Nat /\ q = m + n
    /\ Longer(s2, s) /\ Len(s2) = Len(s) + n
    /\ \A i \in 1 .. n : s2[Len(s) + i].pos = m + i

LEMMA ExtendsFields ==
  ASSUME NEW s, NEW s2, NEW m, NEW q, Extends(s2, s, m, q), Within(s, m), Ordered(s)
  PROVE  /\ EndsOf(s2) = EndsOf(s)
         /\ StartsOf(s2) = StartsOf(s)
         /\ MovedOf(s2) = MovedOf(s) \cup (Len(s) + 1 .. Len(s2))
         /\ Positions(s2) = Positions(s) \cup (m + 1 .. q)
         /\ Within(s2, q)
         /\ \A k \in Len(s) + 1 .. Len(s2) : s2[k].pos \in m + 1 .. q
         /\ Ordered(s2)
<1>0. PICK n \in Nat : /\ m \in Nat /\ q = m + n
                      /\ Longer(s2, s) /\ Len(s2) = Len(s) + n
                      /\ \A i \in 1 .. n : s2[Len(s) + i].pos = m + i
  BY DEF Extends
<1>1. PICK p \in Nat, r \in Nat : p = Len(s) /\ r = Len(s2)
  BY <1>0, LongerFields
<1>2. /\ m \in Nat /\ q = m + n /\ r = p + n /\ IsSeq(s2) /\ IsSeq(s) /\ q \in Nat
      /\ DOMAIN s = 1 .. p /\ DOMAIN s2 = 1 .. r /\ \A k \in 1 .. p : s2[k] = s[k]
      /\ EndsOf(s2) \cap 1 .. p = EndsOf(s)
      /\ MovedOf(s2) \cap 1 .. p = MovedOf(s)
      /\ StartsOf(s2) \cap 1 .. p = StartsOf(s)
  BY ONLY <1>0, <1>1, LongerFields, n \in Nat
<1>3. \A i \in 1 .. n : s2[p + i].pos = m + i
  BY <1>0, <1>1
<1>4. ASSUME NEW k \in p + 1 .. r
      PROVE  s2[k].pos = m + (k - p) /\ s2[k].pos \in m + 1 .. q
  <2>1. PICK i \in 1 .. n : i = k - p
    BY ONLY <1>1, <1>2, k \in p + 1 .. r, n \in Nat
  <2>2. k = p + i
    BY ONLY <1>1, <2>1, k \in p + 1 .. r
  <2>3. s2[k].pos = m + i
    BY ONLY <1>3, <2>1, <2>2
  <2>4. m + i \in m + 1 .. q
    BY ONLY <2>1, <1>2, n \in Nat, <1>2
  <2>5. QED
    BY ONLY <2>1, <2>3, <2>4
<1>5. \A k \in p + 1 .. r : IsInst(s2[k])
  <2>1. TAKE k \in p + 1 .. r
  <2>2. s2[k].pos \in m + 1 .. q
    BY <1>4
  <2>3. s2[k].pos # 0
    BY ONLY <2>2, <1>2
  <2>4. QED
    BY ONLY <2>3 DEF IsInst
<1>6. \A k \in 1 .. r : k \in 1 .. p \/ k \in p + 1 .. r
  BY ONLY <1>1
<1>7. \A k \in p + 1 .. r : k \in 1 .. r /\ k \notin 1 .. p
  BY ONLY <1>1
<1>8. EndsOf(s2) = EndsOf(s) /\ StartsOf(s2) = StartsOf(s)
  <2>1. EndsOf(s2) \subseteq 1 .. r
    BY ONLY <1>2 DEF EndsOf
  <2>2. EndsOf(s2) \subseteq 1 .. p
    <3>1. \A k \in EndsOf(s2) : ~IsInst(s2[k])
      BY DEF EndsOf
    <3>2. QED
      BY ONLY <1>5, <1>6, <2>1, <3>1
  <2>3. StartsOf(s2) \subseteq EndsOf(s2)
    BY ONLY <1>2, StreamFields
  <2>4. QED
    BY ONLY <1>2, <2>2, <2>3
<1>9. MovedOf(s2) = MovedOf(s) \cup (p + 1 .. r)
  <2>1. p + 1 .. r \subseteq MovedOf(s2)
    BY ONLY <1>2, <1>5, <1>7 DEF MovedOf
  <2>2. MovedOf(s2) \subseteq 1 .. r
    BY ONLY <1>2 DEF MovedOf
  <2>3. QED
    BY ONLY <1>2, <1>6, <2>1, <2>2
<1>10. Positions(s2) = Positions(s) \cup (m + 1 .. q)
  <2>1. \A k \in MovedOf(s) : s2[k] = s[k]
    BY ONLY <1>2 DEF MovedOf
  <2>2. Positions(s2) \subseteq Positions(s) \cup (m + 1 .. q)
    BY ONLY <1>4, <1>9, <2>1 DEF Positions
  <2>3. Positions(s) \subseteq Positions(s2)
    BY ONLY <1>9, <2>1 DEF Positions
  <2>4. m + 1 .. q \subseteq Positions(s2)
    <3> SUFFICES ASSUME NEW x \in m + 1 .. q PROVE x \in Positions(s2)
      OBVIOUS
    <3>1. PICK k \in p + 1 .. r : x = m + (k - p)
      <4>1. PICK i \in 1 .. n : x = m + i
        <5>1. x - m \in 1 .. n /\ x = m + (x - m)
          BY ONLY <1>2, n \in Nat, x \in m + 1 .. q
        <5>2. QED
          BY ONLY <5>1
      <4>2. PICK k \in Nat : k = p + i
        BY ONLY <1>1, p \in Nat, i \in 1 .. n
      <4>3. k \in p + 1 .. r /\ x = m + (k - p)
        BY ONLY <1>2, <4>1, <4>2, p \in Nat, n \in Nat, i \in 1 .. n
      <4>4. QED
        BY ONLY <4>3
    <3>2. k \in MovedOf(s2) /\ s2[k].pos = x
      BY <1>4, <1>9, <3>1
    <3>3. QED
      BY ONLY <3>2 DEF Positions
  <2>5. QED
    BY ONLY <2>2, <2>3, <2>4
<1>11. Within(s2, q)
  <2>1. \A x \in m + 1 .. q : x \in 0 .. q
    BY ONLY <1>2
  <2>2. \A x \in 0 .. m : x \in 0 .. q
    BY ONLY <1>2, n \in Nat, <1>2
  <2>3. \A k \in 1 .. p : s2[k].pos \in 0 .. m
    BY <1>2 DEF Within
  <2>4. QED
    BY ONLY <1>2, <1>4, <1>6, <2>1, <2>2, <2>3 DEF Within
<1>12. Ordered(s2)
  <2> SUFFICES ASSUME NEW k \in MovedOf(s2), NEW l \in MovedOf(s2), k < l
               PROVE  s2[k].pos < s2[l].pos
    BY DEF Ordered
  <2>1. k \in 1 .. r /\ l \in 1 .. r /\ k \in Nat /\ l \in Nat
    BY <1>2 DEF MovedOf
  <2>2. CASE l \in 1 .. p
    <3>1. k \in 1 .. p
      BY ONLY <1>1, <2>1, <2>2, k < l
    <3>2. k \in MovedOf(s) /\ l \in MovedOf(s) /\ s2[k] = s[k] /\ s2[l] = s[l]
      BY ONLY <1>2, <2>2, <3>1, k \in MovedOf(s2), l \in MovedOf(s2)
    <3>3. QED
      BY <3>2 DEF Ordered
  <2>3. CASE l \in p + 1 .. r
    <3>1. s2[l].pos = m + (l - p)
      BY <1>4, <2>3
    <3>2. CASE k \in 1 .. p
      <4>1. s2[k].pos \in 0 .. m
        BY <1>2, <3>2 DEF Within
      <4>2. QED
        BY ONLY <1>1, <2>3, <3>1, <4>1, <1>2
    <3>3. CASE k \in p + 1 .. r
      <4>1. s2[k].pos = m + (k - p)
        BY <1>4, <3>3
      <4>2. QED
        BY ONLY <1>1, <2>1, <3>1, <4>1, <1>2, k < l
    <3>4. QED
      BY <1>6, <2>1, <3>2, <3>3
  <2>4. QED
    BY <1>6, <2>1, <2>2, <2>3
<1>13. QED
  BY ONLY <1>1, <1>4, <1>8, <1>9, <1>10, <1>11, <1>12

LEMMA ExtendsTokens ==
  ASSUME NEW s, NEW s2, NEW m, NEW q, Extends(s2, s, m, q), Within(s, m), Ordered(s), NEW name
  PROVE  TokensOf(s2, name) = TokensOf(s, name)
<1>1. EndsOf(s2) = EndsOf(s)
  BY ExtendsFields
<1>2. Longer(s2, s)
  BY DEF Extends
<1>3. IsSeq(s) /\ IsSeq(s2) /\ TokensOf(s2, name) \cap 1 .. Len(s) = TokensOf(s, name)
  BY ONLY <1>2, LongerFields, LongerTokens
<1>4. TokensOf(s2, name) \subseteq EndsOf(s2) /\ EndsOf(s) \subseteq 1 .. Len(s)
  BY ONLY <1>3, StreamFields, StreamTokens
<1>5. QED
  BY ONLY <1>1, <1>3, <1>4

(* A data flow that is over: what it holds is before the next entry. *)
LEMMA ClosedBefore ==
  ASSUME NEW o, IsSeq(o), NEW f, IsSeq(f), Closed(o, f), NEW j \in MovedOf(f)
  PROVE  UpTo(EndsOf(f), j) < Cardinality(StartsOf(o))
<1>1. PICK n \in Nat : n = Len(f)
  BY SeqFields
<1>2. EndsOf(f) \in SUBSET (1 .. n) /\ MovedOf(f) \in SUBSET (1 .. n) /\ MovedOf(f) \cap EndsOf(f) = {}
  BY <1>1, StreamFields
<1>3. f # <<>> /\ n \in EndsOf(f)
  <2>1. n # 0
    BY ONLY <1>1, <1>2, j \in MovedOf(f)
  <2>2. f # <<>>
    BY <1>1, <2>1, SeqFields
  <2>3. QED
    BY <1>1, <2>2 DEF Closed
<1>4. j \in Nat /\ j < n
  BY ONLY <1>1, <1>2, <1>3, j \in MovedOf(f)
<1>5. UpTo(EndsOf(f), j) < UpTo(EndsOf(f), n)
  BY ONLY <1>1, <1>2, <1>3, <1>4, UpToLess
<1>6. UpTo(EndsOf(f), n) = Cardinality(EndsOf(f))
  BY ONLY <1>1, <1>2, UpToFields
<1>7. QED
  BY <1>5, <1>6 DEF Closed

LEMMA KeptPlaced ==
  ASSUME NEW o, NEW f, NEW m, NEW q, Placed(o, f, m), Closed(o, f), NEW o2, Extends(o2, o, m, q)
  PROVE  Placed(o2, f, q) /\ Closed(o2, f)
<1>0. m \in Nat /\ q \in Nat /\ m <= q
  BY DEF Extends
<1>1. /\ IsSeq(o) /\ IsSeq(f) /\ Ordered(o) /\ Ordered(f) /\ Interleaved(o, f)
      /\ Within(o, m) /\ Within(f, m)
      /\ Positions(o) \cup Positions(f) = 1 .. m
  BY DEF Placed
<1>2. /\ StartsOf(o2) = StartsOf(o)
      /\ MovedOf(o2) = MovedOf(o) \cup (Len(o) + 1 .. Len(o2))
      /\ Positions(o2) = Positions(o) \cup (m + 1 .. q)
      /\ Within(o2, q)
      /\ \A k \in Len(o) + 1 .. Len(o2) : o2[k].pos \in m + 1 .. q
      /\ Ordered(o2)
  BY ONLY <1>1, Extends(o2, o, m, q), ExtendsFields
<1>3. Longer(o2, o) /\ IsSeq(o2) /\ Len(o) \in Nat /\ Len(o2) \in Nat /\ DOMAIN f = 1 .. Len(f)
  BY <1>1, LongerFields, SeqFields DEF Extends
<1>4. Positions(o2) \cup Positions(f) = 1 .. q
  <2>1. 1 .. q = (1 .. m) \cup (m + 1 .. q)
    BY <1>0
  <2>2. QED
    BY ONLY <1>1, <1>2, <2>1
<1>5. Within(f, q)
  <2>1. \A x \in 0 .. m : x \in 0 .. q
    BY <1>0
  <2>2. QED
    BY ONLY <1>1, <2>1 DEF Within
<1>6. Interleaved(o2, f)
  <2> SUFFICES ASSUME NEW k \in MovedOf(o2), NEW j \in MovedOf(f)
               PROVE  IF UpTo(StartsOf(o2), k) <= UpTo(EndsOf(f), j)
                      THEN o2[k].pos < f[j].pos ELSE f[j].pos < o2[k].pos
    BY DEF Interleaved
  <2>1. CASE k \in MovedOf(o)
    <3>1. k \in 1 .. Len(o)
      BY <1>1, <2>1, StreamFields
    <3>2. UpTo(StartsOf(o2), k) = UpTo(StartsOf(o), k) /\ o2[k] = o[k]
      BY <1>3, <3>1, LongerUpTo, LongerFields
    <3>3. QED
      BY <1>1, <2>1, <3>2 DEF Interleaved
  <2>2. CASE k \in Len(o) + 1 .. Len(o2)
    <3>1. PICK p \in Nat : p = Len(o)
      BY <1>3
    <3>2. StartsOf(o) \in SUBSET (1 .. p)
      BY <1>1, <3>1, StreamFields
    <3>3. k \in Nat /\ p <= k
      BY <1>3, <2>2, <3>1
    <3>4. UpTo(StartsOf(o2), k) = Cardinality(StartsOf(o)) /\ Cardinality(StartsOf(o)) \in Nat
      BY ONLY <1>2, <3>2, <3>3, p \in Nat, UpToFields
    <3>5. UpTo(EndsOf(f), j) < Cardinality(StartsOf(o))
      BY <1>1, ClosedBefore
    <3>6. UpTo(EndsOf(f), j) \in Nat
      <4>1. MovedOf(f) \in SUBSET (1 .. Len(f)) /\ EndsOf(f) \in SUBSET (1 .. Len(f)) /\ Len(f) \in Nat
        BY <1>1, StreamFields
      <4>2. j \in Nat
        BY ONLY <4>1, j \in MovedOf(f)
      <4>3. QED
        BY ONLY <4>1, <4>2, UpToFields
    <3>7. f[j].pos \in 0 .. m /\ o2[k].pos \in m + 1 .. q
      BY <1>1, <1>2, <2>2 DEF MovedOf, Within
    <3>8. f[j].pos < o2[k].pos
      BY ONLY <3>7, <1>0
    <3>9. ~ (UpTo(StartsOf(o2), k) <= UpTo(EndsOf(f), j))
      BY ONLY <3>4, <3>5, <3>6
    <3>10. QED
      BY ONLY <3>8, <3>9
  <2>3. QED
    BY <1>2, <2>1, <2>2
<1>7. ASSUME NEW j \in MovedOf(f)
      PROVE  \E k \in StartsOf(o2) : j \in SegmentOf(o2, f, k)
  <2>1. PICK k \in StartsOf(o) : j \in SegmentOf(o, f, k)
    BY DEF Placed
  <2>2. k \in 1 .. Len(o)
    BY <1>1, StreamFields
  <2>3. SegmentOf(o2, f, k) = SegmentOf(o, f, k)
    BY <1>3, <2>2, SegmentsStay
  <2>4. QED
    BY <1>2, <2>1, <2>3
<1>8. Placed(o2, f, q)
  BY ONLY <1>1, <1>2, <1>3, <1>4, <1>5, <1>6, <1>7 DEF Placed
<1>9. QED
  BY <1>2, <1>8 DEF Closed

(* s2 is s and a token. *)
TokenAdded(s2, s, e) == IsSeq(s) /\ ~IsInst(e) /\ s2 = Append(s, e)

LEMMA TokenFields ==
  ASSUME NEW s, NEW e, NEW s2, TokenAdded(s2, s, e)
  PROVE  /\ Longer(s2, s) /\ IsSeq(s2) /\ Len(s) \in Nat /\ Len(s2) \in Nat
         /\ Len(s2) = Len(s) + 1 /\ s2[Len(s2)] = e /\ s2 # <<>>
         /\ MovedOf(s2) = MovedOf(s) /\ Positions(s2) = Positions(s)
         /\ EndsOf(s2) = EndsOf(s) \cup {Len(s2)}
<1>0. PICK p \in Nat, r \in Nat : p = Len(s) /\ r = p + 1
  BY SeqFields DEF TokenAdded
<1>1. Longer(s2, s) /\ Len(s2) = r /\ s2[r] = e /\ ~IsInst(e)
  BY <1>0, AppendLonger DEF TokenAdded
<1>2. /\ IsSeq(s2) /\ DOMAIN s = 1 .. p /\ DOMAIN s2 = 1 .. r /\ \A k \in 1 .. p : s2[k] = s[k]
      /\ EndsOf(s2) \cap 1 .. p = EndsOf(s)
      /\ MovedOf(s2) \cap 1 .. p = MovedOf(s)
  BY <1>0, <1>1, LongerFields
<1>3. 1 .. r = (1 .. p) \cup {r} /\ r \notin 1 .. p
  BY <1>0
<1>4. MovedOf(s2) = MovedOf(s) /\ EndsOf(s2) = EndsOf(s) \cup {r}
  <2>1. MovedOf(s2) \subseteq 1 .. r /\ EndsOf(s2) \subseteq 1 .. r
    BY ONLY <1>2 DEF MovedOf, EndsOf
  <2>2. r \notin MovedOf(s2) /\ r \in EndsOf(s2)
    BY ONLY <1>1, <1>2, <1>3 DEF MovedOf, EndsOf
  <2>3. QED
    BY ONLY <1>2, <1>3, <2>1, <2>2
<1>5. \A k \in MovedOf(s) : s2[k] = s[k]
  BY ONLY <1>2 DEF MovedOf
<1>6. Positions(s2) = Positions(s)
  BY ONLY <1>4, <1>5 DEF Positions
<1>8. s2 # <<>>
  BY ONLY <1>1, <1>2, <1>0, SeqFields
<1>9. QED
  BY ONLY <1>0, <1>1, <1>2, <1>4, <1>6, <1>8

LEMMA TokenOrdered ==
  ASSUME NEW s, Ordered(s), NEW e, NEW s2, TokenAdded(s2, s, e)
  PROVE  Ordered(s2)
<1>1. PICK p \in Nat : p = Len(s)
  BY TokenFields
<1>2. Longer(s2, s) /\ MovedOf(s2) = MovedOf(s) /\ IsSeq(s)
  BY TokenFields DEF TokenAdded
<1>3. (\A k \in 1 .. p : s2[k] = s[k]) /\ MovedOf(s) \in SUBSET (1 .. p)
  BY <1>1, <1>2, LongerFields, StreamFields
<1>4. QED
  BY ONLY <1>2, <1>3, Ordered(s) DEF Ordered

LEMMA TokenNames ==
  ASSUME NEW s, NEW e, NEW s2, TokenAdded(s2, s, e), NEW name
  PROVE  TokensOf(s2, name) =
           IF IsToken(e, name) THEN TokensOf(s, name) \cup {Len(s2)} ELSE TokensOf(s, name)
<1>0. PICK p \in Nat, r \in Nat : p = Len(s) /\ r = p + 1
  BY TokenFields
<1>1. Longer(s2, s) /\ Len(s2) = r /\ s2[r] = e /\ IsSeq(s2)
  BY <1>0, TokenFields
<1>2. 1 .. r = (1 .. p) \cup {r} /\ r \notin 1 .. p
  BY <1>0
<1>3. TokensOf(s2, name) \cap 1 .. p = TokensOf(s, name)
  BY ONLY <1>0, <1>1, LongerTokens
<1>4. TokensOf(s2, name) \subseteq 1 .. r /\ DOMAIN s2 = 1 .. r
  BY ONLY <1>1, StreamFields, StreamTokens
<1>5. r \in TokensOf(s2, name) <=> IsToken(e, name)
  BY ONLY <1>1, <1>2, <1>4 DEF TokensOf
<1>6. QED
  BY ONLY <1>1, <1>2, <1>3, <1>4, <1>5

LEMMA TokenPlaced ==
  ASSUME NEW o, NEW f, NEW m \in Nat, Placed(o, f, m), NEW e, e.pos = 0, NEW o2, TokenAdded(o2, o, e)
  PROVE  Placed(o2, f, m)
<1>1. /\ IsSeq(o) /\ IsSeq(f) /\ Ordered(o) /\ Ordered(f) /\ Interleaved(o, f)
      /\ Within(o, m) /\ Within(f, m)
      /\ Positions(o) \cup Positions(f) = 1 .. m
  BY DEF Placed
<1>2. PICK p \in Nat, r \in Nat : p = Len(o) /\ r = p + 1
  BY TokenFields
<1>4. /\ Longer(o2, o) /\ IsSeq(o2) /\ Len(o2) = r /\ o2[r] = e
      /\ MovedOf(o2) = MovedOf(o) /\ Positions(o2) = Positions(o) /\ Ordered(o2)
  BY ONLY <1>1, <1>2, TokenAdded(o2, o, e), TokenFields, TokenOrdered
<1>5. /\ DOMAIN o2 = 1 .. r /\ DOMAIN o = 1 .. p /\ (\A k \in 1 .. p : o2[k] = o[k])
      /\ StartsOf(o) \in SUBSET (1 .. p) /\ MovedOf(o) \in SUBSET (1 .. p)
      /\ StartsOf(o2) \cap 1 .. p = StartsOf(o)
  BY ONLY <1>1, <1>2, <1>4, LongerFields, StreamFields
<1>6. Within(o2, m)
  <2>1. \A k \in 1 .. r : k \in 1 .. p \/ k = r
    BY ONLY <1>2
  <2>2. o2[r].pos \in 0 .. m
    BY ONLY <1>4, e.pos = 0, m \in Nat
  <2>3. QED
    BY ONLY <1>1, <1>5, <2>1, <2>2 DEF Within
<1>7. Interleaved(o2, f)
  <2>1. \A k \in MovedOf(o) : UpTo(StartsOf(o2), k) = UpTo(StartsOf(o), k) /\ o2[k] = o[k]
    BY ONLY <1>2, <1>4, <1>5, LongerUpTo
  <2>2. QED
    BY ONLY <1>1, <1>4, <2>1 DEF Interleaved
<1>8. ASSUME NEW j \in MovedOf(f)
      PROVE  \E k \in StartsOf(o2) : j \in SegmentOf(o2, f, k)
  <2>1. PICK k \in StartsOf(o) : j \in SegmentOf(o, f, k)
    BY DEF Placed
  <2>2. k \in 1 .. Len(o) /\ k \in StartsOf(o2)
    BY ONLY <1>2, <1>5, k \in StartsOf(o)
  <2>3. SegmentOf(o2, f, k) = SegmentOf(o, f, k)
    BY <1>4, <2>2, SegmentsStay
  <2>4. QED
    BY <2>1, <2>2, <2>3
<1>9. QED
  BY ONLY <1>1, <1>4, <1>6, <1>7, <1>8 DEF Placed

(* A configuration token, and a start token. *)
LEMMA ConfigClosed ==
  ASSUME NEW o, NEW f, Closed(o, f), NEW e, ~IsToken(e, "df-start"), NEW o2, TokenAdded(o2, o, e)
  PROVE  Closed(o2, f)
<1>1. StartsOf(o2) = StartsOf(o)
  BY TokenNames DEF StartsOf
<1>2. QED
  BY <1>1 DEF Closed

LEMMA StartOpens ==
  ASSUME NEW o, NEW f, Closed(o, f), NEW e, IsToken(e, "df-start"), NEW o2, TokenAdded(o2, o, e),
         NEW l, l = e.loop
  PROVE  Open(o2, f, l)
<1>1. PICK p \in Nat, r \in Nat : p = Len(o) /\ r = p + 1
  BY TokenFields
<1>6. Len(o2) = r /\ o2[r] = e /\ o2 # <<>> /\ IsSeq(o)
  BY <1>1, TokenFields DEF TokenAdded
<1>7. StartsOf(o2) = StartsOf(o) \cup {r}
  BY <1>6, TokenNames DEF StartsOf
<1>2. StartsOf(o2) = StartsOf(o) \cup {r} /\ Len(o2) = r /\ o2[r] = e /\ o2 # <<>> /\ IsSeq(o)
  BY ONLY <1>6, <1>7
<1>3. StartsOf(o) \in SUBSET (1 .. p)
  BY <1>1, <1>2, StreamFields
<1>4. Cardinality(StartsOf(o2)) = Cardinality(StartsOf(o)) + 1
  BY ONLY <1>1, <1>2, <1>3, OneMore
<1>5. QED
  BY <1>2, <1>4 DEF Open, Closed

-----------------------------------------------------------------------------
(* A data flow that is running *)

LEMMA OpenFields ==
  ASSUME NEW o, IsSeq(o), NEW f, IsSeq(f), NEW l, Open(o, f, l)
  PROVE  /\ Len(o) \in StartsOf(o) /\ Len(o) \in Nat /\ Len(o) # 0 /\ Cardinality(EndsOf(f)) \in Nat
         /\ UpTo(StartsOf(o), Len(o)) = Cardinality(EndsOf(f)) + 1
         /\ \A k \in MovedOf(o) : UpTo(StartsOf(o), k) \in Nat /\ UpTo(StartsOf(o), k) <= Cardinality(EndsOf(f))
         /\ \A k \in StartsOf(o) : k # Len(o) => UpTo(StartsOf(o), k) <= Cardinality(EndsOf(f))
<1>1. PICK n \in Nat : n = Len(o)
  BY SeqFields
<1>2. /\ DOMAIN o = 1 .. n /\ StartsOf(o) \in SUBSET (1 .. n) /\ MovedOf(o) \in SUBSET (1 .. n)
      /\ StartsOf(o) \in SUBSET EndsOf(o) /\ MovedOf(o) \cap EndsOf(o) = {}
  BY <1>1, StreamFields
<1>3. o # <<>> /\ IsToken(o[n], "df-start") /\ Cardinality(StartsOf(o)) = Cardinality(EndsOf(f)) + 1
  BY <1>1 DEF Open
<1>4. n # 0
  BY ONLY <1>1, <1>3, IsSeq(o), SeqFields
<1>5. n \in StartsOf(o)
  BY ONLY <1>2, <1>3, <1>4, n \in Nat DEF StartsOf, TokensOf
<1>6. Cardinality(EndsOf(f)) \in Nat
  <2>1. Len(f) \in Nat /\ EndsOf(f) \in SUBSET (1 .. Len(f))
    BY StreamFields
  <2>2. QED
    BY ONLY <2>1, UpToFields
<1>7. UpTo(StartsOf(o), n) = Cardinality(EndsOf(f)) + 1
  BY ONLY <1>2, <1>3, n \in Nat, UpToFields
<1>8. ASSUME NEW k \in 1 .. n, k # n
      PROVE  UpTo(StartsOf(o), k) \in Nat /\ UpTo(StartsOf(o), k) <= Cardinality(EndsOf(f))
  <2>1. k \in Nat /\ k < n
    BY <1>8
  <2>2. UpTo(StartsOf(o), k) \in Nat
    BY ONLY <1>2, <2>1, n \in Nat, UpToFields
  <2>3. UpTo(StartsOf(o), k) < UpTo(StartsOf(o), n)
    BY ONLY <1>2, <1>5, <2>1, n \in Nat, UpToLess
  <2>4. QED
    BY ONLY <1>6, <1>7, <2>2, <2>3
<1>9. \A k \in MovedOf(o) : k \in 1 .. n /\ k # n
  BY ONLY <1>2, <1>5
<1>10. QED
  BY <1>1, <1>2, <1>4, <1>5, <1>6, <1>7, <1>8, <1>9

LEMMA NewInSegment ==
  ASSUME NEW o, IsSeq(o), NEW f, IsSeq(f), NEW l, Open(o, f, l),
         NEW f2, Longer(f2, f), EndsOf(f2) = EndsOf(f), NEW j \in Len(f) + 1 .. Len(f2), j \in MovedOf(f2)
  PROVE  UpTo(EndsOf(f2), j) = Cardinality(EndsOf(f)) /\ j \in SegmentOf(o, f2, Len(o))
<1>1. PICK n \in Nat : n = Len(f)
  BY SeqFields
<1>2. EndsOf(f) \in SUBSET (1 .. n) /\ Len(f2) \in Nat
  BY <1>1, StreamFields, LongerFields
<1>3. j \in Nat /\ n <= j
  BY <1>1, <1>2
<1>4. UpTo(EndsOf(f2), j) = Cardinality(EndsOf(f))
  BY ONLY <1>2, <1>3, n \in Nat, EndsOf(f2) = EndsOf(f), UpToFields
<1>5. UpTo(StartsOf(o), Len(o)) = Cardinality(EndsOf(f)) + 1
  BY OpenFields
<1>6. QED
  BY ONLY <1>4, <1>5, j \in MovedOf(f2) DEF SegmentOf

LEMMA MovedPlaced ==
  ASSUME NEW o, NEW f, NEW m, NEW q, Placed(o, f, m), NEW l, Open(o, f, l), NEW f2, Extends(f2, f, m, q)
  PROVE  Placed(o, f2, q) /\ Open(o, f2, l)
<1>0. m \in Nat /\ q \in Nat /\ m <= q
  BY DEF Extends
<1>1. /\ IsSeq(o) /\ IsSeq(f) /\ Ordered(o) /\ Ordered(f) /\ Interleaved(o, f)
      /\ Within(o, m) /\ Within(f, m)
      /\ Positions(o) \cup Positions(f) = 1 .. m
  BY DEF Placed
<1>2. /\ EndsOf(f2) = EndsOf(f)
      /\ MovedOf(f2) = MovedOf(f) \cup (Len(f) + 1 .. Len(f2))
      /\ Positions(f2) = Positions(f) \cup (m + 1 .. q)
      /\ Within(f2, q)
      /\ \A k \in Len(f) + 1 .. Len(f2) : f2[k].pos \in m + 1 .. q
      /\ Ordered(f2)
  BY ONLY <1>1, Extends(f2, f, m, q), ExtendsFields
<1>3. Longer(f2, f) /\ IsSeq(f2) /\ Len(f) \in Nat /\ Len(f2) \in Nat /\ DOMAIN o = 1 .. Len(o)
  BY <1>1, LongerFields, SeqFields DEF Extends
<1>4. Positions(o) \cup Positions(f2) = 1 .. q
  <2>1. 1 .. q = (1 .. m) \cup (m + 1 .. q)
    BY <1>0
  <2>2. QED
    BY ONLY <1>1, <1>2, <2>1
<1>5. Within(o, q)
  <2>1. \A x \in 0 .. m : x \in 0 .. q
    BY <1>0
  <2>2. QED
    BY ONLY <1>1, <2>1 DEF Within
<1>6. /\ Len(o) \in StartsOf(o) /\ Cardinality(EndsOf(f)) \in Nat
      /\ \A k \in MovedOf(o) : UpTo(StartsOf(o), k) <= Cardinality(EndsOf(f))
  BY ONLY <1>1, Open(o, f, l), OpenFields
<1>7. \A j \in Len(f) + 1 .. Len(f2) :
         UpTo(EndsOf(f2), j) = Cardinality(EndsOf(f)) /\ j \in SegmentOf(o, f2, Len(o))
  BY ONLY <1>1, <1>2, <1>3, Open(o, f, l), NewInSegment
<1>8. Interleaved(o, f2)
  <2> SUFFICES ASSUME NEW k \in MovedOf(o), NEW j \in MovedOf(f2)
               PROVE  IF UpTo(StartsOf(o), k) <= UpTo(EndsOf(f2), j)
                      THEN o[k].pos < f2[j].pos ELSE f2[j].pos < o[k].pos
    BY DEF Interleaved
  <2>1. CASE j \in MovedOf(f)
    <3>1. j \in 1 .. Len(f)
      BY <1>1, <2>1, StreamFields
    <3>2. UpTo(EndsOf(f2), j) = UpTo(EndsOf(f), j) /\ f2[j] = f[j]
      BY <1>3, <3>1, LongerUpTo, LongerFields
    <3>3. QED
      BY <1>1, <2>1, <3>2 DEF Interleaved
  <2>2. CASE j \in Len(f) + 1 .. Len(f2)
    <3>1. UpTo(StartsOf(o), k) <= UpTo(EndsOf(f2), j)
      BY <1>6, <1>7, <2>2
    <3>2. f2[j].pos \in m + 1 .. q /\ o[k].pos \in 0 .. m
      BY <1>1, <1>2, <2>2 DEF MovedOf, Within
    <3>3. o[k].pos < f2[j].pos
      BY ONLY <1>0, <3>2
    <3>4. QED
      BY <3>1, <3>3
  <2>3. QED
    BY <1>2, <2>1, <2>2
<1>9. ASSUME NEW j \in MovedOf(f2)
      PROVE  \E k \in StartsOf(o) : j \in SegmentOf(o, f2, k)
  <2>1. CASE j \in MovedOf(f)
    <3>1. PICK k \in StartsOf(o) : j \in SegmentOf(o, f, k)
      BY <2>1 DEF Placed
    <3>2. SegmentOf(o, f, k) \subseteq SegmentOf(o, f2, k)
      BY <1>3, SegmentsGrow
    <3>3. QED
      BY <3>1, <3>2
  <2>2. CASE j \in Len(f) + 1 .. Len(f2)
    BY <1>6, <1>7, <2>2
  <2>3. QED
    BY <1>2, <2>1, <2>2
<1>10. Placed(o, f2, q)
  BY ONLY <1>1, <1>2, <1>3, <1>4, <1>5, <1>8, <1>9 DEF Placed
<1>11. QED
  BY <1>2, <1>10 DEF Open

LEMMA EndPlaced ==
  ASSUME NEW o, NEW f, NEW m, Placed(o, f, m), NEW e, e.pos = 0, m \in Nat, NEW f2, TokenAdded(f2, f, e)
  PROVE  Placed(o, f2, m)
<1>1. /\ IsSeq(o) /\ IsSeq(f) /\ Ordered(o) /\ Ordered(f) /\ Interleaved(o, f)
      /\ Within(o, m) /\ Within(f, m)
      /\ Positions(o) \cup Positions(f) = 1 .. m
  BY DEF Placed
<1>2. PICK p \in Nat, r \in Nat : p = Len(f) /\ r = p + 1
  BY TokenFields
<1>3. /\ Longer(f2, f) /\ IsSeq(f2) /\ Len(f2) = r /\ f2[r] = e
      /\ MovedOf(f2) = MovedOf(f) /\ Positions(f2) = Positions(f) /\ Ordered(f2)
  BY ONLY <1>1, <1>2, TokenAdded(f2, f, e), TokenFields, TokenOrdered
<1>4. /\ DOMAIN f2 = 1 .. r /\ DOMAIN f = 1 .. p /\ (\A k \in 1 .. p : f2[k] = f[k])
      /\ MovedOf(f) \in SUBSET (1 .. p)
  BY ONLY <1>1, <1>2, <1>3, LongerFields, StreamFields
<1>5. Within(f2, m)
  <2>1. \A k \in 1 .. r : k \in 1 .. p \/ k = r
    BY ONLY <1>2
  <2>2. f2[r].pos \in 0 .. m
    BY ONLY <1>3, e.pos = 0, m \in Nat
  <2>3. QED
    BY ONLY <1>1, <1>4, <2>1, <2>2 DEF Within
<1>6. Interleaved(o, f2)
  <2>1. \A k \in MovedOf(f) : UpTo(EndsOf(f2), k) = UpTo(EndsOf(f), k) /\ f2[k] = f[k]
    BY ONLY <1>2, <1>3, <1>4, LongerUpTo
  <2>2. QED
    BY ONLY <1>1, <1>3, <2>1 DEF Interleaved
<1>7. ASSUME NEW j \in MovedOf(f2)
      PROVE  \E k \in StartsOf(o) : j \in SegmentOf(o, f2, k)
  <2>1. PICK k \in StartsOf(o) : j \in SegmentOf(o, f, k)
    BY <1>3 DEF Placed
  <2>2. SegmentOf(o, f, k) \subseteq SegmentOf(o, f2, k)
    BY <1>3, SegmentsGrow
  <2>3. QED
    BY <2>1, <2>2
<1>8. QED
  BY ONLY <1>1, <1>3, <1>5, <1>6, <1>7 DEF Placed

LEMMA EndCloses ==
  ASSUME NEW o, IsSeq(o), NEW f, NEW l, Open(o, f, l), NEW e, NEW f2, TokenAdded(f2, f, e)
  PROVE  Closed(o, f2)
<1>1. PICK p \in Nat, r \in Nat : p = Len(f) /\ r = p + 1
  BY TokenFields
<1>2. Len(f2) = r /\ EndsOf(f2) = EndsOf(f) \cup {r} /\ IsSeq(f)
  BY <1>1, TokenFields DEF TokenAdded
<1>3. EndsOf(f) \in SUBSET (1 .. p)
  BY <1>1, <1>2, StreamFields
<1>4. Cardinality(EndsOf(f2)) = Cardinality(EndsOf(f)) + 1
  BY ONLY <1>1, <1>2, <1>3, OneMore
<1>5. QED
  BY <1>2, <1>4 DEF Open, Closed

-----------------------------------------------------------------------------
(* The segments are whole *)

LEMMA ConfiguredSame ==
  ASSUME NEW o, NEW o2, Longer(o2, o), NEW k \in 0 .. Len(o), NEW l, ConfiguredAt(o, k, l)
  PROVE  ConfiguredAt(o2, k, l)
<1>1. PICK n \in Nat : n = Len(o)
  BY LongerFields
<1>2. \A c \in 1 .. n : o2[c] = o[c]
  BY <1>1, LongerFields
<1>3. \A c \in 1 .. k : o2[c] = o[c] /\ c \in Nat
  BY ONLY <1>1, <1>2, k \in 0 .. Len(o)
<1>4. PICK c \in 1 .. k : /\ IsToken(o[c], "df-config") /\ o[c].loop = l
                          /\ \A i \in c + 1 .. k : ~IsToken(o[i], "df-config")
  BY DEF ConfiguredAt
<1>5. \A i \in c + 1 .. k : i \in 1 .. k
  BY <1>3
<1>6. QED
  BY ONLY <1>3, <1>4, <1>5 DEF ConfiguredAt

LEMMA SamePart ==
  ASSUME NEW o, NEW o2, Longer(o2, o), NEW f, NEW f2, Longer(f2, f), NEW k \in 1 .. Len(o),
         SegmentOf(o2, f2, k) = SegmentOf(o, f, k), SegPart(o, f, k)
  PROVE  SegPart(o2, f2, k)
<1>1. o2[k] = o[k]
  BY LongerFields
<1>2. \A j \in SegmentOf(o, f, k) : f2[j] = f[j]
  <2>1. \A j \in 1 .. Len(f) : f2[j] = f[j]
    BY LongerFields
  <2>2. MovedOf(f) \in SUBSET (1 .. Len(f))
    BY LongerFields, StreamFields
  <2>3. QED
    BY ONLY <2>1, <2>2 DEF SegmentOf
<1>3. ConfiguredAt(o2, k, o[k].loop)
  <2>1. ConfiguredAt(o, k, o[k].loop)
    BY DEF SegPart
  <2>2. k \in 0 .. Len(o)
    BY LongerFields
  <2>3. QED
    BY <2>1, <2>2, ConfiguredSame
<1>4. QED
  BY <1>1, <1>2, <1>3 DEF SegPart

LEMMA EndSame ==
  ASSUME NEW o, NEW o2, Longer(o2, o), NEW f, NEW f2, Longer(f2, f), NEW k \in 1 .. Len(o),
         SegmentOf(o2, f2, k) = SegmentOf(o, f, k), NEW t, NEW x,
         EndRight(SegmentOf(o, f, k), f, t, x, o[k].loop)
  PROVE  EndRight(SegmentOf(o2, f2, k), f2, t, x, o2[k].loop)
<1>1. o2[k] = o[k]
  BY LongerFields
<1>2. \A j \in SegmentOf(o, f, k) : f2[j] = f[j]
  <2>1. \A j \in 1 .. Len(f) : f2[j] = f[j]
    BY LongerFields
  <2>2. MovedOf(f) \in SUBSET (1 .. Len(f))
    BY LongerFields, StreamFields
  <2>3. QED
    BY ONLY <2>1, <2>2 DEF SegmentOf
<1>3. QED
  BY <1>1, <1>2 DEF EndRight

LEMMA SelfLonger == ASSUME NEW s, IsSeq(s) PROVE Longer(s, s)
<1>1. Len(s) \in Nat
  BY SeqFields
<1>2. QED
  BY <1>1 DEF Longer

(* The instruction stream goes on without a start token. *)
LEMMA KeptWhole ==
  ASSUME NEW o, NEW o2, Longer(o2, o), StartsOf(o2) = StartsOf(o), NEW f, IsSeq(f),
         Parts(o, f), Sizes(o, f), NEW t, NEW x, Ended(o, f, t, x)
  PROVE  Parts(o2, f) /\ Sizes(o2, f) /\ Ended(o2, f, t, x)
<1>1. Longer(f, f) /\ IsSeq(o)
  BY SelfLonger, LongerFields
<1>2. StartsOf(o) \in SUBSET (1 .. Len(o))
  BY <1>1, StreamFields
<1>3. ASSUME NEW k \in StartsOf(o)
      PROVE  SegPart(o2, f, k) /\ SegSize(o2, f, k) /\ SegEnd(o2, f, t, x, k)
  <2>1. k \in 1 .. Len(o)
    BY <1>2
  <2>2. SegmentOf(o2, f, k) = SegmentOf(o, f, k)
    BY <2>1, SegmentsStay
  <2>3. SegPart(o2, f, k)
    <3>1. SegPart(o, f, k)
      BY DEF Parts
    <3>2. QED
      BY <1>1, <2>1, <2>2, <3>1, SamePart
  <2>4. SegSize(o2, f, k)
    <3>1. SegSize(o, f, k)
      BY DEF Sizes
    <3>2. QED
      BY ONLY <2>2, <3>1 DEF SegSize
  <2>5. SegEnd(o2, f, t, x, k)
    <3>1. UpTo(StartsOf(o2), k) = UpTo(StartsOf(o), k)
      OBVIOUS
    <3>2. CASE UpTo(StartsOf(o), k) <= Cardinality(EndsOf(f))
      <4>1. EndRight(SegmentOf(o, f, k), f, t, x, o[k].loop)
        BY <3>2 DEF Ended, SegEnd
      <4>2. EndRight(SegmentOf(o2, f, k), f, t, x, o2[k].loop)
        BY <1>1, <2>1, <2>2, <4>1, EndSame
      <4>3. QED
        BY ONLY <4>2 DEF SegEnd
    <3>3. CASE ~ (UpTo(StartsOf(o), k) <= Cardinality(EndsOf(f)))
      BY ONLY <3>1, <3>3 DEF SegEnd
    <3>4. QED
      BY <3>2, <3>3
  <2>6. QED
    BY <2>3, <2>4, <2>5
<1>4. QED
  BY <1>3 DEF Parts, Sizes, Ended

(* A segment begins. *)
LEMMA StartWhole ==
  ASSUME NEW o, NEW f, IsSeq(f), Closed(o, f), NEW e, IsToken(e, "df-start"), e.loop \in Loop,
         NEW o2, TokenAdded(o2, o, e), ConfiguredAt(o, Len(o), e.loop),
         Parts(o, f), Sizes(o, f), NEW t, NEW x, Ended(o, f, t, x)
  PROVE  /\ Parts(o2, f) /\ SizesBefore(o2, f) /\ Ended(o2, f, t, x)
         /\ SegmentOf(o2, f, Len(o2)) = {}
<1>1. PICK p \in Nat, r \in Nat : p = Len(o) /\ r = p + 1
  BY TokenFields
<1>2. /\ Longer(f, f) /\ IsSeq(o) /\ Longer(o2, o) /\ Len(o2) = r /\ o2[r] = e /\ IsSeq(o2)
      /\ \A c \in 1 .. p : o2[c] = o[c]
  BY <1>1, SelfLonger, LongerFields, TokenFields
<1>3. StartsOf(o2) = StartsOf(o) \cup {r} /\ StartsOf(o) \in SUBSET (1 .. p)
  BY <1>1, <1>2, StreamFields, TokenNames DEF StartsOf
<1>4. Open(o2, f, e.loop)
  BY StartOpens
<1>5. /\ UpTo(StartsOf(o2), r) = Cardinality(EndsOf(f)) + 1 /\ Cardinality(EndsOf(f)) \in Nat
  BY ONLY <1>2, <1>4, IsSeq(f), OpenFields
<1>6. SegmentOf(o2, f, r) = {}
  <2> SUFFICES ASSUME NEW j \in SegmentOf(o2, f, r) PROVE FALSE
    OBVIOUS
  <2>1. j \in MovedOf(f) /\ UpTo(EndsOf(f), j) + 1 = UpTo(StartsOf(o2), r)
    BY DEF SegmentOf
  <2>2. UpTo(EndsOf(f), j) < Cardinality(StartsOf(o))
    BY <1>2, <2>1, ClosedBefore
  <2>3. UpTo(EndsOf(f), j) \in Nat
    <3>1. Len(f) \in Nat /\ EndsOf(f) \in SUBSET (1 .. Len(f)) /\ MovedOf(f) \in SUBSET (1 .. Len(f))
      BY StreamFields
    <3>2. j \in Nat
      BY ONLY <2>1, <3>1
    <3>3. QED
      BY ONLY <3>1, <3>2, UpToFields
  <2>4. QED
    BY <1>5, <2>1, <2>2, <2>3 DEF Closed
<1>7. ASSUME NEW k \in StartsOf(o)
      PROVE  SegPart(o2, f, k) /\ SegSize(o2, f, k) /\ SegEnd(o2, f, t, x, k)
  <2>1. k \in 1 .. Len(o)
    BY <1>1, <1>3
  <2>2. SegmentOf(o2, f, k) = SegmentOf(o, f, k)
    BY <1>2, <2>1, SegmentsStay
  <2>3. SegPart(o2, f, k)
    <3>1. SegPart(o, f, k)
      BY DEF Parts
    <3>2. QED
      BY <1>2, <2>1, <2>2, <3>1, SamePart
  <2>4. SegSize(o2, f, k)
    <3>1. SegSize(o, f, k)
      BY DEF Sizes
    <3>2. QED
      BY ONLY <2>2, <3>1 DEF SegSize
  <2>5. SegEnd(o2, f, t, x, k)
    <3>1. UpTo(StartsOf(o2), k) = UpTo(StartsOf(o), k)
      BY <1>2, <2>1, LongerUpTo
    <3>2. CASE UpTo(StartsOf(o), k) <= Cardinality(EndsOf(f))
      <4>1. EndRight(SegmentOf(o, f, k), f, t, x, o[k].loop)
        BY <3>2 DEF Ended, SegEnd
      <4>2. EndRight(SegmentOf(o2, f, k), f, t, x, o2[k].loop)
        BY <1>2, <2>1, <2>2, <4>1, EndSame
      <4>3. QED
        BY ONLY <4>2 DEF SegEnd
    <3>3. CASE ~ (UpTo(StartsOf(o), k) <= Cardinality(EndsOf(f)))
      BY ONLY <3>1, <3>3 DEF SegEnd
    <3>4. QED
      BY <3>2, <3>3
  <2>6. QED
    BY <2>3, <2>4, <2>5
<1>8. SegPart(o2, f, r)
  <2>1. ConfiguredAt(o2, r, e.loop)
    <3>1. PICK c \in 1 .. p : /\ IsToken(o[c], "df-config") /\ o[c].loop = e.loop
                              /\ \A i \in c + 1 .. p : ~IsToken(o[i], "df-config")
      BY <1>1 DEF ConfiguredAt
    <3>2. c \in 1 .. r /\ \A i \in c + 1 .. r : i = r \/ i \in c + 1 .. p
      BY ONLY <1>1, c \in 1 .. p
    <3>3. \A i \in c + 1 .. p : i \in 1 .. p
      BY ONLY <1>1, c \in 1 .. p
    <3>4. ~IsToken(e, "df-config")
      BY DEF IsToken
    <3>5. QED
      BY ONLY <1>2, <3>1, <3>2, <3>3, <3>4 DEF ConfiguredAt
  <2>2. QED
    BY <1>2, <1>6, <2>1 DEF SegPart
<1>9. SegEnd(o2, f, t, x, r)
  <2>1. ~ (UpTo(StartsOf(o2), r) <= Cardinality(EndsOf(f)))
    BY ONLY <1>5
  <2>2. QED
    BY ONLY <2>1 DEF SegEnd
<1>10. QED
  BY <1>2, <1>3, <1>6, <1>7, <1>8, <1>9 DEF Parts, SizesBefore, Ended

(* What is added to a segment is of its loop, and begins with its header if *)
(* it is the first.                                                         *)
Fits(o, f, f2, l) ==
  /\ \A j \in Len(f) + 1 .. Len(f2) : f2[j].inst \in LoopInsts[l]
  /\ SegmentOf(o, f, Len(o)) = {} =>
       \A j \in Len(f) + 1 .. Len(f2) : j = Len(f) + 1 => IsStaticInstLoopHead(l, f2[j].inst)

LEMMA MovedSegments ==
  ASSUME NEW o, IsSeq(o), NEW f, NEW l, Open(o, f, l), NEW f2, Longer(f2, f), EndsOf(f2) = EndsOf(f),
         MovedOf(f2) = MovedOf(f) \cup (Len(f) + 1 .. Len(f2))
  PROVE  /\ SegmentOf(o, f2, Len(o)) = SegmentOf(o, f, Len(o)) \cup (Len(f) + 1 .. Len(f2))
         /\ \A k \in StartsOf(o) : k # Len(o) => SegmentOf(o, f2, k) = SegmentOf(o, f, k)
<1>1. IsSeq(f) /\ Len(f) \in Nat /\ Len(f2) \in Nat
  BY LongerFields
<1>2. \A j \in Len(f) + 1 .. Len(f2) :
         UpTo(EndsOf(f2), j) = Cardinality(EndsOf(f)) /\ j \in SegmentOf(o, f2, Len(o))
  <2>1. \A j \in Len(f) + 1 .. Len(f2) : j \in MovedOf(f2)
    OBVIOUS
  <2>2. QED
    BY <1>1, <2>1, NewInSegment
<1>3. \A j \in MovedOf(f2) : j \in 1 .. Len(f) \/ j \in Len(f) + 1 .. Len(f2)
  <2>1. MovedOf(f) \in SUBSET (1 .. Len(f))
    BY <1>1, StreamFields
  <2>2. QED
    BY ONLY <2>1, MovedOf(f2) = MovedOf(f) \cup (Len(f) + 1 .. Len(f2))
<1>4. SegmentOf(o, f2, Len(o)) = SegmentOf(o, f, Len(o)) \cup (Len(f) + 1 .. Len(f2))
  <2>1. SegmentOf(o, f2, Len(o)) \cap 1 .. Len(f) = SegmentOf(o, f, Len(o))
    BY SegmentsGrow
  <2>2. SegmentOf(o, f2, Len(o)) \subseteq MovedOf(f2)
    BY DEF SegmentOf
  <2>3. QED
    BY ONLY <1>2, <1>3, <2>1, <2>2
<1>5. ASSUME NEW k \in StartsOf(o), k # Len(o)
      PROVE  SegmentOf(o, f2, k) = SegmentOf(o, f, k)
  <2>1. SegmentOf(o, f2, k) \cap 1 .. Len(f) = SegmentOf(o, f, k)
    BY SegmentsGrow
  <2>2. UpTo(StartsOf(o), k) <= Cardinality(EndsOf(f)) /\ Cardinality(EndsOf(f)) \in Nat
    BY ONLY <1>1, <1>5, IsSeq(o), Open(o, f, l), OpenFields
  <2>3. UpTo(StartsOf(o), k) \in Nat
    <3>1. Len(o) \in Nat /\ StartsOf(o) \in SUBSET (1 .. Len(o))
      BY StreamFields
    <3>2. k \in Nat
      BY ONLY <3>1, k \in StartsOf(o)
    <3>3. QED
      BY ONLY <3>1, <3>2, UpToFields
  <2>4. \A j \in Len(f) + 1 .. Len(f2) : j \notin SegmentOf(o, f2, k)
    <3>1. \A j \in Len(f) + 1 .. Len(f2) : UpTo(EndsOf(f2), j) + 1 # UpTo(StartsOf(o), k)
      BY ONLY <1>2, <2>2, <2>3
    <3>2. QED
      BY ONLY <3>1 DEF SegmentOf
  <2>5. SegmentOf(o, f2, k) \subseteq MovedOf(f2)
    BY DEF SegmentOf
  <2>6. QED
    BY ONLY <1>3, <2>1, <2>4, <2>5
<1>6. QED
  BY <1>4, <1>5

LEMMA MovedWhole ==
  ASSUME NEW o, IsSeq(o), NEW f, NEW l, Open(o, f, l), NEW f2, Longer(f2, f), EndsOf(f2) = EndsOf(f),
         MovedOf(f2) = MovedOf(f) \cup (Len(f) + 1 .. Len(f2)),
         Fits(o, f, f2, l), Parts(o, f), SizesBefore(o, f), NEW t, NEW x, Ended(o, f, t, x)
  PROVE  Parts(o, f2) /\ SizesBefore(o, f2) /\ Ended(o, f2, t, x)
<1>1. /\ IsSeq(f) /\ Len(f) \in Nat /\ Len(f2) \in Nat /\ Longer(o, o) /\ Len(o) \in Nat
      /\ \A j \in 1 .. Len(f) : f2[j] = f[j]
  BY LongerFields, SelfLonger
<1>2. /\ SegmentOf(o, f2, Len(o)) = SegmentOf(o, f, Len(o)) \cup (Len(f) + 1 .. Len(f2))
      /\ \A k \in StartsOf(o) : k # Len(o) => SegmentOf(o, f2, k) = SegmentOf(o, f, k)
  BY MovedSegments
<1>3. StartsOf(o) \in SUBSET (1 .. Len(o))
  BY StreamFields
<1>4. ASSUME NEW k \in StartsOf(o), k # Len(o)
      PROVE  SegPart(o, f2, k) /\ SegSize(o, f2, k) /\ SegEnd(o, f2, t, x, k)
  <2>1. k \in 1 .. Len(o) /\ SegmentOf(o, f2, k) = SegmentOf(o, f, k)
    BY <1>2, <1>3, <1>4
  <2>2. SegPart(o, f2, k)
    <3>1. SegPart(o, f, k)
      BY DEF Parts
    <3>2. QED
      BY <1>1, <2>1, <3>1, SamePart
  <2>3. SegSize(o, f2, k)
    <3>1. SegSize(o, f, k)
      BY <1>4 DEF SizesBefore
    <3>2. QED
      BY ONLY <2>1, <3>1 DEF SegSize
  <2>4. SegEnd(o, f2, t, x, k)
    <3>1. CASE UpTo(StartsOf(o), k) <= Cardinality(EndsOf(f))
      <4>1. EndRight(SegmentOf(o, f, k), f, t, x, o[k].loop)
        BY <3>1 DEF Ended, SegEnd
      <4>2. EndRight(SegmentOf(o, f2, k), f2, t, x, o[k].loop)
        BY <1>1, <2>1, <4>1, EndSame
      <4>3. QED
        BY ONLY <4>2 DEF SegEnd
    <3>2. CASE ~ (UpTo(StartsOf(o), k) <= Cardinality(EndsOf(f2)))
      BY ONLY <3>2 DEF SegEnd
    <3>3. QED
      BY <3>1, <3>2
  <2>5. QED
    BY <2>2, <2>3, <2>4
<1>5. SegPart(o, f2, Len(o))
  <2>1. o[Len(o)].loop = l /\ Len(o) \in StartsOf(o)
    BY <1>1, OpenFields DEF Open
  <2>2. /\ l \in Loop /\ ConfiguredAt(o, Len(o), l)
        /\ \A j \in SegmentOf(o, f, Len(o)) : f[j].inst \in LoopInsts[l]
        /\ \A j \in SegmentOf(o, f, Len(o)) :
             (\A i \in SegmentOf(o, f, Len(o)) : j <= i) => IsStaticInstLoopHead(l, f[j].inst)
    BY <2>1 DEF Parts, SegPart
  <2>3. \A j \in SegmentOf(o, f, Len(o)) : j \in 1 .. Len(f) /\ f2[j] = f[j]
    <3>1. MovedOf(f) \in SUBSET (1 .. Len(f))
      BY <1>1, StreamFields
    <3>2. QED
      BY ONLY <1>1, <3>1 DEF SegmentOf
  <2>4. \A j \in SegmentOf(o, f2, Len(o)) : f2[j].inst \in LoopInsts[l]
    BY <1>2, <2>2, <2>3 DEF Fits
  <2>5. ASSUME NEW j \in SegmentOf(o, f2, Len(o)), \A i \in SegmentOf(o, f2, Len(o)) : j <= i
        PROVE  IsStaticInstLoopHead(l, f2[j].inst)
    <3>1. CASE SegmentOf(o, f, Len(o)) = {}
      <4>1. SegmentOf(o, f2, Len(o)) = Len(f) + 1 .. Len(f2)
        BY ONLY <1>2, <3>1
      <4>2. j = Len(f) + 1
        <5>1. j \in Len(f) + 1 .. Len(f2) /\ \A i \in Len(f) + 1 .. Len(f2) : j <= i
          BY <2>5, <4>1
        <5>2. QED
          BY ONLY <1>1, <5>1
      <4>3. QED
        BY <3>1, <4>1, <4>2 DEF Fits
    <3>2. CASE SegmentOf(o, f, Len(o)) # {}
      <4>1. PICK i \in SegmentOf(o, f, Len(o)) : TRUE
        BY <3>2
      <4>2. j <= i /\ i \in 1 .. Len(f)
        BY <1>2, <2>3, <2>5
      <4>3. j \in SegmentOf(o, f, Len(o))
        BY ONLY <1>1, <1>2, <4>2, j \in SegmentOf(o, f2, Len(o))
      <4>4. \A h \in SegmentOf(o, f, Len(o)) : j <= h
        BY <1>2, <2>5
      <4>5. QED
        BY <2>2, <2>3, <4>3, <4>4
    <3>3. QED
      BY <3>1, <3>2
  <2>6. QED
    BY <2>1, <2>2, <2>4, <2>5 DEF SegPart
<1>6. SegEnd(o, f2, t, x, Len(o))
  <2>1. UpTo(StartsOf(o), Len(o)) = Cardinality(EndsOf(f)) + 1 /\ Cardinality(EndsOf(f)) \in Nat
    BY ONLY <1>1, IsSeq(o), Open(o, f, l), OpenFields
  <2>2. ~ (UpTo(StartsOf(o), Len(o)) <= Cardinality(EndsOf(f2)))
    BY ONLY <2>1, EndsOf(f2) = EndsOf(f)
  <2>3. QED
    BY ONLY <2>2 DEF SegEnd
<1>7. QED
  BY <1>4, <1>5, <1>6 DEF Parts, SizesBefore, Ended

LEMMA AllSized ==
  ASSUME NEW o, NEW f, SizesBefore(o, f), SegSize(o, f, Len(o))
  PROVE  Sizes(o, f)
BY DEF SizesBefore, Sizes

(* A segment ends. *)
LEMMA EndWhole ==
  ASSUME NEW o, IsSeq(o), NEW f, NEW l, Open(o, f, l), NEW e, NEW f2, TokenAdded(f2, f, e),
         Parts(o, f), Sizes(o, f), NEW t, NEW x, Ended(o, f, t, x),
         NEW m, EndsAt(f, m), LeftAfter(t, x, m, l)
  PROVE  Parts(o, f2) /\ Sizes(o, f2) /\ Ended(o, f2, t, x)
<1>1. /\ Longer(f2, f) /\ IsSeq(f) /\ IsSeq(f2) /\ Longer(o, o) /\ MovedOf(f2) = MovedOf(f)
      /\ Len(f) \in Nat /\ Len(o) \in Nat
  BY TokenFields, SelfLonger, SeqFields DEF TokenAdded
<1>2. /\ StartsOf(o) \in SUBSET (1 .. Len(o)) /\ MovedOf(f) \in SUBSET (1 .. Len(f))
      /\ EndsOf(f) \in SUBSET (1 .. Len(f))
  BY <1>1, StreamFields
<1>3. ASSUME NEW k PROVE SegmentOf(o, f2, k) = SegmentOf(o, f, k)
  <2>1. \A j \in MovedOf(f) : UpTo(EndsOf(f2), j) = UpTo(EndsOf(f), j)
    BY ONLY <1>1, <1>2, LongerUpTo
  <2>2. QED
    BY ONLY <1>1, <2>1 DEF SegmentOf
<1>4. ASSUME NEW k \in StartsOf(o)
      PROVE  SegPart(o, f2, k) /\ SegSize(o, f2, k)
  <2>1. k \in 1 .. Len(o) /\ SegmentOf(o, f2, k) = SegmentOf(o, f, k)
    BY <1>2, <1>3
  <2>2. SegPart(o, f2, k)
    <3>1. SegPart(o, f, k)
      BY DEF Parts
    <3>2. QED
      BY <1>1, <2>1, <3>1, SamePart
  <2>3. SegSize(o, f2, k)
    <3>1. SegSize(o, f, k)
      BY DEF Sizes
    <3>2. QED
      BY ONLY <2>1, <3>1 DEF SegSize
  <2>4. QED
    BY <2>2, <2>3
<1>5. ASSUME NEW k \in StartsOf(o), k # Len(o) PROVE SegEnd(o, f2, t, x, k)
  <2>1. k \in 1 .. Len(o) /\ SegmentOf(o, f2, k) = SegmentOf(o, f, k)
    BY <1>2, <1>3
  <2>2. UpTo(StartsOf(o), k) <= Cardinality(EndsOf(f))
    BY ONLY <1>1, <1>5, IsSeq(o), Open(o, f, l), OpenFields
  <2>3. EndRight(SegmentOf(o, f, k), f, t, x, o[k].loop)
    BY <2>2 DEF Ended, SegEnd
  <2>4. EndRight(SegmentOf(o, f2, k), f2, t, x, o[k].loop)
    BY <1>1, <2>1, <2>3, EndSame
  <2>5. QED
    BY ONLY <2>4 DEF SegEnd
<1>6. SegEnd(o, f2, t, x, Len(o))
  <2>1. /\ UpTo(StartsOf(o), Len(o)) = Cardinality(EndsOf(f)) + 1
        /\ UpTo(EndsOf(f), Len(f)) = Cardinality(EndsOf(f))
    BY ONLY <1>1, <1>2, IsSeq(o), Open(o, f, l), OpenFields, UpToFields
  <2>2. Len(f) \in MovedOf(f) /\ f[Len(f)].pos = m
    BY DEF EndsAt
  <2>3. Len(f) \in SegmentOf(o, f, Len(o))
    BY ONLY <2>1, <2>2 DEF SegmentOf
  <2>4. \A j \in SegmentOf(o, f, Len(o)) : Len(f) <= j => j = Len(f)
    <3>1. \A j \in MovedOf(f) : Len(f) <= j => j = Len(f)
      BY ONLY <1>1, <1>2
    <3>2. QED
      BY ONLY <3>1 DEF SegmentOf
  <2>5. f2[Len(f)] = f[Len(f)] /\ o[Len(o)].loop = l
    BY <1>1, <1>2, <2>2, LongerFields DEF Open
  <2>6. EndRight(SegmentOf(o, f, Len(o)), f2, t, x, l)
    BY ONLY <2>2, <2>3, <2>4, <2>5, LeftAfter(t, x, m, l) DEF EndRight
  <2>7. QED
    BY ONLY <1>3, <2>5, <2>6 DEF SegEnd
<1>7. QED
  BY <1>4, <1>5, <1>6 DEF Parts, Sizes, Ended

(* The trace goes on, or is over. *)
LEMMA EndedLater ==
  ASSUME NEW o, NEW f, NEW t, NEW t2, Longer(t2, t), Within(f, Len(t)), IsSeq(f), Ended(o, f, t, 0)
  PROVE  Ended(o, f, t2, 0)
<1>1. ASSUME NEW p \in Nat, NEW l, LeftAfter(t, 0, p, l)
      PROVE  LeftAfter(t2, 0, p, l)
  <2>1. Len(t) \in Nat /\ Len(t2) \in Nat /\ Len(t) <= Len(t2) /\ \A k \in 1 .. Len(t) : t2[k] = t[k]
    BY LongerFields
  <2>2. p < Len(t) /\ t[p + 1].inst \notin LoopInsts[l]
    BY <1>1 DEF LeftAfter
  <2>3. p + 1 \in 1 .. Len(t) /\ p < Len(t2)
    BY ONLY <2>1, <2>2, p \in Nat
  <2>4. t2[p + 1] = t[p + 1]
    BY ONLY <2>1, <2>3
  <2>5. QED
    BY ONLY <2>2, <2>3, <2>4 DEF LeftAfter
<1>2. ASSUME NEW k, NEW j \in SegmentOf(o, f, k) PROVE f[j].pos \in Nat
  <2>1. j \in DOMAIN f
    BY DEF SegmentOf, MovedOf
  <2>2. f[j].pos \in 0 .. Len(t)
    BY <2>1 DEF Within
  <2>3. Len(t) \in Nat
    BY LongerFields
  <2>4. QED
    BY ONLY <2>2, <2>3
<1>3. QED
  BY <1>1, <1>2 DEF Ended, SegEnd, EndRight

LEMMA EndedOver ==
  ASSUME NEW o, NEW f, NEW t, NEW x, Ended(o, f, t, 0)
  PROVE  Ended(o, f, t, x)
BY DEF Ended, SegEnd, EndRight, LeftAfter

-----------------------------------------------------------------------------
(* The statistics *)

LEMMA KeptCounts ==
  ASSUME NEW o, NEW o2, Longer(o2, o), NEW name, TokensOf(o2, name) = TokensOf(o, name), NEW l
  PROVE  LoopTokens(o2, name, l) = LoopTokens(o, name, l)
<1>1. IsSeq(o) /\ \A k \in 1 .. Len(o) : o2[k] = o[k]
  BY LongerFields
<1>2. TokensOf(o, name) \in SUBSET (1 .. Len(o))
  BY <1>1, StreamTokens
<1>3. QED
  BY ONLY <1>1, <1>2, TokensOf(o2, name) = TokensOf(o, name) DEF LoopTokens

LEMMA KeptMoved ==
  ASSUME NEW o, NEW o2, Longer(o2, o), StartsOf(o2) = StartsOf(o), NEW f, NEW l
  PROVE  MovedFor(o2, f, l) = MovedFor(o, f, l)
<1>1. LoopTokens(o2, "df-start", l) = LoopTokens(o, "df-start", l)
  BY KeptCounts DEF StartsOf
<1>2. \A k \in LoopTokens(o, "df-start", l) : SegmentOf(o2, f, k) = SegmentOf(o, f, k)
  <2>1. LoopTokens(o, "df-start", l) \subseteq 1 .. Len(o)
    BY LongerFields, StreamTokens DEF LoopTokens
  <2>2. QED
    BY <2>1, SegmentsStay
<1>3. QED
  BY ONLY <1>1, <1>2 DEF MovedFor

LEMMA TokenCounts ==
  ASSUME NEW o, NEW e, NEW o2, TokenAdded(o2, o, e), NEW name, NEW l
  PROVE  /\ Cardinality(LoopTokens(o, name, l)) \in Nat
         /\ IsToken(e, name) /\ e.loop = l =>
              Cardinality(LoopTokens(o2, name, l)) = Cardinality(LoopTokens(o, name, l)) + 1
         /\ ~(IsToken(e, name) /\ e.loop = l) =>
              LoopTokens(o2, name, l) = LoopTokens(o, name, l)
<1>1. PICK p \in Nat, r \in Nat : p = Len(o) /\ r = p + 1
  BY TokenFields
<1>2. IsSeq(o) /\ Len(o2) = r /\ o2[r] = e /\ \A k \in 1 .. p : o2[k] = o[k]
  BY <1>1, TokenFields, LongerFields
<1>3. TokensOf(o, name) \in SUBSET (1 .. p) /\ r \notin TokensOf(o, name)
  BY <1>1, <1>2, StreamTokens
<1>4. TokensOf(o2, name) = IF IsToken(e, name) THEN TokensOf(o, name) \cup {r} ELSE TokensOf(o, name)
  BY <1>2, TokenNames
<1>5. LoopTokens(o, name, l) \in SUBSET (1 .. p)
  BY ONLY <1>3 DEF LoopTokens
<1>6. CASE IsToken(e, name) /\ e.loop = l
  <2>1. LoopTokens(o2, name, l) = LoopTokens(o, name, l) \cup {r}
    BY ONLY <1>2, <1>3, <1>4, <1>6 DEF LoopTokens
  <2>2. QED
    BY ONLY <1>1, <1>5, <1>6, <2>1, OneMore, UpToFields
<1>7. CASE ~(IsToken(e, name) /\ e.loop = l)
  <2>1. LoopTokens(o2, name, l) = LoopTokens(o, name, l)
    BY ONLY <1>2, <1>3, <1>4, <1>7 DEF LoopTokens
  <2>2. QED
    BY ONLY <1>1, <1>5, <1>7, <2>1, UpToFields
<1>8. QED
  BY <1>6, <1>7

(* A start token that no instruction belongs to yet. *)
LEMMA StartMoved ==
  ASSUME NEW o, NEW e, NEW o2, TokenAdded(o2, o, e), NEW f, SegmentOf(o2, f, Len(o2)) = {}, NEW l
  PROVE  MovedFor(o2, f, l) = MovedFor(o, f, l)
<1>1. PICK p \in Nat, r \in Nat : p = Len(o) /\ r = p + 1
  BY TokenFields
<1>2. IsSeq(o) /\ Longer(o2, o) /\ Len(o2) = r /\ \A k \in 1 .. p : o2[k] = o[k]
  BY <1>1, TokenFields, LongerFields
<1>3. LoopTokens(o, "df-start", l) \subseteq 1 .. p
  BY <1>1, <1>2, StreamTokens DEF LoopTokens
<1>4. LoopTokens(o2, "df-start", l) \cap 1 .. p = LoopTokens(o, "df-start", l)
  <2>1. TokensOf(o2, "df-start") \cap 1 .. p = TokensOf(o, "df-start")
    BY <1>1, <1>2, LongerTokens
  <2>2. QED
    BY ONLY <1>2, <2>1 DEF LoopTokens
<1>5. LoopTokens(o2, "df-start", l) \subseteq (1 .. p) \cup {r}
  <2>1. TokensOf(o2, "df-start") \in SUBSET (1 .. r)
    BY <1>2, TokenFields, StreamTokens
  <2>2. \A k \in 1 .. r : k \in 1 .. p \/ k = r
    BY ONLY <1>1
  <2>3. QED
    BY ONLY <2>1, <2>2 DEF LoopTokens
<1>6. \A k \in 1 .. p : SegmentOf(o2, f, k) = SegmentOf(o, f, k)
  BY <1>1, <1>2, SegmentsStay
<1>7. \A j : j \in MovedFor(o2, f, l) <=> j \in MovedFor(o, f, l)
  BY ONLY <1>2, <1>3, <1>4, <1>5, <1>6, SegmentOf(o2, f, Len(o2)) = {} DEF MovedFor
<1>8. QED
  BY ONLY <1>7

LEMMA MovedOther ==
  ASSUME NEW o, IsSeq(o), NEW f, NEW l, Open(o, f, l), NEW f2, Longer(f2, f), EndsOf(f2) = EndsOf(f),
         MovedOf(f2) = MovedOf(f) \cup (Len(f) + 1 .. Len(f2)), NEW m, m # l
  PROVE  MovedFor(o, f2, m) = MovedFor(o, f, m)
<1>1. \A k \in StartsOf(o) : k # Len(o) => SegmentOf(o, f2, k) = SegmentOf(o, f, k)
  BY MovedSegments
<1>2. o[Len(o)].loop = l
  BY DEF Open
<1>3. \A k \in LoopTokens(o, "df-start", m) : k \in StartsOf(o)
  BY DEF LoopTokens, StartsOf
<1>4. Len(o) \notin LoopTokens(o, "df-start", m)
  BY <1>2 DEF LoopTokens
<1>5. \A k \in LoopTokens(o, "df-start", m) : SegmentOf(o, f2, k) = SegmentOf(o, f, k)
  BY ONLY <1>1, <1>3, <1>4
<1>6. QED
  BY ONLY <1>5 DEF MovedFor

LEMMA MovedCounts ==
  ASSUME NEW o, IsSeq(o), NEW f, NEW l, Open(o, f, l), NEW f2, Longer(f2, f), EndsOf(f2) = EndsOf(f),
         MovedOf(f2) = MovedOf(f) \cup (Len(f) + 1 .. Len(f2)), NEW c \in Nat, Len(f2) = Len(f) + c
  PROVE  Cardinality(MovedFor(o, f2, l)) = Cardinality(MovedFor(o, f, l)) + c
<1>1. IsSeq(f) /\ Len(f) \in Nat /\ Len(f2) \in Nat
  BY LongerFields
<1>2. /\ SegmentOf(o, f2, Len(o)) = SegmentOf(o, f, Len(o)) \cup (Len(f) + 1 .. Len(f2))
      /\ \A k \in StartsOf(o) : k # Len(o) => SegmentOf(o, f2, k) = SegmentOf(o, f, k)
  BY MovedSegments
<1>3. MovedFor(o, f, l) \in SUBSET (1 .. Len(f))
  <2>1. MovedOf(f) \in SUBSET (1 .. Len(f))
    BY <1>1, StreamFields
  <2>2. QED
    BY ONLY <2>1 DEF MovedFor, SegmentOf
<1>4. Len(o) \in LoopTokens(o, "df-start", l)
  <2>1. Len(o) \in StartsOf(o) /\ o[Len(o)].loop = l
    BY <1>1, OpenFields DEF Open
  <2>2. QED
    BY <2>1 DEF LoopTokens, StartsOf
<1>5. \A k \in LoopTokens(o, "df-start", l) : k \in StartsOf(o)
  BY DEF LoopTokens, StartsOf
<1>6. \A j : j \in MovedFor(o, f2, l) <=> j \in MovedFor(o, f, l) \cup (Len(f) + 1 .. Len(f2))
  BY ONLY <1>2, <1>4, <1>5 DEF MovedFor
<1>7. PICK n \in Nat, m \in Nat : n = Len(f) /\ m = Len(f2)
  BY <1>1
<1>8. PICK T \in SUBSET (1 .. n) : T = MovedFor(o, f, l)
  BY ONLY <1>3, <1>7
<1>9. MovedFor(o, f2, l) = T \cup (n + 1 .. m)
  BY ONLY <1>6, <1>7, <1>8
<1>10. m = n + c
  BY ONLY <1>7, Len(f2) = Len(f) + c
<1>11. Cardinality(T \cup (n + 1 .. m)) = Cardinality(T) + c
  BY ONLY <1>10, n \in Nat, m \in Nat, c \in Nat, T \in SUBSET (1 .. n), RangeMore
<1>12. QED
  BY ONLY <1>8, <1>9, <1>11

LEMMA EndMoved ==
  ASSUME NEW o, NEW f, NEW e, NEW f2, TokenAdded(f2, f, e), NEW l
  PROVE  MovedFor(o, f2, l) = MovedFor(o, f, l)
<1>1. Longer(f2, f) /\ IsSeq(f) /\ MovedOf(f2) = MovedOf(f)
  BY TokenFields DEF TokenAdded
<1>2. MovedOf(f) \in SUBSET (1 .. Len(f))
  BY <1>1, StreamFields
<1>3. \A j \in MovedOf(f) : UpTo(EndsOf(f2), j) = UpTo(EndsOf(f), j)
  BY ONLY <1>1, <1>2, LongerUpTo
<1>4. \A k : SegmentOf(o, f2, k) = SegmentOf(o, f, k)
  BY ONLY <1>1, <1>3 DEF SegmentOf
<1>5. QED
  BY ONLY <1>4 DEF MovedFor

-----------------------------------------------------------------------------
(* The loops *)

LEMMA EnclosingFields ==
  ASSUME NEW l \in Loop
  PROVE  /\ l \in Enclosing[l] /\ Enclosing[l] \subseteq Loop
         /\ \A m \in Enclosing[l] : Enclosing[m] \subseteq Enclosing[l]
<1>1. ASSUME NEW m \in Loop
      PROVE  Enclosing[m] = {n \in Loop : \A S \in SUBSET Loop :
               m \in S /\ (\A h \in S : Parent[h] \in S \cup {NoLoop}) => n \in S}
  BY DEF Enclosing
<1>2. l \in Enclosing[l] /\ Enclosing[l] \subseteq Loop
  BY <1>1
<1>3. ASSUME NEW m \in Enclosing[l], NEW n \in Enclosing[m] PROVE n \in Enclosing[l]
  <2>1. m \in Loop
    BY <1>2
  <2>2. n \in Loop
    BY <1>1, <2>1
  <2>3. ASSUME NEW S \in SUBSET Loop, l \in S, \A h \in S : Parent[h] \in S \cup {NoLoop}
        PROVE  n \in S
    <3>1. m \in S
      BY <1>1, <2>3
    <3>2. QED
      BY <1>1, <2>1, <2>3, <3>1
  <2>4. QED
    BY <1>1, <2>2, <2>3
<1>4. QED
  BY <1>2, <1>3

LEMMA InLoop ==
  ASSUME NEW l \in Loop, NEW i \in Inst
  PROVE  i \in LoopInsts[l] <=> LoopContains(l, LoopOf[Code[i].bb])
<1>1. Code[i].bb \in DOMAIN LoopOf
  BY LoopNestAssumption DEF Block
<1>2. LoopInsts[l] = {j \in Inst : Code[j].bb \in LoopBlocks[l]}
  BY DEF LoopInsts
<1>3. LoopBlocks[l] = {b \in DOMAIN LoopOf : LoopContains(l, LoopOf[b])}
  BY DEF LoopBlocks
<1>4. QED
  BY ONLY <1>1, <1>2, <1>3, i \in Inst

LEMMA LoopAt ==
  ASSUME NEW i \in Inst
  PROVE  LoopOf[Code[i].bb] \in Loop \cup {NoLoop}
BY LoopNestAssumption DEF Block

(* A loop in a loop without calls has none either. *)
LEMMA InnerContinuous ==
  ASSUME NEW l \in Loop, IsLoopContinuous(l), NEW m \in Loop, l \in Enclosing[m]
  PROVE  IsLoopContinuous(m)
<1>1. ASSUME NEW i \in LoopInsts[m] PROVE i \in LoopInsts[l]
  <2>1. i \in Inst
    BY DEF LoopInsts
  <2>2. LoopContains(m, LoopOf[Code[i].bb])
    BY <2>1, InLoop
  <2>3. PICK n : n = LoopOf[Code[i].bb]
    OBVIOUS
  <2>4. n \in Loop /\ m \in Enclosing[n]
    BY <2>1, <2>2, <2>3, LoopAt DEF LoopContains
  <2>5. l \in Enclosing[n]
    BY <2>4, EnclosingFields
  <2>6. LoopContains(l, n)
    BY <2>2, <2>3, <2>5 DEF LoopContains
  <2>7. QED
    BY <2>1, <2>3, <2>6, InLoop
<1>2. QED
  BY <1>1 DEF IsLoopContinuous

(* The instruction just loaded, if it is one of the program. *)
FreshInst == Fresh.inst

LEMMA NewLoopFields ==
  ASSUME FreshInst \in Inst
  PROVE  /\ NewLoop # NoLoop =>
              /\ NewLoop \in Loop /\ IsLoopDataFlow(NewLoop) /\ NewLoop = LoopOf[Code[FreshInst].bb]
              /\ FreshInst \in LoopInsts[NewLoop]
         /\ NewLoop = NoLoop => LoopOf[Code[FreshInst].bb] = NoLoop \/ ~IsLoopDataFlow(LoopOf[Code[FreshInst].bb])
<1>1. PICK l : l = LoopOf[Code[FreshInst].bb]
  OBVIOUS
<1>2. l \in Loop \cup {NoLoop}
  BY <1>1, LoopAt
<1>3. NewLoop = IF l # NoLoop /\ IsLoopDataFlow(l) THEN l ELSE NoLoop
  BY <1>1 DEF NewLoop, FreshInst
<1>4. l # NoLoop => FreshInst \in LoopInsts[l]
  <2> SUFFICES ASSUME l # NoLoop PROVE FreshInst \in LoopInsts[l]
    OBVIOUS
  <2>1. l \in Loop /\ l \in Enclosing[l]
    BY <1>2, EnclosingFields
  <2>2. LoopContains(l, l)
    BY <2>1 DEF LoopContains
  <2>3. QED
    BY <1>1, <2>1, <2>2, InLoop
<1>5. QED
  BY ONLY <1>1, <1>2, <1>3, <1>4

(* A candidate around the instruction just loaded contains it. *)
LEMMA InCurrent ==
  ASSUME FreshInst \in Inst, IsCandidate(currentLoop)
  PROVE  InCurrentLoop <=> FreshInst \in LoopInsts[currentLoop]
<1>1. currentLoop \in Loop /\ IsLoopContinuous(currentLoop)
  BY DEF IsCandidate, IsLoopDataFlow
<1>2. PICK l : l = LoopOf[Code[FreshInst].bb]
  OBVIOUS
<1>3. l \in Loop \cup {NoLoop}
  BY <1>2, LoopAt
<1>4. FreshInst \in LoopInsts[currentLoop] <=> LoopContains(currentLoop, l)
  BY <1>1, <1>2, InLoop
<1>5. NewLoop = IF l # NoLoop /\ IsLoopDataFlow(l) THEN l ELSE NoLoop
  BY <1>2 DEF NewLoop, FreshInst
<1>6. ASSUME LoopContains(currentLoop, l) PROVE NewLoop = l
  <2>1. l \in Loop /\ currentLoop \in Enclosing[l]
    BY <1>3, <1>6 DEF LoopContains
  <2>2. IsLoopContinuous(l)
    BY <1>1, <2>1, InnerContinuous
  <2>3. QED
    BY <1>5, <2>1, <2>2, LoopNestAssumption DEF IsLoopDataFlow
<1>7. ASSUME LoopContains(currentLoop, NewLoop) PROVE NewLoop = l
  <2>1. NewLoop # NoLoop
    BY <1>7 DEF LoopContains
  <2>2. QED
    BY ONLY <1>5, <2>1
<1>8. QED
  BY <1>4, <1>6, <1>7 DEF InCurrentLoop

-----------------------------------------------------------------------------
(* What is serialized *)

(* c holds the n instructions after the g-th. *)
Chunk(c, g, n) ==
  /\ IsSeq(c) /\ Len(c) = n /\ n \in Nat /\ g \in Nat
  /\ \A i \in 1 .. n : c[i].pos = g + i

LEMMA ChunkExtends ==
  ASSUME NEW s, IsSeq(s), NEW c, NEW g, NEW n, Chunk(c, g, n), NEW q, q = g + n, NEW s2, s2 = s \o c
  PROVE  Extends(s2, s, g, q) /\ Longer(s2, s) /\ Len(s2) = Len(s) + n
<1>1. IsSeq(c) /\ Len(c) = n /\ n \in Nat /\ g \in Nat /\ \A i \in 1 .. n : c[i].pos = g + i
  BY DEF Chunk
<1>2. PICK p \in Nat : p = Len(s)
  BY SeqFields
<1>3. Longer(s2, s) /\ Len(s2) = p + n /\ \A i \in 1 .. n : s2[p + i] = c[i]
  BY ONLY <1>1, <1>2, IsSeq(s), s2 = s \o c, ConcatLonger
<1>4. QED
  BY ONLY <1>1, <1>2, <1>3, q = g + n DEF Extends

LEMMA ChunkEntry ==
  ASSUME NEW s, IsSeq(s), NEW c, NEW g, NEW n, Chunk(c, g, n), NEW i \in 1 .. n, NEW k, k = Len(s) + i
  PROVE  (s \o c)[k] = c[i]
<1>1. IsSeq(c) /\ Len(c) = n /\ n \in Nat
  BY DEF Chunk
<1>2. PICK p \in Nat : p = Len(s)
  BY SeqFields
<1>3. \A h \in 1 .. n : (s \o c)[p + h] = c[h]
  BY ONLY <1>1, <1>2, IsSeq(s), ConcatLonger
<1>4. QED
  BY ONLY <1>2, <1>3, i \in 1 .. n, k = Len(s) + i

LEMMA WrapFields ==
  ASSUME NEW d, NEW last
  PROVE  WrapWithAbsDataFlow(d, last).pos = d.pos /\ WrapWithAbsDataFlow(d, last).inst = d.inst
BY DEF WrapWithAbsDataFlow

(* The list but its last entry, as it is and as the accelerator sees it.    *)
LEMMA FrontFields ==
  ASSUME NEW s, IsSeq(s), s # <<>>, NEW n, n = Len(s) - 1
  PROVE  /\ IsSeq(Front(s)) /\ Len(Front(s)) = n /\ n \in Nat
         /\ \A i \in 1 .. n : Front(s)[i] = s[i]
<1>1. PICK S : s \in Seq(S)
  BY DEF IsSeq
<1>2. Len(s) \in Nat /\ Len(s) # 0 /\ DOMAIN s = 1 .. Len(s)
  BY SeqFields
<1>3. n \in Nat /\ n \in Int /\ 1 \in Int /\ n = n - 1 + 1 /\ (1 <= n \/ n = 0)
  BY <1>2
<1>4. \A i \in 1 .. n : s[i] \in S
  <2>1. \A i \in 1 .. n : i \in 1 .. Len(s)
    BY ONLY <1>2, n = Len(s) - 1
  <2>2. QED
    BY ONLY <1>1, <2>1, ElementOfSeq
<1>5. Front(s) = SubSeq(s, 1, n)
  BY DEF Front
<1>6. /\ SubSeq(s, 1, n) \in Seq(S)
      /\ Len(SubSeq(s, 1, n)) = IF 1 <= n THEN n - 1 + 1 ELSE 0
      /\ \A i \in 1 .. n - 1 + 1 : SubSeq(s, 1, n)[i] = s[1 + i - 1]
  BY ONLY <1>3, <1>4, SubSeqProperties
<1>7. Len(SubSeq(s, 1, n)) = n
  BY ONLY <1>3, <1>6
<1>8. \A i \in 1 .. n : SubSeq(s, 1, n)[i] = s[i]
  <2>1. \A i \in 1 .. n : 1 + i - 1 = i /\ i \in 1 .. n - 1 + 1
    BY ONLY <1>3
  <2>2. QED
    BY ONLY <1>6, <2>1
<1>9. QED
  BY <1>3, <1>5, <1>6, <1>7, <1>8 DEF IsSeq

LEMMA WrappedFields ==
  ASSUME NEW c, IsSeq(c), NEW last, NEW s, s = AddDynamicInsts(c, last).stream
  PROVE  /\ IsSeq(s) /\ Len(s) = Len(c)
         /\ \A i \in 1 .. Len(c) : s[i].pos = c[i].pos /\ s[i].inst = c[i].inst
<1>1. PICK n \in Nat : n = Len(c) /\ DOMAIN c = 1 .. n
  BY SeqFields
<1>2. s = [k \in DOMAIN c |-> WrapWithAbsDataFlow(c[k], MapAfter(c, k - 1, last))]
  BY DEF AddDynamicInsts
<1>3. s = [k \in 1 .. n |-> WrapWithAbsDataFlow(c[k], MapAfter(c, k - 1, last))]
  BY ONLY <1>1, <1>2
<1>4. PICK S : S = {s[k] : k \in 1 .. n}
  OBVIOUS
<1>5. s \in [1 .. n -> S]
  <2>1. DOMAIN s = 1 .. n
    BY ONLY <1>3
  <2>2. \A k \in 1 .. n : s[k] \in S
    BY ONLY <1>4
  <2>3. s = [k \in 1 .. n |-> s[k]]
    BY ONLY <1>3
  <2>4. QED
    BY ONLY <2>2, <2>3
<1>6. s \in Seq(S) /\ Len(s) = n
  BY ONLY <1>5, n \in Nat, SeqDef, LenProperties
<1>7. \A i \in 1 .. n : s[i].pos = c[i].pos /\ s[i].inst = c[i].inst
  BY ONLY <1>3, WrapFields
<1>8. QED
  BY ONLY <1>1, <1>6, <1>7 DEF IsSeq

(* The list but its last entry holds the instructions that follow those     *)
(* given.                                                                   *)
LEMMA FrontChunk ==
  ASSUME IsSeq(seen), ListOK, list # <<>>, NEW n, n = Len(list) - 1
  PROVE  /\ Chunk(Front(list), Given, n)
         /\ \A last : Chunk(AddDynamicInsts(Front(list), last).stream, Given, n)
         /\ \A last : \A i \in 1 .. n :
              AddDynamicInsts(Front(list), last).stream[i].inst = list[i].inst
<1>1. /\ IsSeq(list) /\ Len(list) <= Len(seen) /\ Len(seen) \in Nat /\ Len(list) \in Nat
      /\ \A i \in 1 .. Len(list) : list[i].pos = Given + i
  BY SeqFields DEF ListOK, EntryFor
<1>2. Given \in Nat
  BY <1>1 DEF Given
<1>3. /\ IsSeq(Front(list)) /\ Len(Front(list)) = n /\ n \in Nat
      /\ \A i \in 1 .. n : Front(list)[i] = list[i]
  BY ONLY <1>1, list # <<>>, n = Len(list) - 1, FrontFields
<1>4. \A i \in 1 .. n : i \in 1 .. Len(list)
  BY <1>1, <1>3
<1>5. \A i \in 1 .. n : Front(list)[i].pos = Given + i
  BY ONLY <1>1, <1>3, <1>4
<1>6. Chunk(Front(list), Given, n)
  BY ONLY <1>2, <1>3, <1>5 DEF Chunk
<1>7. ASSUME NEW last
      PROVE  /\ Chunk(AddDynamicInsts(Front(list), last).stream, Given, n)
             /\ \A i \in 1 .. n : AddDynamicInsts(Front(list), last).stream[i].inst = list[i].inst
  <2>1. PICK s : s = AddDynamicInsts(Front(list), last).stream
    OBVIOUS
  <2>2. /\ IsSeq(s) /\ Len(s) = n
        /\ \A i \in 1 .. n : s[i].pos = Front(list)[i].pos /\ s[i].inst = Front(list)[i].inst
    BY ONLY <1>3, <2>1, WrappedFields
  <2>3. Chunk(s, Given, n)
    BY ONLY <1>2, <1>3, <1>5, <2>2 DEF Chunk
  <2>4. QED
    BY ONLY <1>3, <2>1, <2>2, <2>3
<1>8. QED
  BY <1>6, <1>7

-----------------------------------------------------------------------------
(* What is loaded *)

LEMMA LoadProgram == ASSUME NEW A, LoadOneDynamicInst(A) PROVE [ProgramNext]_program
<1>1. CASE TraceLoad(A) \/ TraceStore(A)
  BY <1>1 DEF TraceLoad, TraceStore, Reads, ProgramNext
<1>2. CASE TraceBranch
  BY <1>2 DEF TraceBranch, Reads, ProgramNext, Block
<1>3. CASE TraceEnter
  BY <1>3 DEF TraceEnter, Reads, ProgramNext
<1>4. CASE Untraced
  BY <1>4 DEF Untraced, ProgramNext
<1>5. CASE TracePhi \/ TraceOperation \/ TraceCall \/ TraceReturn
  BY <1>5 DEF TracePhi, TraceOperation, TraceCall, TraceReturn, Reads, ProgramNext
<1>6. QED
  BY <1>1, <1>2, <1>3, <1>4, <1>5 DEF LoadOneDynamicInst

(* An instruction enters the trace and the list, or neither. *)
Entered(e, t) ==
  /\ seen' = Append(seen, t) /\ list' = Append(list, e) /\ currentId' = currentId + 1
  /\ e.pos = Len(seen) + 1 /\ e.inst = t.inst /\ t.inst \in Inst
NotEntered == UNCHANGED <<seen, list, currentId>>
Loaded == ~aborted /\ (NotEntered \/ \E e, t : Entered(e, t))

LEMMA InstLoads ==
  ASSUME ProgramInv, ~aborted', NEW ops, InCode(ops), NEW access, Execute(access),
         NEW result, WhenTracing(ParseCurrent(result, access))
  PROVE  Loaded
<1>1. CASE tracing = "on" /\ ~aborted
  <2>1. PICK t : t = Truth(access)
    OBVIOUS
  <2>2. seen' = Append(seen, t) /\ t.inst = Current
    BY <1>1, <2>1 DEF Execute, Truth
  <2>3. PICK bytes : bytes = [a \in Bytes(access) |-> memory[a]]
    OBVIOUS
  <2>4. ParseInst(Current, Operands, result, access, bytes)
    BY <1>1, <2>3 DEF WhenTracing, ParseCurrent
  <2>5. PICK reg, iv, rv, ctr, pdf, mem :
          list' = Append(list,
            [id |-> currentId + 1, pos |-> Len(seen) + 1, inst |-> Current, access |-> access,
             bytes |-> bytes, reg |-> reg, iv |-> iv, rv |-> rv, ctr |-> ctr, pdf |-> pdf, mem |-> mem])
    BY <2>4 DEF ParseInst
  <2>6. PICK e : e =
            [id |-> currentId + 1, pos |-> Len(seen) + 1, inst |-> Current, access |-> access,
             bytes |-> bytes, reg |-> reg, iv |-> iv, rv |-> rv, ctr |-> ctr, pdf |-> pdf, mem |-> mem]
    OBVIOUS
  <2>7. list' = Append(list, e) /\ e.pos = Len(seen) + 1 /\ e.inst = Current
    BY ONLY <2>5, <2>6
  <2>8. currentId' = currentId + 1
    BY <2>4 DEF ParseInst
  <2>9. Current \in Inst
    BY InCodeFields
  <2>10. QED
    BY <1>1, <2>2, <2>7, <2>8, <2>9 DEF Loaded, Entered
<1>2. CASE ~ (tracing = "on" /\ ~aborted)
  <2>1. UNCHANGED graph
    BY <1>2 DEF WhenTracing
  <2>2. ~aborted /\ UNCHANGED <<list, currentId>>
    BY <2>1 DEF graph
  <2>3. UNCHANGED seen
    BY <1>2, <2>2 DEF Execute
  <2>4. QED
    BY <2>2, <2>3 DEF Loaded, NotEntered
<1>3. QED
  BY <1>1, <1>2

LEMMA LoadReads ==
  ASSUME ProgramInv, ~aborted', NEW A, LoadOneDynamicInst(A)
  PROVE  Loaded
<1>1. CASE TracePhi
  <2>1. Phi /\ WhenTracing(ParsePhi(Current, real'[Len(real)].val[Current]))
    BY <1>1 DEF TracePhi, Reads
  <2>2. UNCHANGED <<list, currentId, aborted>>
    BY <2>1 DEF WhenTracing, ParsePhi, graph
  <2>3. UNCHANGED seen
    BY <2>1 DEF Phi
  <2>4. QED
    BY <2>2, <2>3 DEF Loaded, NotEntered
<1>2. CASE TraceOperation
  <2>1. Operation /\ WhenTracing(ParseCurrent(Now, NoAccess))
    BY <1>2 DEF TraceOperation, Reads
  <2>2. InCode({"op", "landingpad"}) /\ Execute(NoAccess)
    BY <2>1 DEF Operation
  <2>3. QED
    BY <2>1, <2>2, InstLoads
<1>3. CASE TraceLoad(A)
  <2>1. PICK a \in A : Load(a) /\ WhenTracing(ParseCurrent(Now, a))
    BY <1>3 DEF TraceLoad, Reads
  <2>2. InCode({"load"}) /\ Execute(a)
    BY <2>1 DEF Load
  <2>3. QED
    BY <2>1, <2>2, InstLoads
<1>4. CASE TraceStore(A)
  <2>1. PICK a \in A : Store(a) /\ WhenTracing(ParseCurrent(NoValue, a))
    BY <1>4 DEF TraceStore, Reads
  <2>2. InCode({"store"}) /\ Execute(a)
    BY <2>1 DEF Store
  <2>3. QED
    BY <2>1, <2>2, InstLoads
<1>5. CASE TraceBranch
  <2>1. PICK i \in Inst : Branch(Code[i].bb) /\ WhenTracing(ParseCurrent(NoValue, NoAccess))
    BY <1>5 DEF TraceBranch, Reads
  <2>2. InCode({"br"}) /\ Execute(NoAccess)
    BY <2>1 DEF Branch
  <2>3. QED
    BY <2>1, <2>2, InstLoads
<1>6. CASE TraceCall
  <2>1. Call /\ WhenTracing(ParseCurrent(NoValue, NoAccess))
    BY <1>6 DEF TraceCall, Reads
  <2>2. InCode({"call", "invoke"}) /\ Execute(NoAccess)
    BY <2>1 DEF Call
  <2>3. QED
    BY <2>1, <2>2, InstLoads
<1>7. CASE TraceReturn
  <2>1. Return /\ WhenTracing(ParseCurrent(NoValue, NoAccess))
    BY <1>7 DEF TraceReturn, Reads
  <2>2. InCode({"ret"}) /\ Execute(NoAccess)
    BY <2>1 DEF Return
  <2>3. QED
    BY <2>1, <2>2, InstLoads
<1>8. CASE TraceEnter
  <2>1. PICK f \in Instrumented : Enter(f) /\ WhenTracing(ParseFunctionEnter(f))
    BY <1>8 DEF TraceEnter, Reads
  <2>2. UNCHANGED <<list, currentId>> /\ ~aborted
    BY <2>1 DEF WhenTracing, ParseFunctionEnter, graph
  <2>3. UNCHANGED seen
    BY <2>1 DEF Enter
  <2>4. QED
    BY <2>2, <2>3 DEF Loaded, NotEntered
<1>9. CASE Untraced
  <2>1. UNCHANGED seen /\ UNCHANGED graph
    BY <1>9 DEF Untraced, Enter, ReturnExternal, Throw, StartTrace, StopTrace
  <2>2. QED
    BY <2>1 DEF Loaded, NotEntered, graph
<1>10. QED
  BY <1>1, <1>2, <1>3, <1>4, <1>5, <1>6, <1>7, <1>8, <1>9 DEF LoadOneDynamicInst

-----------------------------------------------------------------------------
(* What each piece does to the streams *)

(* The tokens and the segments of each loop, after one token more or after  *)
(* n more instructions of a segment of the loop l.                          *)
SameCounts(o2, f2, o, f) ==
  \A m : /\ LoopTokens(o2, "df-config", m) = LoopTokens(o, "df-config", m)
         /\ LoopTokens(o2, "df-start", m) = LoopTokens(o, "df-start", m)
         /\ MovedFor(o2, f2, m) = MovedFor(o, f, m)
OneConfig(o2, f2, o, f, l) ==
  \A m : /\ LoopTokens(o2, "df-start", m) = LoopTokens(o, "df-start", m)
         /\ MovedFor(o2, f2, m) = MovedFor(o, f, m)
         /\ m # l => LoopTokens(o2, "df-config", m) = LoopTokens(o, "df-config", m)
         /\ m = l => Cardinality(LoopTokens(o2, "df-config", m)) =
                       Cardinality(LoopTokens(o, "df-config", m)) + 1
OneStart(o2, f2, o, f, l) ==
  \A m : /\ LoopTokens(o2, "df-config", m) = LoopTokens(o, "df-config", m)
         /\ MovedFor(o2, f2, m) = MovedFor(o, f, m)
         /\ m # l => LoopTokens(o2, "df-start", m) = LoopTokens(o, "df-start", m)
         /\ m = l => Cardinality(LoopTokens(o2, "df-start", m)) =
                       Cardinality(LoopTokens(o, "df-start", m)) + 1
LastGrows(o, f2, f) ==
  SegmentOf(o, f2, Len(o)) = SegmentOf(o, f, Len(o)) \cup (Len(f) + 1 .. Len(f2))
MoreMoved(o, f2, f, l, n) ==
  \A m : /\ m # l => MovedFor(o, f2, m) = MovedFor(o, f, m)
         /\ m = l => Cardinality(MovedFor(o, f2, m)) = Cardinality(MovedFor(o, f, m)) + n

LEMMA ConfiguredStays ==
  ASSUME NEW o, NEW o2, Longer(o2, o), TokensOf(o2, "df-config") = TokensOf(o, "df-config"),
         NEW l, ConfiguredAt(o, Len(o), l)
  PROVE  ConfiguredAt(o2, Len(o2), l)
<1>1. PICK p \in Nat, r \in Nat : p = Len(o) /\ r = Len(o2)
  BY LongerFields
<1>2. p <= r /\ IsSeq(o) /\ IsSeq(o2) /\ DOMAIN o2 = 1 .. r /\ \A c \in 1 .. p : o2[c] = o[c]
  BY <1>1, LongerFields
<1>3. PICK c \in 1 .. p : /\ IsToken(o[c], "df-config") /\ o[c].loop = l
                          /\ \A i \in c + 1 .. p : ~IsToken(o[i], "df-config")
  BY <1>1 DEF ConfiguredAt
<1>4. TokensOf(o, "df-config") \in SUBSET (1 .. p)
  BY <1>1, <1>2, StreamTokens
<1>5. \A i \in 1 .. r : IsToken(o2[i], "df-config") => i \in 1 .. p
  BY ONLY <1>2, <1>4, TokensOf(o2, "df-config") = TokensOf(o, "df-config") DEF TokensOf
<1>6. c \in 1 .. r /\ \A i \in c + 1 .. r : i \in 1 .. r /\ (i \in 1 .. p => i \in c + 1 .. p)
  BY ONLY <1>1, <1>2, c \in 1 .. p
<1>7. QED
  BY ONLY <1>1, <1>2, <1>3, <1>5, <1>6 DEF ConfiguredAt

LEMMA BaseFields ==
  ASSUME NEW o, NEW f, NEW g, NEW c, NEW t, NEW x, Base(o, f, g, c, t, x)
  PROVE  /\ Placed(o, f, g) /\ Parts(o, f) /\ Ended(o, f, t, x)
         /\ IsSeq(o) /\ IsSeq(f) /\ Within(o, g) /\ Within(f, g) /\ Ordered(o) /\ Ordered(f)
         /\ c # NoLoop => ConfiguredAt(o, Len(o), c)
BY DEF Base, Placed

LEMMA BaseKept ==
  ASSUME NEW o, NEW f, NEW g, NEW c, NEW t, NEW x, Base(o, f, g, c, t, x), Sizes(o, f), Closed(o, f),
         NEW n, NEW h, Chunk(h, g, n), NEW q, q = g + n, NEW o2, o2 = o \o h
  PROVE  /\ Base(o2, f, q, c, t, x) /\ Sizes(o2, f) /\ Closed(o2, f)
         /\ SameCounts(o2, f, o, f)
<1>1. /\ Placed(o, f, g) /\ Parts(o, f) /\ Ended(o, f, t, x)
      /\ IsSeq(o) /\ IsSeq(f) /\ Within(o, g) /\ Ordered(o)
      /\ c # NoLoop => ConfiguredAt(o, Len(o), c)
  BY BaseFields
<1>2. Extends(o2, o, g, q) /\ Longer(o2, o)
  BY <1>1, ChunkExtends
<1>3. Placed(o2, f, q) /\ Closed(o2, f)
  BY ONLY <1>1, <1>2, Closed(o, f), KeptPlaced
<1>4. /\ StartsOf(o2) = StartsOf(o) /\ TokensOf(o2, "df-config") = TokensOf(o, "df-config")
      /\ TokensOf(o2, "df-start") = TokensOf(o, "df-start")
  BY ONLY <1>1, <1>2, ExtendsFields, ExtendsTokens
<1>5. Parts(o2, f) /\ Sizes(o2, f) /\ Ended(o2, f, t, x)
  BY ONLY <1>1, <1>2, <1>4, Sizes(o, f), KeptWhole
<1>6. c # NoLoop => ConfiguredAt(o2, Len(o2), c)
  BY ONLY <1>1, <1>2, <1>4, ConfiguredStays
<1>7. ASSUME NEW l
      PROVE  /\ LoopTokens(o2, "df-config", l) = LoopTokens(o, "df-config", l)
             /\ LoopTokens(o2, "df-start", l) = LoopTokens(o, "df-start", l)
             /\ MovedFor(o2, f, l) = MovedFor(o, f, l)
  BY ONLY <1>2, <1>4, KeptCounts, KeptMoved
<1>8. QED
  BY <1>3, <1>5, <1>6, <1>7 DEF Base, SameCounts

LEMMA BaseConfig ==
  ASSUME NEW o, NEW f, NEW g \in Nat, NEW c, NEW t, NEW x, Base(o, f, g, c, t, x), Sizes(o, f), Closed(o, f),
         NEW e, e.pos = 0, IsToken(e, "df-config"), NEW o2, TokenAdded(o2, o, e), NEW l, l = e.loop
  PROVE  /\ Base(o2, f, g, l, t, x) /\ Sizes(o2, f) /\ Closed(o2, f)
         /\ OneConfig(o2, f, o, f, l)
<1>1. /\ Placed(o, f, g) /\ Parts(o, f) /\ Ended(o, f, t, x)
      /\ IsSeq(o) /\ IsSeq(f)
  BY BaseFields
<1>2. Longer(o2, o) /\ Len(o2) \in Nat /\ Len(o2) # 0 /\ o2[Len(o2)] = e
  <2>1. Longer(o2, o) /\ Len(o2) = Len(o) + 1 /\ Len(o) \in Nat /\ o2[Len(o2)] = e
    BY TokenFields
  <2>2. QED
    BY ONLY <2>1
<1>3. ~IsToken(e, "df-start")
  BY DEF IsToken
<1>4. Placed(o2, f, g) /\ Closed(o2, f)
  BY ONLY <1>1, <1>3, Closed(o, f), g \in Nat, e.pos = 0, TokenAdded(o2, o, e), TokenPlaced, ConfigClosed
<1>5. StartsOf(o2) = StartsOf(o)
  BY <1>3, TokenNames DEF StartsOf
<1>6. Parts(o2, f) /\ Sizes(o2, f) /\ Ended(o2, f, t, x)
  BY ONLY <1>1, <1>2, <1>5, Sizes(o, f), KeptWhole
<1>7. ConfiguredAt(o2, Len(o2), l)
  <2>1. PICK r \in Nat : r = Len(o2)
    BY <1>2
  <2>2. r \in 1 .. r /\ r + 1 .. r = {}
    BY <1>2, <2>1
  <2>3. QED
    BY <1>2, <2>1, <2>2 DEF ConfiguredAt
<1>8. ASSUME NEW m
      PROVE  /\ LoopTokens(o2, "df-start", m) = LoopTokens(o, "df-start", m)
             /\ MovedFor(o2, f, m) = MovedFor(o, f, m)
             /\ m # l => LoopTokens(o2, "df-config", m) = LoopTokens(o, "df-config", m)
             /\ m = l => Cardinality(LoopTokens(o2, "df-config", m)) =
                           Cardinality(LoopTokens(o, "df-config", m)) + 1
  <2>1. LoopTokens(o2, "df-start", m) = LoopTokens(o, "df-start", m)
    BY ONLY <1>3, TokenAdded(o2, o, e), TokenCounts
  <2>2. MovedFor(o2, f, m) = MovedFor(o, f, m)
    BY ONLY <1>2, <1>5, KeptMoved
  <2>3. m # l => LoopTokens(o2, "df-config", m) = LoopTokens(o, "df-config", m)
    BY ONLY l = e.loop, TokenAdded(o2, o, e), TokenCounts
  <2>4. m = l => Cardinality(LoopTokens(o2, "df-config", m)) =
                   Cardinality(LoopTokens(o, "df-config", m)) + 1
    BY ONLY l = e.loop, TokenAdded(o2, o, e), IsToken(e, "df-config"), TokenCounts
  <2>5. QED
    BY ONLY <2>1, <2>2, <2>3, <2>4
<1>9. QED
  BY <1>4, <1>6, <1>7, <1>8 DEF Base, OneConfig

LEMMA BaseStart ==
  ASSUME NEW o, NEW f, NEW g \in Nat, NEW l \in Loop, NEW t, NEW x, Base(o, f, g, l, t, x), Sizes(o, f), Closed(o, f),
         NEW e, e.pos = 0, IsToken(e, "df-start"), NEW o2, TokenAdded(o2, o, e), l = e.loop
  PROVE  /\ Base(o2, f, g, l, t, x) /\ SizesBefore(o2, f) /\ Open(o2, f, l)
         /\ SegmentOf(o2, f, Len(o2)) = {}
         /\ OneStart(o2, f, o, f, l)
<1>1. /\ Placed(o, f, g) /\ Parts(o, f) /\ Ended(o, f, t, x)
      /\ IsSeq(o) /\ IsSeq(f) /\ ConfiguredAt(o, Len(o), l)
  BY BaseFields, LoopNestAssumption
<1>2. Longer(o2, o) /\ ~IsToken(e, "df-config") /\ e.loop \in Loop
  BY TokenFields DEF IsToken
<1>3. Placed(o2, f, g) /\ Open(o2, f, l)
  BY ONLY <1>1, Closed(o, f), g \in Nat, e.pos = 0, IsToken(e, "df-start"), l = e.loop,
          TokenAdded(o2, o, e), TokenPlaced, StartOpens
<1>4. Parts(o2, f) /\ SizesBefore(o2, f) /\ Ended(o2, f, t, x) /\ SegmentOf(o2, f, Len(o2)) = {}
  <2>1. ConfiguredAt(o, Len(o), e.loop)
    BY <1>1
  <2>2. QED
    BY ONLY <1>1, <1>2, <2>1, Closed(o, f), Sizes(o, f), IsToken(e, "df-start"), TokenAdded(o2, o, e), StartWhole
<1>5. ConfiguredAt(o2, Len(o2), l)
  <2>1. TokensOf(o2, "df-config") = TokensOf(o, "df-config")
    BY <1>2, TokenNames
  <2>2. QED
    BY ONLY <1>1, <1>2, <2>1, ConfiguredStays
<1>6. ASSUME NEW m
      PROVE  /\ LoopTokens(o2, "df-config", m) = LoopTokens(o, "df-config", m)
             /\ MovedFor(o2, f, m) = MovedFor(o, f, m)
             /\ m # l => LoopTokens(o2, "df-start", m) = LoopTokens(o, "df-start", m)
             /\ m = l => Cardinality(LoopTokens(o2, "df-start", m)) =
                           Cardinality(LoopTokens(o, "df-start", m)) + 1
  <2>1. LoopTokens(o2, "df-config", m) = LoopTokens(o, "df-config", m)
    BY ONLY <1>2, TokenAdded(o2, o, e), TokenCounts
  <2>2. MovedFor(o2, f, m) = MovedFor(o, f, m)
    BY ONLY <1>4, TokenAdded(o2, o, e), StartMoved
  <2>3. m # l => LoopTokens(o2, "df-start", m) = LoopTokens(o, "df-start", m)
    BY ONLY l = e.loop, TokenAdded(o2, o, e), TokenCounts
  <2>4. m = l => Cardinality(LoopTokens(o2, "df-start", m)) =
                   Cardinality(LoopTokens(o, "df-start", m)) + 1
    BY ONLY l = e.loop, TokenAdded(o2, o, e), IsToken(e, "df-start"), TokenCounts
  <2>5. QED
    BY ONLY <2>1, <2>2, <2>3, <2>4
<1>7. QED
  BY <1>3, <1>4, <1>5, <1>6 DEF Base, OneStart

LEMMA BaseMoved ==
  ASSUME NEW o, NEW f, NEW g, NEW l, NEW t, NEW x, Base(o, f, g, l, t, x), SizesBefore(o, f), Open(o, f, l),
         NEW n, NEW h, Chunk(h, g, n), NEW q, q = g + n, NEW f2, f2 = f \o h, Fits(o, f, f2, l)
  PROVE  /\ Base(o, f2, q, l, t, x) /\ SizesBefore(o, f2) /\ Open(o, f2, l)
         /\ n > 0 => EndsAt(f2, q)
         /\ LastGrows(o, f2, f)
         /\ MoreMoved(o, f2, f, l, n)
<1>1. /\ Placed(o, f, g) /\ Parts(o, f) /\ Ended(o, f, t, x)
      /\ IsSeq(o) /\ IsSeq(f) /\ Within(f, g) /\ Ordered(f)
      /\ l # NoLoop => ConfiguredAt(o, Len(o), l)
  BY BaseFields
<1>2. Extends(f2, f, g, q) /\ Longer(f2, f) /\ Len(f2) = Len(f) + n
  BY ONLY <1>1, Chunk(h, g, n), q = g + n, f2 = f \o h, ChunkExtends
<1>3. n \in Nat /\ g \in Nat /\ \A i \in 1 .. n : h[i].pos = g + i
  BY DEF Chunk
<1>4. Placed(o, f2, q) /\ Open(o, f2, l)
  BY ONLY <1>1, <1>2, Open(o, f, l), MovedPlaced
<1>5. EndsOf(f2) = EndsOf(f) /\ MovedOf(f2) = MovedOf(f) \cup (Len(f) + 1 .. Len(f2))
  BY ONLY <1>1, <1>2, ExtendsFields
<1>6. Parts(o, f2) /\ SizesBefore(o, f2) /\ Ended(o, f2, t, x)
  BY ONLY <1>1, <1>2, <1>5, SizesBefore(o, f), Open(o, f, l), Fits(o, f, f2, l), MovedWhole
<1>7. SegmentOf(o, f2, Len(o)) = SegmentOf(o, f, Len(o)) \cup (Len(f) + 1 .. Len(f2))
  BY ONLY <1>1, <1>2, <1>5, Open(o, f, l), MovedSegments
<1>8. n > 0 => EndsAt(f2, q)
  <2> SUFFICES ASSUME n > 0 PROVE EndsAt(f2, q)
    OBVIOUS
  <2>1. PICK p \in Nat : p = Len(f)
    BY <1>1, SeqFields
  <2>2. n \in 1 .. n /\ Len(f2) \in Len(f) + 1 .. Len(f2)
    BY <1>2, <1>3, <2>1
  <2>3. f2[Len(f2)].pos = g + n
    <3>1. PICK m \in Nat : /\ q = g + m /\ Len(f2) = Len(f) + m
                           /\ \A i \in 1 .. m : f2[Len(f) + i].pos = g + i
      BY <1>2 DEF Extends
    <3>2. m = n
      BY ONLY <1>3, <3>1, q = g + n, m \in Nat
    <3>3. n \in 1 .. m
      BY ONLY <2>2, <3>2
    <3>4. f2[Len(f) + n].pos = g + n
      BY ONLY <3>1, <3>3
    <3>5. QED
      BY ONLY <1>2, <3>4
  <2>4. QED
    BY <1>5, <2>2, <2>3 DEF EndsAt
<1>9. ASSUME NEW m
      PROVE  /\ m # l => MovedFor(o, f2, m) = MovedFor(o, f, m)
             /\ m = l => Cardinality(MovedFor(o, f2, m)) = Cardinality(MovedFor(o, f, m)) + n
  <2>1. n \in Nat /\ IsSeq(o) /\ Longer(f2, f) /\ Len(f2) = Len(f) + n
    BY <1>1, <1>2, <1>3
  <2>2. m # l => MovedFor(o, f2, m) = MovedFor(o, f, m)
    BY ONLY <1>5, <2>1, Open(o, f, l), MovedOther
  <2>3. Cardinality(MovedFor(o, f2, l)) = Cardinality(MovedFor(o, f, l)) + n
    BY ONLY <1>5, <2>1, Open(o, f, l), MovedCounts
  <2>4. QED
    BY ONLY <2>2, <2>3
<1>10. QED
  BY <1>1, <1>4, <1>6, <1>7, <1>8, <1>9 DEF Base, MoreMoved, LastGrows

LEMMA BaseEnd ==
  ASSUME NEW o, NEW f, NEW g \in Nat, NEW l, NEW t, NEW x, Base(o, f, g, l, t, x), Sizes(o, f), Open(o, f, l),
         EndsAt(f, g), LeftAfter(t, x, g, l), NEW e, e.pos = 0, NEW f2, TokenAdded(f2, f, e)
  PROVE  /\ Base(o, f2, g, l, t, x) /\ Sizes(o, f2) /\ Closed(o, f2)
         /\ SameCounts(o, f2, o, f)
<1>1. /\ Placed(o, f, g) /\ Parts(o, f) /\ Ended(o, f, t, x)
      /\ IsSeq(o) /\ IsSeq(f)
      /\ l # NoLoop => ConfiguredAt(o, Len(o), l)
  BY BaseFields
<1>2. Placed(o, f2, g)
  BY ONLY <1>1, g \in Nat, e.pos = 0, TokenAdded(f2, f, e), EndPlaced
<1>3. Closed(o, f2)
  BY ONLY <1>1, Open(o, f, l), TokenAdded(f2, f, e), EndCloses
<1>4. Parts(o, f2) /\ Sizes(o, f2) /\ Ended(o, f2, t, x)
  BY ONLY <1>1, Sizes(o, f), Open(o, f, l), EndsAt(f, g), LeftAfter(t, x, g, l), TokenAdded(f2, f, e), EndWhole
<1>5. \A m : MovedFor(o, f2, m) = MovedFor(o, f, m)
  BY ONLY TokenAdded(f2, f, e), EndMoved
<1>6. QED
  BY <1>1, <1>2, <1>3, <1>4, <1>5 DEF Base, SameCounts

-----------------------------------------------------------------------------
(* The list and the state *)

LEMMA ListFields ==
  ASSUME IsSeq(seen), ListOK
  PROVE  /\ IsSeq(list) /\ Len(list) \in Nat /\ Len(seen) \in Nat /\ Given \in Nat
         /\ Given + Len(list) = Len(seen)
         /\ \A i \in 1 .. Len(list) :
              list[i].pos = Given + i /\ list[i].inst = seen[Given + i].inst /\ list[i].inst \in Inst
<1>1. IsSeq(list) /\ Len(list) <= Len(seen) /\ Len(list) \in Nat /\ Len(seen) \in Nat
  BY SeqFields DEF ListOK
<1>2. Given \in Nat /\ Given + Len(list) = Len(seen)
  BY <1>1 DEF Given
<1>3. QED
  BY <1>1, <1>2 DEF ListOK, EntryFor

LEMMA FreshFields ==
  ASSUME IsSeq(seen), ListOK, StateOK, fresh
  PROVE  /\ list # <<>> /\ Len(list) \in Nat /\ Len(list) > 0 /\ Waiting = 1 /\ ~finished
         /\ Fresh = list[Len(list)] /\ FreshInst = list[Len(list)].inst /\ FreshInst \in Inst
         /\ FreshInst = seen[Len(seen)].inst
<1>1. Len(list) \in Nat /\ Waiting = 1 /\ ~finished /\ Waiting <= Len(list)
  BY ListFields DEF Waiting, StateOK
<1>2. list # <<>> /\ Len(list) > 0
  BY <1>1, ListFields, SeqFields
<1>3. Fresh = list[Len(list)]
  BY DEF Fresh, Last
<1>4. Len(list) \in 1 .. Len(list)
  BY <1>1
<1>5. list[Len(list)].inst = seen[Given + Len(list)].inst /\ list[Len(list)].inst \in Inst
  BY <1>4, ListFields
<1>6. QED
  BY <1>1, <1>2, <1>3, <1>5, ListFields DEF FreshInst

(* All but the last entry are gone. *)
LEMMA OneLeft ==
  ASSUME IsSeq(seen), ListOK, list # <<>>, list' = <<Last(list)>>, UNCHANGED seen
  PROVE  /\ ListOK' /\ Len(list') = 1 /\ list'[1] = list[Len(list)]
         /\ Given' = Given + (Len(list) - 1) /\ Given' \in Nat /\ Given' + 1 = Len(seen)
<1>1. /\ IsSeq(list) /\ Len(list) \in Nat /\ Len(seen) \in Nat /\ Given \in Nat
      /\ Given + Len(list) = Len(seen)
  BY ListFields
<1>2. Len(list) # 0
  BY ONLY <1>1, list # <<>>, SeqFields
<1>3. PICK e : e = list[Len(list)]
  OBVIOUS
<1>4. list' = <<e>>
  BY <1>3 DEF Last
<1>5. Len(list') = 1 /\ list'[1] = e /\ IsSeq(list')
  <2>1. PICK t : t = <<e>>
    OBVIOUS
  <2>2. t \in Seq({e}) /\ Len(t) = 1 /\ t[1] = e
    BY ONLY <2>1
  <2>3. IsSeq(t)
    BY ONLY <2>2 DEF IsSeq
  <2>4. QED
    BY ONLY <1>4, <2>1, <2>2, <2>3
<1>6. Given' = Len(seen) - 1
  BY <1>5 DEF Given
<1>7. Len(list) \in 1 .. Len(list)
  BY <1>1, <1>2
<1>8. e.pos = Len(seen) /\ e.inst = seen[Len(seen)].inst /\ e.inst \in Inst
  BY <1>1, <1>3, <1>7, ListFields
<1>9. ListOK'
  <2>1. \A i \in 1 .. 1 : i = 1
    OBVIOUS
  <2>2. Given' + 1 = Len(seen) /\ 1 <= Len(seen)
    BY ONLY <1>1, <1>2, <1>6
  <2>3. EntryFor(list[1], Given + 1)'
    BY <1>5, <1>8, <2>2 DEF EntryFor
  <2>4. QED
    BY <1>5, <2>1, <2>2, <2>3 DEF ListOK
<1>10. QED
  BY <1>1, <1>2, <1>3, <1>5, <1>6, <1>9

(* The state after a data flow, or without one. *)
Restarted ==
  IF IsAtHeaderOfCandidate THEN state' = "BUFFERING" /\ currentLoop' = NewLoop ELSE state' = "SEARCHING"

LEMMA RestartedOK ==
  ASSUME FreshInst \in Inst, Restarted, fresh' = FALSE, finished' = FALSE,
         Len(list') = 1, list'[1].inst = FreshInst
  PROVE  (SearchingOK' \/ BufferingOK') /\ state' # "DATAFLOW" /\ state' \in {"SEARCHING", "BUFFERING"}
<1>1. Waiting' = 0
  BY DEF Waiting
<1>2. CASE IsAtHeaderOfCandidate
  <2>1. state' = "BUFFERING" /\ currentLoop' = NewLoop
    BY <1>2 DEF Restarted
  <2>2. NewLoop # NoLoop /\ IsStaticInstLoopHead(NewLoop, FreshInst)
    BY <1>2 DEF IsAtHeaderOfCandidate, FreshInst
  <2>3. NewLoop \in Loop /\ IsLoopDataFlow(NewLoop) /\ FreshInst \in LoopInsts[NewLoop]
    BY <2>2, NewLoopFields
  <2>4. IsCandidate(currentLoop)'
    BY <2>1, <2>3 DEF IsCandidate, IsLoopDataFlow
  <2>5. \A i \in 1 .. Len(list') - Waiting' : i = 1
    BY <1>1
  <2>6. BufferingOK'
    BY <1>1, <2>1, <2>2, <2>3, <2>4, <2>5 DEF BufferingOK
  <2>7. QED
    BY <2>1, <2>6
<1>3. CASE ~IsAtHeaderOfCandidate
  BY <1>1, <1>3 DEF Restarted, SearchingOK
<1>4. QED
  BY <1>2, <1>3

(* The statistics but those of the instructions seen. *)
SameStats(s2, s) ==
  /\ s2 \in [Loop -> Stat]
  /\ \A l \in Loop : /\ s2[l].config = s[l].config /\ s2[l].dataFlow = s[l].dataFlow
                     /\ s2[l].dataFlowDynamic = s[l].dataFlowDynamic

LEMMA CountedKept ==
  ASSUME NEW o, NEW f, NEW s, Counted(o, f, s), NEW s2, SameStats(s2, s), NEW o2, NEW f2, SameCounts(o2, f2, o, f)
  PROVE  Counted(o2, f2, s2)
BY DEF Counted, SameStats, SameCounts

LEMMA SameStatsSelf == ASSUME NEW o, NEW f, NEW s, Counted(o, f, s) PROVE SameStats(s, s)
BY DEF SameStats, Counted

LEMMA CountNewFields ==
  ASSUME NEW s \in [Loop -> Stat]
  PROVE  SameStats(CountNew(s), s)
<1>1. PICK r : r = CountNew(s)
  OBVIOUS
<1>2. r = [l \in Loop |-> IF LoopContains(l, NewLoop) THEN [s[l] EXCEPT !.dynamic = @ + 1] ELSE s[l]]
  BY <1>1 DEF CountNew
<1>3. ASSUME NEW l \in Loop
      PROVE  /\ r[l] \in Stat /\ r[l].config = s[l].config /\ r[l].dataFlow = s[l].dataFlow
             /\ r[l].dataFlowDynamic = s[l].dataFlowDynamic
  <2>1. PICK v \in Stat : v = s[l]
    OBVIOUS
  <2>2. r[l] = IF LoopContains(l, NewLoop) THEN [v EXCEPT !.dynamic = @ + 1] ELSE v
    BY <1>2, <2>1
  <2>3. QED
    BY <2>1, <2>2 DEF Stat
<1>4. r \in [Loop -> Stat]
  BY ONLY <1>2, <1>3
<1>5. QED
  BY <1>1, <1>3, <1>4 DEF SameStats

(* The statistics with a configurations, b data flows and n instructions    *)
(* more for l.                                                              *)
Bump(s, l, a, b, n) ==
  [m \in Loop |->
     [dynamic |-> s[m].dynamic,
      dataFlowDynamic |-> IF m = l THEN s[m].dataFlowDynamic + n ELSE s[m].dataFlowDynamic,
      config |-> IF m = l THEN s[m].config + a ELSE s[m].config,
      dataFlow |-> IF m = l THEN s[m].dataFlow + b ELSE s[m].dataFlow]]

LEMMA BumpFields ==
  ASSUME NEW s \in [Loop -> Stat], NEW l, NEW a \in Nat, NEW b \in Nat, NEW n \in Nat
  PROVE  /\ Bump(s, l, a, b, n) \in [Loop -> Stat]
         /\ \A m \in Loop :
              LET r == Bump(s, l, a, b, n)[m] IN
              /\ s[m].config \in Nat /\ s[m].dataFlow \in Nat /\ s[m].dataFlowDynamic \in Nat
              /\ r.config = IF m = l THEN s[m].config + a ELSE s[m].config
              /\ r.dataFlow = IF m = l THEN s[m].dataFlow + b ELSE s[m].dataFlow
              /\ r.dataFlowDynamic = IF m = l THEN s[m].dataFlowDynamic + n ELSE s[m].dataFlowDynamic
<1>1. PICK f : f = Bump(s, l, a, b, n)
  OBVIOUS
<1>2. ASSUME NEW m \in Loop
      PROVE  /\ s[m].config \in Nat /\ s[m].dataFlow \in Nat /\ s[m].dataFlowDynamic \in Nat
             /\ f[m] \in Stat
             /\ f[m].config = IF m = l THEN s[m].config + a ELSE s[m].config
             /\ f[m].dataFlow = IF m = l THEN s[m].dataFlow + b ELSE s[m].dataFlow
             /\ f[m].dataFlowDynamic = IF m = l THEN s[m].dataFlowDynamic + n ELSE s[m].dataFlowDynamic
  <2>1. PICK v \in Stat : v = s[m]
    OBVIOUS
  <2>2. v.config \in Nat /\ v.dataFlow \in Nat /\ v.dataFlowDynamic \in Nat /\ v.dynamic \in Nat
    BY DEF Stat
  <2>3. f[m] = [dynamic |-> v.dynamic,
                dataFlowDynamic |-> IF m = l THEN v.dataFlowDynamic + n ELSE v.dataFlowDynamic,
                config |-> IF m = l THEN v.config + a ELSE v.config,
                dataFlow |-> IF m = l THEN v.dataFlow + b ELSE v.dataFlow]
    BY <1>1, <2>1 DEF Bump
  <2>4. QED
    BY ONLY <2>1, <2>2, <2>3, a \in Nat, b \in Nat, n \in Nat DEF Stat
<1>3. f \in [Loop -> Stat]
  <2>1. f = [m \in Loop |-> f[m]]
    BY ONLY <1>1 DEF Bump
  <2>2. QED
    BY ONLY <1>2, <2>1
<1>4. QED
  BY ONLY <1>1, <1>2, <1>3

LEMMA BumpAt ==
  ASSUME NEW s \in [Loop -> Stat], NEW l, NEW n \in Nat, NEW m \in Loop
  PROVE  /\ Bump(s, l, 0, 0, n)[m].config = s[m].config
         /\ Bump(s, l, 0, 0, n)[m].dataFlow = s[m].dataFlow
         /\ Bump(s, l, 0, 0, n)[m].dataFlowDynamic =
              IF m = l THEN s[m].dataFlowDynamic + n ELSE s[m].dataFlowDynamic
<1>1. PICK r : r = Bump(s, l, 0, 0, n)
  OBVIOUS
<1>2. PICK v \in Stat : v = s[m]
  OBVIOUS
<1>3. v.config \in Nat /\ v.dataFlow \in Nat
  BY DEF Stat
<1>4. r[m] = [dynamic |-> v.dynamic,
              dataFlowDynamic |-> IF m = l THEN v.dataFlowDynamic + n ELSE v.dataFlowDynamic,
              config |-> IF m = l THEN v.config + 0 ELSE v.config,
              dataFlow |-> IF m = l THEN v.dataFlow + 0 ELSE v.dataFlow]
  BY <1>1, <1>2 DEF Bump
<1>5. /\ r[m].config = v.config /\ r[m].dataFlow = v.dataFlow
      /\ r[m].dataFlowDynamic = IF m = l THEN v.dataFlowDynamic + n ELSE v.dataFlowDynamic
  BY ONLY <1>3, <1>4
<1>6. QED
  BY ONLY <1>1, <1>2, <1>5

LEMMA CountedConfig ==
  ASSUME NEW o, NEW f, NEW s, Counted(o, f, s), NEW l, NEW o2, NEW f2, OneConfig(o2, f2, o, f, l)
  PROVE  Counted(o2, f2, Bump(s, l, 1, 0, 0))
<1>1. s \in [Loop -> Stat]
  BY DEF Counted
<1>2. PICK s2 : s2 = Bump(s, l, 1, 0, 0)
  OBVIOUS
<1>3. s2 \in [Loop -> Stat]
  BY <1>1, <1>2, BumpFields
<1>4. \A m \in Loop :
        /\ s[m].dataFlow \in Nat /\ s[m].dataFlowDynamic \in Nat
        /\ s2[m].config = IF m = l THEN s[m].config + 1 ELSE s[m].config
        /\ s2[m].dataFlow = s[m].dataFlow
        /\ s2[m].dataFlowDynamic = s[m].dataFlowDynamic
  BY <1>1, <1>2, BumpFields
<1>5. Counted(o2, f2, s2)
  BY <1>3, <1>4 DEF Counted, OneConfig
<1>6. QED
  BY <1>2, <1>5

LEMMA CountedStart ==
  ASSUME NEW o, NEW f, NEW s, Counted(o, f, s), NEW l, NEW o2, NEW f2, OneStart(o2, f2, o, f, l)
  PROVE  Counted(o2, f2, Bump(s, l, 0, 1, 0))
<1>1. s \in [Loop -> Stat]
  BY DEF Counted
<1>2. PICK s2 : s2 = Bump(s, l, 0, 1, 0)
  OBVIOUS
<1>3. s2 \in [Loop -> Stat]
  BY <1>1, <1>2, BumpFields
<1>4. \A m \in Loop :
        /\ s[m].config \in Nat /\ s[m].dataFlowDynamic \in Nat
        /\ s2[m].dataFlow = IF m = l THEN s[m].dataFlow + 1 ELSE s[m].dataFlow
        /\ s2[m].config = s[m].config
        /\ s2[m].dataFlowDynamic = s[m].dataFlowDynamic
  BY <1>1, <1>2, BumpFields
<1>5. Counted(o2, f2, s2)
  BY <1>3, <1>4 DEF Counted, OneStart
<1>6. QED
  BY <1>2, <1>5

LEMMA CountedMoved ==
  ASSUME NEW o, NEW f, NEW s, Counted(o, f, s), NEW l, NEW f2, NEW n \in Nat, MoreMoved(o, f2, f, l, n)
  PROVE  Counted(o, f2, Bump(s, l, 0, 0, n))
<1>1. s \in [Loop -> Stat]
  BY DEF Counted
<1>2. PICK s2 : s2 = Bump(s, l, 0, 0, n)
  OBVIOUS
<1>3. s2 \in [Loop -> Stat]
  BY <1>1, <1>2, BumpFields
<1>4. ASSUME NEW m \in Loop
      PROVE  /\ s2[m].dataFlowDynamic = IF m = l THEN s[m].dataFlowDynamic + n ELSE s[m].dataFlowDynamic
             /\ s2[m].config = s[m].config
             /\ s2[m].dataFlow = s[m].dataFlow
  BY ONLY <1>1, <1>2, m \in Loop, n \in Nat, BumpAt
<1>5. Counted(o, f2, s2)
  BY <1>3, <1>4 DEF Counted, MoreMoved
<1>6. QED
  BY <1>2, <1>5

-----------------------------------------------------------------------------
(* An instruction is read *)

LEMMA NothingChanges ==
  ASSUME ListOK, StateOK, StreamsOK, NotEntered,
         UNCHANGED <<fresh, state, currentLoop, finished, out, stats, dataFlow, configured>>
  PROVE  ListOK' /\ StateOK' /\ StreamsOK'
<1>1. UNCHANGED <<seen, list, currentId>>
  BY DEF NotEntered
<1>2. Waiting' = Waiting /\ Given' = Given /\ CutOff' = CutOff
  BY <1>1 DEF Waiting, Given, CutOff
<1>3. ListOK'
  BY <1>1, <1>2 DEF ListOK, EntryFor
<1>4. StateOK'
  <2>1. SearchingOK \/ BufferingOK \/ FlowOK
    BY DEF StateOK
  <2>2. SearchingOK' \/ BufferingOK' \/ FlowOK'
    BY <1>1, <1>2, <2>1 DEF SearchingOK, BufferingOK, FlowOK, IsCandidate, IsLoopDataFlow
  <2>3. QED
    BY <1>1, <1>2, <2>2 DEF StateOK
<1>5. StreamsOK'
  BY <1>1, <1>2 DEF StreamsOK, Flowing
<1>6. QED
  BY <1>3, <1>4, <1>5

LEMMA EnteredList ==
  ASSUME IsSeq(seen), ListOK, NEW e, NEW t, Entered(e, t)
  PROVE  /\ ListOK' /\ Longer(seen', seen) /\ Given' = Given /\ Len(list') = Len(list) + 1
         /\ \A i \in 1 .. Len(list) : list'[i] = list[i]
<1>1. /\ IsSeq(list) /\ Len(list) \in Nat /\ Len(seen) \in Nat /\ Given \in Nat
      /\ Given + Len(list) = Len(seen)
      /\ \A i \in 1 .. Len(list) :
           list[i].pos = Given + i /\ list[i].inst = seen[Given + i].inst /\ list[i].inst \in Inst
  BY ListFields
<1>2. PICK n \in Nat : n = Len(list)
  BY <1>1
<1>3. PICK p \in Nat : p = Len(seen)
  BY <1>1
<1>4. PICK nn \in Nat : nn = n + 1
  OBVIOUS
<1>5. PICK pp \in Nat : pp = p + 1
  OBVIOUS
<1>6. Longer(Append(list, e), list) /\ Len(Append(list, e)) = nn /\ Append(list, e)[nn] = e
  BY ONLY <1>1, <1>2, <1>4, AppendLonger
<1>7. Longer(Append(seen, t), seen) /\ Len(Append(seen, t)) = pp /\ Append(seen, t)[pp] = t
  BY ONLY IsSeq(seen), <1>3, <1>5, AppendLonger
<1>8. list' = Append(list, e) /\ seen' = Append(seen, t) /\ e.pos = Len(seen) + 1 /\ e.inst = t.inst /\ t.inst \in Inst
  BY DEF Entered
<1>9. Longer(list', list) /\ Len(list') = nn /\ list'[nn] = e
  BY ONLY <1>6, <1>8
<1>10. Longer(seen', seen) /\ Len(seen') = pp /\ seen'[pp] = t
  BY ONLY <1>7, <1>8
<1>11. Given' = Given
  BY <1>1, <1>2, <1>3, <1>4, <1>5, <1>9, <1>10 DEF Given
<1>12. IsSeq(list') /\ Len(list') <= Len(seen')
  BY <1>1, <1>2, <1>3, <1>4, <1>5, <1>9, <1>10 DEF Longer
<1>13. \A i \in 1 .. Len(list) : list'[i] = list[i]
  BY ONLY <1>9 DEF Longer
<1>14. \A k \in 1 .. Len(seen) : seen'[k] = seen[k]
  BY ONLY <1>10 DEF Longer
<1>15. ASSUME NEW i \in 1 .. nn PROVE EntryFor(list[i], Given + i)'
  <2>1. CASE i = nn
    <3>0. Given \in Nat /\ Given + Len(list) = Len(seen)
      BY ONLY <1>1
    <3>1. Given + i = pp
      BY ONLY <1>2, <1>3, <1>4, <1>5, <2>1, <3>0
    <3>2. list'[i] = e /\ seen'[Given + i] = t /\ e.pos = Given + i
      BY ONLY <1>3, <1>5, <1>8, <1>9, <1>10, <2>1, <3>1
    <3>3. QED
      BY <1>8, <1>11, <3>2 DEF EntryFor
  <2>2. CASE i # nn
    <3>1. i \in 1 .. Len(list) /\ Given + i \in 1 .. Len(seen)
      BY ONLY <1>1, <1>2, <1>3, <1>4, <2>2, i \in 1 .. nn
    <3>2. list'[i] = list[i] /\ seen'[Given + i] = seen[Given + i]
      BY ONLY <1>13, <1>14, <3>1
    <3>3. list[i].pos = Given + i /\ list[i].inst = seen[Given + i].inst /\ list[i].inst \in Inst
      BY ONLY <1>1, <3>1
    <3>4. QED
      BY <1>11, <3>2, <3>3 DEF EntryFor
  <2>3. QED
    BY <2>1, <2>2
<1>16. ListOK'
  BY <1>9, <1>12, <1>15 DEF ListOK
<1>17. QED
  BY <1>2, <1>4, <1>9, <1>10, <1>11, <1>13, <1>16

LEMMA LoadEntered ==
  ASSUME IsSeq(seen), ListOK, StateOK, StreamsOK, NEW e, NEW t, Entered(e, t), ~fresh, fresh' = TRUE, ~finished,
         UNCHANGED <<state, currentLoop, finished, out, stats, dataFlow, configured>>
  PROVE  ListOK' /\ StateOK' /\ StreamsOK'
<1>1. /\ ListOK' /\ Longer(seen', seen) /\ Given' = Given /\ Len(list') = Len(list) + 1
      /\ \A i \in 1 .. Len(list) : list'[i] = list[i]
  BY EnteredList
<1>2. /\ Len(list) \in Nat /\ Len(seen) \in Nat /\ Given \in Nat /\ Given + Len(list) = Len(seen)
  BY ListFields
<1>3. Waiting = 0 /\ Waiting' = 1 /\ CutOff = 0 /\ CutOff' = 0
  BY DEF Waiting, CutOff
<1>4. currentId' \in Nat
  BY DEF Entered, StateOK
<1>5. StateOK'
  <2>1. SearchingOK \/ BufferingOK \/ FlowOK
    BY DEF StateOK
  <2>2. SearchingOK => SearchingOK'
    BY <1>1, <1>2, <1>3 DEF SearchingOK
  <2>3. BufferingOK => BufferingOK'
    <3>1. SUFFICES ASSUME BufferingOK PROVE BufferingOK'
      OBVIOUS
    <3>2. /\ Len(list) > 0 /\ IsStaticInstLoopHead(currentLoop, list[1].inst)
          /\ \A i \in 1 .. Len(list) : list[i].inst \in LoopInsts[currentLoop]
          /\ state = "BUFFERING" /\ IsCandidate(currentLoop)
      BY <1>2, <1>3, <3>1 DEF BufferingOK
    <3>3. Len(list') - Waiting' = Len(list) /\ Len(list') > Waiting'
      BY <1>1, <1>2, <1>3, <3>2
    <3>4. 1 \in 1 .. Len(list)
      BY <1>2, <3>2
    <3>5. list'[1] = list[1] /\ \A i \in 1 .. Len(list) : list'[i].inst = list[i].inst
      BY <1>1, <3>4
    <3>6. IsCandidate(currentLoop)'
      BY <3>2 DEF IsCandidate, IsLoopDataFlow
    <3>7. QED
      BY <3>2, <3>3, <3>5, <3>6 DEF BufferingOK
  <2>4. FlowOK => FlowOK'
    <3>1. SUFFICES ASSUME FlowOK PROVE FlowOK'
      OBVIOUS
    <3>2. Len(list) = 1
      BY <1>3, <3>1 DEF FlowOK
    <3>3. list'[1] = list[1] /\ Len(list') = Waiting' + 1
      BY <1>1, <1>3, <3>2
    <3>4. QED
      BY <3>1, <3>3 DEF FlowOK, IsCandidate, IsLoopDataFlow
  <2>5. QED
    BY <1>1, <1>2, <1>3, <1>4, <2>1, <2>2, <2>3, <2>4 DEF StateOK
<1>6. StreamsOK'
  <2>1. Base(out, dataFlow, Given, configured, seen, 0)
    BY <1>3 DEF StreamsOK
  <2>2. /\ Placed(out, dataFlow, Given) /\ Parts(out, dataFlow) /\ Ended(out, dataFlow, seen, 0)
        /\ IsSeq(dataFlow) /\ Within(dataFlow, Given)
        /\ configured # NoLoop => ConfiguredAt(out, Len(out), configured)
    BY ONLY <2>1, BaseFields
  <2>3. Within(dataFlow, Len(seen))
    <3>1. \A i : i \in 0 .. Given => i \in 0 .. Len(seen)
      BY ONLY <1>2
    <3>2. QED
      BY ONLY <2>2, <3>1 DEF Within
  <2>4. Ended(out, dataFlow, seen', 0)
    BY ONLY <1>1, <2>2, <2>3, EndedLater
  <2>5. Base(out, dataFlow, Given, configured, seen', 0)
    BY ONLY <2>2, <2>4 DEF Base
  <2>6. QED
    BY <1>1, <1>3, <2>5 DEF StreamsOK, Flowing
<1>7. QED
  BY <1>1, <1>5, <1>6

(* The instruction read, if any, is the last of the list. *)
LEMMA LoadStep ==
  ASSUME ProgramInv, IsSeq(seen), ListOK, StateOK, StreamsOK, ~aborted', LoadOne, UNCHANGED accelerator
  PROVE  ListOK' /\ StateOK' /\ StreamsOK'
<1>1. PICK A : LoadOneDynamicInst(A)
  BY DEF LoadOne
<1>2. Loaded
  BY <1>1, LoadReads
<1>3. /\ ~fresh /\ ~finished /\ fresh' = (currentId' # currentId)
      /\ UNCHANGED <<state, currentLoop, finished, out, stats, dataFlow, configured>>
  BY DEF LoadOne, accelerator
<1>4. CASE NotEntered
  <2>1. fresh \in BOOLEAN
    BY DEF StateOK
  <2>2. fresh = FALSE
    BY ONLY <1>3, <2>1
  <2>3. fresh' = FALSE
    BY <1>3, <1>4 DEF NotEntered
  <2>4. fresh' = fresh
    BY ONLY <2>2, <2>3
  <2>5. QED
    BY <1>3, <1>4, <2>4, NothingChanges
<1>5. ASSUME NEW e, NEW t, Entered(e, t) PROVE ListOK' /\ StateOK' /\ StreamsOK'
  <2>1. currentId \in Nat /\ currentId' = currentId + 1
    BY <1>5 DEF StateOK, Entered
  <2>2. currentId' # currentId
    BY <2>1
  <2>3. fresh' = TRUE
    BY ONLY <1>3, <2>2
  <2>4. QED
    BY <1>3, <1>5, <2>3, LoadEntered
<1>6. QED
  BY <1>2, <1>4, <1>5 DEF Loaded


-----------------------------------------------------------------------------
(* An instruction is handled *)

LEMMA HandledFields ==
  ASSUME IsSeq(seen), ListOK, StateOK, Handled
  PROVE  /\ fresh /\ fresh' = FALSE /\ ~finished /\ finished' = FALSE /\ UNCHANGED seen
         /\ Waiting = 1 /\ Waiting' = 0 /\ CutOff = 0 /\ CutOff' = 0
         /\ currentId \in Nat /\ configured \in Loop \cup {NoLoop}
<1>1. fresh /\ fresh' = FALSE /\ finished' = finished /\ seen' = seen
  BY DEF Handled, program
<1>2. finished = FALSE /\ currentId \in Nat /\ configured \in Loop \cup {NoLoop}
  BY <1>1 DEF StateOK
<1>3. QED
  BY <1>1, <1>2 DEF Waiting, CutOff

LEMMA NextState ==
  ASSUME fresh' = FALSE, finished' = FALSE, currentId' \in Nat, configured' \in Loop \cup {NoLoop},
         Len(list') \in Nat, SearchingOK' \/ BufferingOK' \/ FlowOK'
  PROVE  StateOK'
<1>1. Waiting' = 0 /\ 0 <= Len(list')
  BY DEF Waiting
<1>2. fresh' \in BOOLEAN /\ finished' \in BOOLEAN /\ (fresh' => ~finished') /\ ~finished'
  OBVIOUS
<1>3. QED
  BY <1>1, <1>2 DEF StateOK

LEMMA StreamsStay ==
  ASSUME StreamsOK, UNCHANGED <<out, dataFlow, configured, seen, list>>, CutOff' = CutOff,
         ~Flowing, ~Flowing', SameStats(stats', stats)
  PROVE  StreamsOK'
<1>1. Given' = Given
  BY DEF Given
<1>2. Base(out', dataFlow', Given', configured', seen', CutOff')
  BY <1>1 DEF StreamsOK
<1>3. Sizes(out', dataFlow') /\ Closed(out', dataFlow')
  BY DEF StreamsOK
<1>4. Counted(out, dataFlow, stats)
  BY DEF StreamsOK
<1>5. SameCounts(out, dataFlow, out, dataFlow)
  BY DEF SameCounts
<1>6. Counted(out, dataFlow, stats')
  BY ONLY <1>4, <1>5, SameStats(stats', stats), CountedKept
<1>7. QED
  BY <1>2, <1>3, <1>6 DEF StreamsOK

LEMMA StreamsCommit ==
  ASSUME StreamsOK, UNCHANGED <<dataFlow, configured, seen>>, CutOff' = CutOff,
         NEW h, NEW n, Chunk(h, Given, n), Given' = Given + n, out' = out \o h,
         ~Flowing, ~Flowing', SameStats(stats', stats)
  PROVE  StreamsOK'
<1>1. PICK q : q = Given + n
  OBVIOUS
<1>2. PICK o2 : o2 = out \o h
  OBVIOUS
<1>3. Base(out, dataFlow, Given, configured, seen, CutOff) /\ Sizes(out, dataFlow) /\ Closed(out, dataFlow)
      /\ Counted(out, dataFlow, stats)
  BY DEF StreamsOK
<1>4. /\ Base(o2, dataFlow, q, configured, seen, CutOff) /\ Sizes(o2, dataFlow) /\ Closed(o2, dataFlow)
      /\ SameCounts(o2, dataFlow, out, dataFlow)
  <2>1. PICK g : g = Given
    OBVIOUS
  <2>2. PICK f : f = dataFlow
    OBVIOUS
  <2>3. PICK o : o = out
    OBVIOUS
  <2>4. Base(o, f, g, configured, seen, CutOff) /\ Sizes(o, f) /\ Closed(o, f) /\ Chunk(h, g, n) /\ q = g + n /\ o2 = o \o h
    BY ONLY <1>1, <1>2, <1>3, <2>1, <2>2, <2>3, Chunk(h, Given, n)
  <2>5. Base(o2, f, q, configured, seen, CutOff)
    BY ONLY <2>4, BaseKept, ZenonT(30)
  <2>6. Sizes(o2, f) /\ Closed(o2, f) /\ SameCounts(o2, f, o, f)
    BY ONLY <2>4, BaseKept, ZenonT(30)
  <2>7. QED
    BY ONLY <2>2, <2>3, <2>5, <2>6
<1>6. Counted(o2, dataFlow, stats')
  BY ONLY <1>3, <1>4, SameStats(stats', stats), CountedKept
<1>7. out' = o2 /\ Given' = q
  BY <1>1, <1>2
<1>8. Base(out', dataFlow', Given', configured', seen', CutOff') /\ Sizes(out', dataFlow')
      /\ Closed(out', dataFlow') /\ Counted(out', dataFlow', stats')
  BY <1>4, <1>6, <1>7
<1>9. QED
  BY <1>8 DEF StreamsOK

LEMMA StatsCounted ==
  ASSUME StreamsOK, stats' = CountNew(stats)
  PROVE  SameStats(stats', stats)
<1>1. stats \in [Loop -> Stat]
  BY DEF StreamsOK, Counted
<1>2. QED
  BY <1>1, CountNewFields

(* The list but its last entry is committed. *)
LEMMA CommittedButLast ==
  ASSUME IsSeq(seen), ListOK, list # <<>>, StreamsOK, CommitButLast,
         UNCHANGED <<dataFlow, configured, seen>>, CutOff' = CutOff,
         ~Flowing, ~Flowing', SameStats(stats', stats)
  PROVE  StreamsOK' /\ ListOK' /\ Len(list') = 1 /\ list'[1] = list[Len(list)]
<1>1. list' = <<Last(list)>> /\ out' = out \o Front(list)
  BY DEF CommitButLast
<1>2. ListOK' /\ Len(list') = 1 /\ list'[1] = list[Len(list)] /\ Given' = Given + (Len(list) - 1)
  BY <1>1, OneLeft
<1>3. PICK n : n = Len(list) - 1
  OBVIOUS
<1>4. Chunk(Front(list), Given, n)
  BY <1>3, FrontChunk
<1>5. Given' = Given + n
  BY <1>2, <1>3
<1>6. StreamsOK'
  BY <1>1, <1>4, <1>5, StreamsCommit
<1>7. QED
  BY <1>2, <1>6

LEMMA SearchStep ==
  ASSUME IsSeq(seen), ListOK, StateOK, StreamsOK, Search
  PROVE  ListOK' /\ StateOK' /\ StreamsOK'
<1>1. Handled /\ state = "SEARCHING" /\ NextSearching /\ stats' = CountNew(stats)
      /\ UNCHANGED <<currentId, dataFlow, configured>>
  BY DEF Search, accelerator
<1>2. /\ fresh /\ fresh' = FALSE /\ ~finished /\ finished' = FALSE /\ UNCHANGED seen
      /\ Waiting = 1 /\ Waiting' = 0 /\ CutOff = 0 /\ CutOff' = 0
      /\ currentId \in Nat /\ configured \in Loop \cup {NoLoop}
  BY <1>1, HandledFields
<1>3. /\ list # <<>> /\ Len(list) \in Nat /\ Len(list) > 0
      /\ FreshInst = list[Len(list)].inst /\ FreshInst \in Inst
  BY <1>2, FreshFields
<1>4. Restarted /\ state' # "DATAFLOW"
  BY <1>1 DEF NextSearching, Restarted
<1>5. ~Flowing /\ ~Flowing'
  BY <1>1, <1>4 DEF Flowing
<1>6. SameStats(stats', stats)
  BY <1>1, StatsCounted
<1>7. Len(list) <= 2
  BY <1>1, <1>2 DEF StateOK, SearchingOK, BufferingOK, FlowOK
<1>8. ListOK' /\ StreamsOK' /\ Len(list') = 1 /\ list'[1] = list[Len(list)]
  <2>1. CASE Len(list) = 2
    <3>1. CommitButLast
      BY <2>1 DEF Search
    <3>2. QED
      BY <1>1, <1>2, <1>3, <1>5, <1>6, <3>1, CommittedButLast
  <2>2. CASE Len(list) # 2
    <3>1. UNCHANGED <<list, out>>
      BY <2>2 DEF Search
    <3>5. Len(list) = 1
      <4>1. PICK n \in Nat : n = Len(list)
        BY <1>3
      <4>2. n > 0 /\ n <= 2 /\ n # 2
        BY ONLY <1>3, <1>7, <2>2, <4>1
      <4>3. n = 1
        BY ONLY <4>2, n \in Nat
      <4>4. QED
        BY ONLY <4>1, <4>3
    <3>2. StreamsOK'
      BY <1>1, <1>2, <1>5, <1>6, <3>1, StreamsStay
    <3>3. ListOK'
      BY <1>2, <3>1 DEF ListOK, EntryFor, Given
    <3>4. QED
      BY <3>1, <3>2, <3>3, <3>5
  <2>3. QED
    BY <2>1, <2>2
<1>9. list'[1].inst = FreshInst
  BY <1>3, <1>8
<1>10. SearchingOK' \/ BufferingOK'
  BY <1>2, <1>3, <1>4, <1>8, <1>9, RestartedOK
<1>11. currentId' \in Nat /\ configured' \in Loop \cup {NoLoop} /\ Len(list') \in Nat
  BY <1>1, <1>2, <1>8
<1>12. QED
  BY <1>2, <1>8, <1>10, <1>11, NextState

(* What buffering and a data flow have in the list. *)
LEMMA BufferingFields ==
  ASSUME IsSeq(seen), ListOK, StateOK, Handled, state = "BUFFERING"
  PROVE  /\ IsCandidate(currentLoop) /\ Len(list) \in Nat /\ Len(list) > 1
         /\ IsStaticInstLoopHead(currentLoop, list[1].inst)
         /\ \A i \in 1 .. Len(list) - 1 : list[i].inst \in LoopInsts[currentLoop]
         /\ list # <<>> /\ FreshInst = list[Len(list)].inst /\ FreshInst \in Inst
         /\ FreshInst = seen[Len(seen)].inst
<1>1. Waiting = 1 /\ ~finished /\ fresh
  BY HandledFields
<1>2. Len(list) \in Nat /\ list # <<>> /\ FreshInst = list[Len(list)].inst /\ FreshInst \in Inst
      /\ FreshInst = seen[Len(seen)].inst
  BY <1>1, FreshFields
<1>3. BufferingOK
  BY DEF StateOK, SearchingOK, FlowOK
<1>4. QED
  BY <1>1, <1>2, <1>3 DEF BufferingOK

(* The instruction handled stays in the buffer. *)
LEMMA BufferMore ==
  ASSUME IsSeq(seen), ListOK, StateOK, Handled, state = "BUFFERING", state' = "BUFFERING", InCurrentLoop,
         UNCHANGED <<list, currentLoop, currentId, configured>>
  PROVE  ListOK' /\ StateOK'
<1>1. /\ IsCandidate(currentLoop) /\ Len(list) \in Nat /\ Len(list) > 1
      /\ IsStaticInstLoopHead(currentLoop, list[1].inst)
      /\ \A i \in 1 .. Len(list) - 1 : list[i].inst \in LoopInsts[currentLoop]
      /\ FreshInst = list[Len(list)].inst /\ FreshInst \in Inst
  BY BufferingFields
<1>2. /\ fresh' = FALSE /\ finished' = FALSE /\ UNCHANGED seen /\ Waiting' = 0
      /\ currentId \in Nat /\ configured \in Loop \cup {NoLoop}
  BY HandledFields
<1>3. FreshInst \in LoopInsts[currentLoop]
  BY <1>1, InCurrent
<1>4. PICK n \in Nat : n = Len(list)
  BY <1>1
<1>5. \A i \in 1 .. n : list[i].inst \in LoopInsts[currentLoop]
  <2>1. \A i \in 1 .. n : i \in 1 .. n - 1 \/ i = n
    OBVIOUS
  <2>2. QED
    BY ONLY <1>1, <1>3, <1>4, <2>1
<1>6. Len(list') - Waiting' = n /\ Len(list') > Waiting' /\ list' = list
  BY <1>1, <1>2, <1>4
<1>7. IsCandidate(currentLoop)'
  BY <1>1 DEF IsCandidate, IsLoopDataFlow
<1>8. BufferingOK'
  BY <1>1, <1>5, <1>6, <1>7 DEF BufferingOK
<1>9. StateOK'
  BY <1>1, <1>2, <1>6, <1>8, NextState
<1>10. ListOK'
  BY <1>2 DEF ListOK, EntryFor, Given
<1>11. QED
  BY <1>9, <1>10

LEMMA BufferStep ==
  ASSUME IsSeq(seen), ListOK, StateOK, StreamsOK, Buffer
  PROVE  ListOK' /\ StateOK' /\ StreamsOK'
<1>1. Handled /\ state = "BUFFERING" /\ state' = "BUFFERING" /\ ~AtBoundary /\ stats' = CountNew(stats)
      /\ UNCHANGED <<currentLoop, out, list, currentId, dataFlow, configured>>
  BY DEF Buffer, accelerator
<1>2. InCurrentLoop
  BY <1>1 DEF AtBoundary
<1>3. ListOK' /\ StateOK'
  BY <1>1, <1>2, BufferMore
<1>4. UNCHANGED seen /\ CutOff' = CutOff
  BY <1>1, HandledFields
<1>5. ~Flowing /\ ~Flowing'
  BY <1>1 DEF Flowing
<1>6. StreamsOK'
  BY <1>1, <1>4, <1>5, StatsCounted, StreamsStay
<1>7. QED
  BY <1>3, <1>6

LEMMA BoundaryStep ==
  ASSUME IsSeq(seen), ListOK, StateOK, StreamsOK, BoundaryTooSoon
  PROVE  ListOK' /\ StateOK' /\ StreamsOK'
<1>1. Handled /\ state = "BUFFERING" /\ stats' = CountNew(stats)
      /\ UNCHANGED <<currentId, dataFlow, configured>>
  BY DEF BoundaryTooSoon, accelerator
<1>2. /\ fresh' = FALSE /\ finished' = FALSE /\ UNCHANGED seen /\ CutOff' = CutOff
      /\ currentId \in Nat /\ configured \in Loop \cup {NoLoop}
  BY <1>1, HandledFields
<1>3. SameStats(stats', stats)
  BY <1>1, StatsCounted
<1>4. CASE InCurrentLoop
  <2>1. UNCHANGED <<state, currentLoop, out, list>>
    BY <1>4 DEF BoundaryTooSoon
  <2>2. ListOK' /\ StateOK'
    BY <1>1, <1>4, <2>1, BufferMore
  <2>3. ~Flowing /\ ~Flowing'
    BY <1>1, <2>1 DEF Flowing
  <2>4. StreamsOK'
    BY <1>1, <1>2, <1>3, <2>1, <2>3, StreamsStay
  <2>5. QED
    BY <2>2, <2>4
<1>5. CASE ~InCurrentLoop
  <2>1. CommitButLast
    BY <1>5 DEF BoundaryTooSoon
  <2>2. IF IsAtHeaderOfCandidate THEN currentLoop' = NewLoop /\ UNCHANGED state ELSE state' = "SEARCHING"
    BY <1>5 DEF BoundaryTooSoon
  <2>3. Restarted /\ state' # "DATAFLOW"
    BY <1>1, <2>2 DEF Restarted
  <2>4. list # <<>> /\ FreshInst = list[Len(list)].inst /\ FreshInst \in Inst
    BY <1>1, BufferingFields
  <2>5. ~Flowing /\ ~Flowing'
    BY <1>1, <2>3 DEF Flowing
  <2>6. StreamsOK' /\ ListOK' /\ Len(list') = 1 /\ list'[1] = list[Len(list)]
    BY <1>1, <1>2, <1>3, <2>1, <2>4, <2>5, CommittedButLast
  <2>7. list'[1].inst = FreshInst /\ Len(list') \in Nat
    BY <2>4, <2>6
  <2>8. SearchingOK' \/ BufferingOK'
    BY <1>2, <2>3, <2>4, <2>6, <2>7, RestartedOK
  <2>9. StateOK'
    BY <1>1, <1>2, <2>7, <2>8, NextState
  <2>10. QED
    BY <2>6, <2>9
<1>6. QED
  BY <1>4, <1>5

-----------------------------------------------------------------------------
(* Instructions go to the data flow *)

(* n more instructions belong to the last segment. *)
LEMMA SizeGrows ==
  ASSUME NEW o, NEW f, IsSeq(f), NEW f2, NEW n \in Nat, Len(f2) = Len(f) + n,
         LastGrows(o, f2, f),
         n > 0, n >= BufferThreshold \/ SegSize(o, f, Len(o))
  PROVE  SegSize(o, f2, Len(o))
<1>1. PICK p \in Nat : p = Len(f)
  BY SeqFields
<1>2. PICK q \in Nat : q = Len(f2)
  BY <1>1
<1>3. PICK S : S = SegmentOf(o, f, Len(o))
  OBVIOUS
<1>4. q = p + n
  BY ONLY <1>1, <1>2, Len(f2) = Len(f) + n
<1>5. S \in SUBSET (1 .. p)
  BY <1>1, <1>3, StreamFields DEF SegmentOf
<1>6. Cardinality(S \cup (p + 1 .. q)) = Cardinality(S) + n
  BY ONLY <1>4, <1>5, p \in Nat, q \in Nat, n \in Nat, RangeMore
<1>7. Cardinality(S) \in Nat
  BY ONLY <1>5, p \in Nat, UpToFields
<1>8. PICK T : T = S \cup (p + 1 .. q)
  OBVIOUS
<1>9. SegmentOf(o, f2, Len(o)) = T
  BY ONLY <1>1, <1>2, <1>3, <1>8, LastGrows(o, f2, f) DEF LastGrows
<1>10. q \in T
  BY ONLY <1>4, <1>8, p \in Nat, n \in Nat, n > 0
<1>11. PICK c \in Nat : c = Cardinality(S)
  BY <1>7
<1>12. Cardinality(T) = c + n
  BY ONLY <1>6, <1>8, <1>11
<1>13. c + n >= BufferThreshold
  <2>1. CASE n >= BufferThreshold
    BY ONLY <2>1, n \in Nat, c \in Nat, ThresholdAssumption
  <2>2. CASE SegSize(o, f, Len(o))
    <3>1. c >= BufferThreshold
      BY <1>3, <1>11, <2>2 DEF SegSize
    <3>2. QED
      BY ONLY <3>1, n \in Nat, c \in Nat, ThresholdAssumption
  <2>3. QED
    BY <2>1, <2>2
<1>14. QED
  BY ONLY <1>9, <1>10, <1>12, <1>13 DEF SegSize

(* All but the last entry of the list go to the data flow that is open.     *)
LEMMA FrontMoved ==
  ASSUME IsSeq(seen), ListOK, list # <<>>, NEW n \in Nat, n = Len(list) - 1, n > 0,
         NEW o, NEW f, NEW l, NEW x, Base(o, f, Given, l, seen, x), SizesBefore(o, f), Open(o, f, l),
         n >= BufferThreshold \/ SegSize(o, f, Len(o)),
         \A i \in 1 .. n : list[i].inst \in LoopInsts[l],
         SegmentOf(o, f, Len(o)) = {} => IsStaticInstLoopHead(l, list[1].inst),
         NEW last, NEW f2, f2 = f \o AddDynamicInsts(Front(list), last).stream,
         NEW q, q = Given + n
  PROVE  /\ Base(o, f2, q, l, seen, x) /\ Sizes(o, f2) /\ Open(o, f2, l) /\ EndsAt(f2, q)
         /\ MoreMoved(o, f2, f, l, n)
<1>1. PICK h : h = AddDynamicInsts(Front(list), last).stream
  OBVIOUS
<1>2. Chunk(h, Given, n) /\ \A i \in 1 .. n : h[i].inst = list[i].inst
  BY <1>1, FrontChunk
<1>3. PICK g : g = Given
  OBVIOUS
<1>4. IsSeq(o) /\ IsSeq(f)
  BY BaseFields
<1>5. f2 = f \o h /\ Chunk(h, g, n) /\ q = g + n
  BY <1>1, <1>2, <1>3
<1>6. Len(f2) = Len(f) + n
  BY ONLY <1>4, <1>5, ChunkExtends
<1>7. ASSUME NEW j \in Len(f) + 1 .. Len(f2)
      PROVE  /\ f2[j].inst \in LoopInsts[l]
             /\ SegmentOf(o, f, Len(o)) = {} /\ j = Len(f) + 1 => IsStaticInstLoopHead(l, f2[j].inst)
  <2>1. PICK p \in Nat : p = Len(f)
    BY <1>4, SeqFields
  <2>2. PICK i \in 1 .. n : j = p + i
    <3>1. j - p \in 1 .. n /\ j = p + (j - p)
      BY ONLY <1>6, <2>1, j \in Len(f) + 1 .. Len(f2), n \in Nat
    <3>2. QED
      BY ONLY <3>1
  <2>3. j = Len(f) + i
    BY <2>1, <2>2
  <2>4. (f \o h)[j] = h[i]
    BY ONLY <1>4, <1>5, <2>3, i \in 1 .. n, ChunkEntry
  <2>5. f2[j].inst = list[i].inst
    BY ONLY <1>2, <1>5, <2>4, i \in 1 .. n
  <2>6. j = Len(f) + 1 => i = 1
    BY ONLY <2>1, <2>2
  <2>7. f2[j].inst \in LoopInsts[l]
    BY ONLY <2>5, i \in 1 .. n, \A k \in 1 .. n : list[k].inst \in LoopInsts[l]
  <2>8. QED
    BY <2>5, <2>6, <2>7
<1>8. Fits(o, f, f2, l)
  BY <1>7 DEF Fits
<1>9. Base(o, f, g, l, seen, x)
  BY <1>3
<1>10. Base(o, f2, q, l, seen, x) /\ SizesBefore(o, f2) /\ Open(o, f2, l)
  BY ONLY <1>5, <1>8, <1>9, SizesBefore(o, f), Open(o, f, l), BaseMoved
<1>11. EndsAt(f2, q)
  BY ONLY <1>5, <1>8, <1>9, SizesBefore(o, f), Open(o, f, l), n > 0, BaseMoved
<1>12. LastGrows(o, f2, f)
  BY ONLY <1>5, <1>8, <1>9, SizesBefore(o, f), Open(o, f, l), BaseMoved
<1>13. MoreMoved(o, f2, f, l, n)
  BY ONLY <1>5, <1>8, <1>9, SizesBefore(o, f), Open(o, f, l), BaseMoved
<1>14. SegSize(o, f2, Len(o))
  BY ONLY <1>4, <1>6, <1>12, n \in Nat, n > 0, n >= BufferThreshold \/ SegSize(o, f, Len(o)), SizeGrows
<1>15. Sizes(o, f2)
  BY ONLY <1>10, <1>14, AllSized
<1>16. QED
  BY ONLY <1>10, <1>11, <1>13, <1>15

LEMMA ConcatNothing == ASSUME NEW s, IsSeq(s) PROVE s \o <<>> = s
<1>1. PICK S : s \in Seq(S)
  BY DEF IsSeq
<1>2. QED
  BY <1>1, ConcatProperties

LEMMA ConcatOne == ASSUME NEW s, IsSeq(s), NEW e PROVE s \o <<e>> = Append(s, e)
<1>1. PICK S : s \in Seq(S)
  BY DEF IsSeq
<1>2. PICK T : T = S \cup {e}
  OBVIOUS
<1>3. s \in Seq(T) /\ e \in T
  BY <1>1, <1>2, SeqDef
<1>4. QED
  BY <1>3, AppendIsConcat

LEMMA EndTokenFields ==
  ASSUME NEW l, NEW id
  PROVE  /\ EndToken(l, id).pos = 0 /\ ~IsInst(EndToken(l, id))
BY DEF EndToken, Token, IsInst

LEMMA FlowFields ==
  ASSUME IsSeq(seen), ListOK, StateOK, state = "DATAFLOW"
  PROVE  /\ IsCandidate(currentLoop) /\ currentLoop \in Loop /\ configured = currentLoop
         /\ Len(list) = Waiting + 1 /\ list[1].inst \in LoopInsts[currentLoop]
<1>1. FlowOK
  BY DEF StateOK, SearchingOK, BufferingOK
<1>2. QED
  BY <1>1 DEF FlowOK, IsCandidate

LEMMA OneMoreMoved ==
  ASSUME NEW s1 \in [Loop -> Stat], NEW l \in Loop, NEW n \in Nat,
         NEW s2, s2 = [s1 EXCEPT ![l].dataFlowDynamic = @ + n]
  PROVE  SameStats(s2, Bump(s1, l, 0, 0, n))
<1>1. PICK v \in Stat : v = s1[l]
  OBVIOUS
<1>2. s2 = [m \in Loop |-> IF m = l THEN [v EXCEPT !.dataFlowDynamic = @ + n] ELSE s1[m]]
  BY <1>1
<1>3. PICK b : b = Bump(s1, l, 0, 0, n)
  OBVIOUS
<1>4. ASSUME NEW m \in Loop
      PROVE  /\ s2[m] \in Stat /\ s2[m].config = b[m].config /\ s2[m].dataFlow = b[m].dataFlow
             /\ s2[m].dataFlowDynamic = b[m].dataFlowDynamic
  <2>1. /\ b[m].config = s1[m].config
        /\ b[m].dataFlow = s1[m].dataFlow
        /\ b[m].dataFlowDynamic = IF m = l THEN s1[m].dataFlowDynamic + n ELSE s1[m].dataFlowDynamic
    BY ONLY <1>3, s1 \in [Loop -> Stat], m \in Loop, n \in Nat, BumpAt
  <2>2. PICK w \in Stat : w = s1[m]
    OBVIOUS
  <2>3. CASE m = l
    <3>1. s2[m] = [w EXCEPT !.dataFlowDynamic = @ + n]
      BY <1>1, <1>2, <2>2, <2>3
    <3>2. QED
      BY <2>1, <2>2, <2>3, <3>1 DEF Stat
  <2>4. CASE m # l
    BY <1>2, <2>1, <2>4
  <2>5. QED
    BY <2>3, <2>4
<1>5. s2 \in [Loop -> Stat]
  BY ONLY <1>2, <1>4
<1>6. QED
  BY <1>3, <1>4, <1>5 DEF SameStats

(* The streams after instructions went to the data flow: it goes on, *)
LEMMA StreamsFlow ==
  ASSUME Base(out', dataFlow', Given', configured', seen', CutOff'), Sizes(out', dataFlow'),
         Open(out', dataFlow', currentLoop'), EndsAt(dataFlow', Given'), Flowing',
         Counted(out', dataFlow', stats')
  PROVE  StreamsOK'
BY DEF StreamsOK

(* or it ends. *)
LEMMA StreamsEnd ==
  ASSUME NEW o, NEW f, NEW g \in Nat, NEW l, NEW t, NEW x, Base(o, f, g, l, t, x), Sizes(o, f), Open(o, f, l),
         EndsAt(f, g), LeftAfter(t, x, g, l), NEW s, Counted(o, f, s), SameStats(stats', s),
         NEW id, dataFlow' = f \o <<EndToken(l, id)>>, out' = o, Given' = g, configured' = l, seen' = t, CutOff' = x,
         ~Flowing'
  PROVE  StreamsOK'
<1>1. PICK e : e = EndToken(l, id)
  OBVIOUS
<1>2. PICK f2 : f2 = Append(f, e)
  OBVIOUS
<1>3. e.pos = 0 /\ ~IsInst(e)
  BY <1>1, EndTokenFields
<1>4. IsSeq(o) /\ IsSeq(f)
  BY BaseFields
<1>5. dataFlow' = f2
  BY <1>1, <1>2, <1>4, ConcatOne
<1>6. TokenAdded(f2, f, e)
  BY <1>2, <1>3, <1>4 DEF TokenAdded
<1>7. Base(o, f2, g, l, t, x) /\ Sizes(o, f2) /\ Closed(o, f2) /\ SameCounts(o, f2, o, f)
  BY ONLY <1>3, <1>6, Base(o, f, g, l, t, x), Sizes(o, f), Open(o, f, l), g \in Nat,
          EndsAt(f, g), LeftAfter(t, x, g, l), BaseEnd
<1>8. Counted(o, f2, stats')
  BY ONLY <1>7, Counted(o, f, s), SameStats(stats', s), CountedKept
<1>9. QED
  BY <1>5, <1>7, <1>8 DEF StreamsOK

(* The last instruction of the list is out of the loop. *)
LEMMA FreshOutside ==
  ASSUME IsSeq(seen), ListOK, StateOK, Handled, IsCandidate(currentLoop), ~InCurrentLoop,
         NEW q, q + 1 = Len(seen), q \in Nat
  PROVE  LeftAfter(seen, 0, q, currentLoop)
<1>1. FreshInst \in Inst /\ FreshInst = seen[Len(seen)].inst
  BY HandledFields, FreshFields
<1>2. FreshInst \notin LoopInsts[currentLoop]
  BY <1>1, InCurrent
<1>3. q < Len(seen) /\ seen[q + 1].inst \notin LoopInsts[currentLoop]
  BY <1>1, <1>2
<1>4. QED
  BY <1>3 DEF LeftAfter

(* The state once the list holds but the instruction handled. *)
LEMMA LeftState ==
  ASSUME IsSeq(seen), ListOK, StateOK, Handled, IsCandidate(currentLoop),
         Len(list') = 1, list'[1] = list[Len(list)], currentId' \in Nat, configured' = currentLoop,
         (InCurrentLoop /\ state' = "DATAFLOW" /\ UNCHANGED currentLoop) \/ Restarted
  PROVE  StateOK'
<1>1. /\ fresh /\ fresh' = FALSE /\ finished' = FALSE /\ Waiting' = 0
  BY HandledFields
<1>2. FreshInst \in Inst /\ FreshInst = list[Len(list)].inst
  BY <1>1, FreshFields
<1>3. list'[1].inst = FreshInst
  BY <1>2
<1>4. ASSUME InCurrentLoop, state' = "DATAFLOW", UNCHANGED currentLoop PROVE FlowOK'
  <2>1. FreshInst \in LoopInsts[currentLoop]
    BY <1>2, <1>4, InCurrent
  <2>2. IsCandidate(currentLoop)'
    BY <1>4 DEF IsCandidate, IsLoopDataFlow
  <2>3. FlowOK'
    BY <1>1, <1>3, <1>4, <2>1, <2>2 DEF FlowOK
  <2>4. QED
    BY <2>3
<1>5. ASSUME Restarted PROVE SearchingOK' \/ BufferingOK'
  BY <1>1, <1>2, <1>3, <1>5, RestartedOK
<1>6. SearchingOK' \/ BufferingOK' \/ FlowOK'
  BY <1>4, <1>5
<1>7. Len(list') \in Nat /\ configured' \in Loop \cup {NoLoop}
  BY DEF IsCandidate
<1>8. QED
  BY <1>1, <1>6, <1>7, NextState

LEMMA FlowStep ==
  ASSUME IsSeq(seen), ListOK, StateOK, StreamsOK, FlowOn
  PROVE  ListOK' /\ StateOK' /\ StreamsOK'
<1>1. Handled /\ state = "DATAFLOW" /\ list' = <<Fresh>> /\ UNCHANGED <<configured, out>>
  BY DEF FlowOn
<1>2. /\ fresh /\ ~finished /\ finished' = FALSE /\ UNCHANGED seen
      /\ Waiting = 1 /\ CutOff = 0 /\ CutOff' = 0 /\ currentId \in Nat
  BY <1>1, HandledFields
<1>3. list # <<>> /\ Fresh = Last(list)
  BY <1>2, FreshFields DEF Fresh
<1>4. /\ IsCandidate(currentLoop) /\ currentLoop \in Loop /\ configured = currentLoop
      /\ Len(list) = 2 /\ list[1].inst \in LoopInsts[currentLoop]
  <2>1. Len(list) = Waiting + 1
    BY <1>1, FlowFields
  <2>2. QED
    BY <1>1, <1>2, <2>1, FlowFields
<1>5. /\ ListOK' /\ Len(list') = 1 /\ list'[1] = list[Len(list)]
      /\ Given' = Given + (Len(list) - 1) /\ Given' \in Nat /\ Given' + 1 = Len(seen)
  BY <1>1, <1>2, <1>3, OneLeft
<1>6. Flowing
  BY <1>1, <1>2 DEF Flowing
<1>7. PICK o, f, l : o = out /\ f = dataFlow /\ l = currentLoop
  OBVIOUS
<1>8. PICK n \in Nat : n = 1
  OBVIOUS
<1>9. PICK q \in Nat : q = Given'
  BY <1>5
<1>10. n = Len(list) - 1 /\ q = Given + n
  BY <1>4, <1>5, <1>8, <1>9
<1>11. /\ Base(o, f, Given, l, seen, 0) /\ Sizes(o, f) /\ Open(o, f, l) /\ EndsAt(f, Given)
       /\ Counted(o, f, stats)
  BY <1>2, <1>4, <1>6, <1>7 DEF StreamsOK
<1>12. SizesBefore(o, f)
  BY <1>11 DEF Sizes, SizesBefore
<1>13. SegSize(o, f, Len(o)) /\ SegmentOf(o, f, Len(o)) # {}
  <2>1. IsSeq(o) /\ IsSeq(f)
    BY ONLY <1>11, BaseFields
  <2>2. Len(o) \in StartsOf(o)
    BY ONLY <1>11, <2>1, OpenFields
  <2>3. QED
    BY ONLY <1>11, <2>2 DEF Sizes, SegSize
<1>14. PICK h : h = AddDynamicInsts(Front(list), staticToDynamic).stream
  OBVIOUS
<1>15. PICK f2 : f2 = f \o h
  OBVIOUS
<1>16. f2 = f \o AddDynamicInsts(Front(list), staticToDynamic).stream
  BY ONLY <1>14, <1>15
<1>17. /\ Base(o, f2, q, l, seen, 0) /\ Sizes(o, f2) /\ Open(o, f2, l) /\ EndsAt(f2, q)
       /\ MoreMoved(o, f2, f, l, n)
  <2>1. \A i \in 1 .. n : list[i].inst \in LoopInsts[l]
    BY <1>4, <1>7, <1>8
  <2>2. n > 0
    BY <1>8
  <2>3. QED
    <3>1. n >= BufferThreshold \/ SegSize(o, f, Len(o))
      BY ONLY <1>13
    <3>2. SegmentOf(o, f, Len(o)) = {} => IsStaticInstLoopHead(l, list[1].inst)
      BY ONLY <1>13
    <3>3. /\ Base(o, f2, q, l, seen, 0) /\ Sizes(o, f2) /\ Open(o, f2, l) /\ EndsAt(f2, q)
      BY ONLY <1>3, <1>10, <1>11, <1>12, <1>16, <2>1, <2>2, <3>1, <3>2, n \in Nat,
              IsSeq(seen), ListOK, FrontMoved, ZenonT(30)
    <3>4. MoreMoved(o, f2, f, l, n)
      BY ONLY <1>3, <1>10, <1>11, <1>12, <1>16, <2>1, <2>2, <3>1, <3>2, n \in Nat,
              IsSeq(seen), ListOK, FrontMoved, ZenonT(30)
    <3>5. QED
      BY ONLY <3>3, <3>4
<1>18. PICK s1 : s1 = CountNew(stats)
  OBVIOUS
<1>19. s1 \in [Loop -> Stat] /\ SameStats(s1, stats)
  <2>1. stats \in [Loop -> Stat]
    BY <1>11 DEF Counted
  <2>2. SameStats(s1, stats)
    BY <1>18, <2>1, CountNewFields
  <2>3. QED
    BY <2>2 DEF SameStats
<1>20. Counted(o, f, s1)
  <2>1. SameCounts(o, f, o, f)
    BY DEF SameCounts
  <2>2. QED
    BY ONLY <1>11, <1>19, <2>1, CountedKept
<1>21. PICK s4 : s4 = Bump(s1, l, 0, 0, n)
  OBVIOUS
<1>22. Counted(o, f2, s4)
  BY ONLY <1>17, <1>20, <1>21, n \in Nat, CountedMoved
<1>23. SameStats(stats', s4)
  <2>1. stats' = [s1 EXCEPT ![l].dataFlowDynamic = @ + 1]
    BY <1>4, <1>7, <1>18 DEF FlowOn
  <2>2. stats' = [s1 EXCEPT ![l].dataFlowDynamic = @ + n]
    BY ONLY <1>8, <2>1
  <2>3. l \in Loop
    BY <1>4, <1>7
  <2>4. QED
    BY ONLY <1>19, <1>21, <2>2, <2>3, n \in Nat, OneMoreMoved
<1>24. dataFlow' = f2 \o (IF InCurrentLoop THEN <<>> ELSE <<EndToken(configured, currentId + 1)>>)
  BY <1>7, <1>14, <1>15 DEF FlowOn
<1>25. IsSeq(f2)
  BY ONLY <1>17, BaseFields
<1>26. CASE InCurrentLoop
  <2>1. UNCHANGED <<state, currentLoop, currentId>>
    BY <1>26 DEF FlowOn
  <2>2. dataFlow' = f2
    BY <1>24, <1>25, <1>26, ConcatNothing
  <2>3. StateOK'
    BY <1>1, <1>2, <1>4, <1>5, <1>26, <2>1, LeftState
  <2>4. Flowing'
    BY <1>1, <1>2, <2>1 DEF Flowing
  <2>5. Counted(o, f2, stats')
    <3>1. SameCounts(o, f2, o, f2)
      BY DEF SameCounts
    <3>2. QED
      BY ONLY <1>22, <1>23, <3>1, CountedKept
  <2>6. /\ Base(out', dataFlow', Given', configured', seen', CutOff') /\ Sizes(out', dataFlow')
        /\ Open(out', dataFlow', currentLoop') /\ EndsAt(dataFlow', Given')
        /\ Counted(out', dataFlow', stats')
    BY <1>1, <1>2, <1>4, <1>7, <1>9, <1>17, <2>1, <2>2, <2>5
  <2>7. StreamsOK'
    BY ONLY <2>4, <2>6, StreamsFlow
  <2>8. QED
    BY <1>5, <2>3, <2>7
<1>27. CASE ~InCurrentLoop
  <2>1. NextSearching /\ currentId' = currentId + 1
    BY <1>27 DEF FlowOn
  <2>2. Restarted /\ state' # "DATAFLOW"
    BY <2>1 DEF NextSearching, Restarted
  <2>3. currentId' \in Nat /\ configured' = currentLoop
    BY <1>1, <1>2, <1>4, <2>1
  <2>4. StateOK'
    BY ONLY <1>1, <1>4, <1>5, <2>2, <2>3, IsSeq(seen), ListOK, StateOK, LeftState
  <2>5. ~Flowing'
    BY <2>2 DEF Flowing
  <2>6. LeftAfter(seen, 0, q, l)
    BY <1>1, <1>4, <1>5, <1>7, <1>9, <1>27, FreshOutside
  <2>7. PICK id : id = currentId + 1
    OBVIOUS
  <2>8. dataFlow' = f2 \o <<EndToken(l, id)>> /\ out' = o /\ Given' = q /\ configured' = l /\ seen' = seen /\ CutOff' = 0
    BY <1>1, <1>2, <1>4, <1>7, <1>9, <1>24, <1>27, <2>7
  <2>9. StreamsOK'
    BY ONLY <1>17, <1>22, <1>23, <2>5, <2>6, <2>8, q \in Nat, StreamsEnd
  <2>10. QED
    BY <1>5, <2>4, <2>9
<1>28. QED
  BY <1>26, <1>27

LEMMA FinishStep ==
  ASSUME IsSeq(seen), ListOK, StateOK, StreamsOK, Finish
  PROVE  ListOK' /\ StateOK' /\ StreamsOK'
<1>1. /\ ~fresh /\ ~finished /\ finished' = TRUE
      /\ UNCHANGED <<state, currentLoop, fresh, configured, seen, stats>>
  BY DEF Finish, program
<1>2. Waiting = 0 /\ Waiting' = 0 /\ CutOff = 0
  BY <1>1 DEF Waiting, CutOff
<1>3. currentId \in Nat /\ configured \in Loop \cup {NoLoop} /\ fresh \in BOOLEAN
  BY DEF StateOK
<1>4. /\ IsSeq(list) /\ Len(list) \in Nat /\ Len(seen) \in Nat /\ Given \in Nat
      /\ Given + Len(list) = Len(seen)
  BY ListFields
<1>5. SameStats(stats', stats)
  <2>1. Counted(out, dataFlow, stats)
    BY DEF StreamsOK
  <2>2. QED
    BY ONLY <1>1, <2>1, SameStatsSelf
<1>6. CASE state = "DATAFLOW"
  <2>1. UNCHANGED <<out, list>> /\ currentId' = currentId + 1
        /\ dataFlow' = Append(dataFlow, EndToken(configured, currentId + 1))
    BY <1>6 DEF Finish
  <2>2. /\ IsCandidate(currentLoop) /\ configured = currentLoop
        /\ Len(list) = 1 /\ list[1].inst \in LoopInsts[currentLoop]
    <3>1. Len(list) = Waiting + 1
      BY <1>6, FlowFields
    <3>2. QED
      BY <1>2, <1>6, <3>1, FlowFields
  <2>3. Given' = Given
    BY <1>1, <2>1 DEF Given
  <2>4. ListOK'
    BY <1>1, <2>1 DEF ListOK, EntryFor, Given
  <2>5. IsCandidate(currentLoop)'
    BY <1>1, <2>2 DEF IsCandidate, IsLoopDataFlow
  <2>6. FlowOK'
    BY <1>1, <1>2, <1>6, <2>1, <2>2, <2>5 DEF FlowOK
  <2>7. currentId' \in Nat /\ Waiting' <= Len(list') /\ state' = "DATAFLOW"
    BY <1>1, <1>2, <1>3, <1>6, <2>1, <2>2
  <2>8. StateOK'
    BY <1>1, <1>3, <2>6, <2>7 DEF StateOK
  <2>9. Flowing /\ ~Flowing' /\ CutOff' = 1
    BY <1>1, <1>6 DEF Flowing, CutOff
  <2>10. PICK o, f, l, g : o = out /\ f = dataFlow /\ l = currentLoop /\ g = Given
    OBVIOUS
  <2>11. /\ Base(o, f, g, l, seen, 0) /\ Sizes(o, f) /\ Open(o, f, l) /\ EndsAt(f, g)
         /\ Counted(o, f, stats)
    BY <1>2, <2>2, <2>9, <2>10 DEF StreamsOK
  <2>12. Base(o, f, g, l, seen, 1)
    <3>1. /\ Placed(o, f, g) /\ Parts(o, f) /\ Ended(o, f, seen, 0)
          /\ l # NoLoop => ConfiguredAt(o, Len(o), l)
      BY ONLY <2>11, BaseFields
    <3>2. Ended(o, f, seen, 1)
      BY ONLY <3>1, EndedOver
    <3>3. QED
      BY ONLY <3>1, <3>2 DEF Base
  <2>13. g \in Nat /\ LeftAfter(seen, 1, g, l)
    <3>1. g \in Nat /\ g + 1 = Len(seen) /\ g < Len(seen)
      BY <1>4, <2>2, <2>10
    <3>2. QED
      BY <3>1 DEF LeftAfter
  <2>14. PICK id : id = currentId + 1
    OBVIOUS
  <2>15. dataFlow' = f \o <<EndToken(l, id)>>
    <3>1. IsSeq(f)
      BY ONLY <2>11, BaseFields
    <3>2. f \o <<EndToken(l, id)>> = Append(f, EndToken(l, id))
      BY ONLY <3>1, ConcatOne
    <3>3. QED
      BY <2>1, <2>2, <2>10, <2>14, <3>2
  <2>16. out' = o /\ Given' = g /\ configured' = l /\ seen' = seen /\ CutOff' = 1
    BY <1>1, <2>1, <2>2, <2>3, <2>9, <2>10
  <2>17. StreamsOK'
    BY ONLY <1>5, <2>9, <2>11, <2>12, <2>13, <2>15, <2>16, StreamsEnd
  <2>18. QED
    BY <2>4, <2>8, <2>17
<1>7. CASE state # "DATAFLOW"
  <2>1. CommitRest /\ UNCHANGED <<dataFlow, currentId>>
    BY <1>7 DEF Finish
  <2>2. out' = out \o list /\ list' = <<>>
    BY <2>1 DEF CommitRest
  <2>3. IsSeq(list') /\ Len(list') = 0
    <3>1. PICK t : t = <<>>
      OBVIOUS
    <3>2. t \in Seq({}) /\ Len(t) = 0
      BY ONLY <3>1
    <3>3. IsSeq(t)
      BY ONLY <3>2 DEF IsSeq
    <3>4. QED
      BY ONLY <2>2, <3>1, <3>2, <3>3
  <2>4. Given' = Len(seen)
    BY <1>1, <1>4, <2>3 DEF Given
  <2>5. ListOK'
    <3>1. Len(list') <= Len(seen') /\ 1 .. Len(list') = {}
      BY <1>1, <1>4, <2>3
    <3>2. QED
      BY <2>3, <3>1 DEF ListOK
  <2>6. ~Flowing /\ ~Flowing' /\ CutOff' = CutOff
    BY <1>1, <1>2, <1>7 DEF Flowing, CutOff
  <2>7. SearchingOK' \/ BufferingOK'
    <3>1. SearchingOK \/ BufferingOK
      BY <1>7 DEF StateOK, FlowOK
    <3>2. SearchingOK => SearchingOK'
      BY <1>1, <1>2, <2>3 DEF SearchingOK
    <3>3. BufferingOK => BufferingOK'
      BY <1>1 DEF BufferingOK, IsCandidate, IsLoopDataFlow
    <3>4. QED
      BY <3>1, <3>2, <3>3
  <2>8. Waiting' <= Len(list') /\ currentId' \in Nat /\ configured' \in Loop \cup {NoLoop}
    BY <1>1, <1>2, <1>3, <2>1, <2>3
  <2>9. fresh' \in BOOLEAN /\ (fresh' => ~finished')
    <3>1. fresh = FALSE
      BY ONLY <1>1, <1>3
    <3>2. fresh' = FALSE
      BY ONLY <1>1, <3>1
    <3>3. QED
      BY ONLY <3>2
  <2>10. StateOK'
    BY <1>1, <2>2, <2>7, <2>8, <2>9 DEF StateOK
  <2>11. PICK n : n = Len(list)
    OBVIOUS
  <2>12. Chunk(list, Given, n) /\ Given' = Given + n
    <3>1. \A i \in 1 .. Len(list) : list[i].pos = Given + i
      BY ListFields
    <3>2. QED
      BY <1>4, <2>4, <2>11, <3>1 DEF Chunk
  <2>13. StreamsOK'
    BY <1>1, <1>5, <2>1, <2>2, <2>6, <2>12, StreamsCommit
  <2>14. QED
    BY <2>5, <2>10, <2>13
<1>8. QED
  BY <1>6, <1>7

(* All the statistics of a data flow that starts. *)
Adds(s4, s1, l, c, n) ==
  \A m \in Loop :
    /\ s4[m].config = IF m = l THEN s1[m].config + c ELSE s1[m].config
    /\ s4[m].dataFlow = IF m = l THEN s1[m].dataFlow + 1 ELSE s1[m].dataFlow
    /\ s4[m].dataFlowDynamic = IF m = l THEN s1[m].dataFlowDynamic + n ELSE s1[m].dataFlowDynamic

LEMMA StartCounted ==
  ASSUME NEW s1 \in [Loop -> Stat], NEW l \in Loop, NEW c \in Nat, NEW n \in Nat,
         NEW s2, s2 = [s1 EXCEPT ![l].config = @ + c, ![l].dataFlow = @ + 1, ![l].dataFlowDynamic = @ + n],
         NEW s4 \in [Loop -> Stat], Adds(s4, s1, l, c, n)
  PROVE  SameStats(s2, s4)
<1>1. PICK v \in Stat : v = s1[l]
  OBVIOUS
<1>2. PICK ra : ra = [s1 EXCEPT ![l].config = @ + c]
  OBVIOUS
<1>3. PICK rb : rb = [ra EXCEPT ![l].dataFlow = @ + 1]
  OBVIOUS
<1>4. s2 = [rb EXCEPT ![l].dataFlowDynamic = @ + n]
  BY ONLY <1>2, <1>3, s2 = [s1 EXCEPT ![l].config = @ + c, ![l].dataFlow = @ + 1, ![l].dataFlowDynamic = @ + n]
<1>5. PICK va : va = [v EXCEPT !.config = @ + c]
  OBVIOUS
<1>6. va \in Stat /\ va.config = v.config + c /\ va.dataFlow = v.dataFlow /\ va.dataFlowDynamic = v.dataFlowDynamic
  BY <1>5 DEF Stat
<1>7. ra = [m \in Loop |-> IF m = l THEN va ELSE s1[m]]
  BY ONLY <1>1, <1>2, <1>5, s1 \in [Loop -> Stat], l \in Loop
<1>8. PICK vb : vb = [va EXCEPT !.dataFlow = @ + 1]
  OBVIOUS
<1>9. vb \in Stat /\ vb.config = va.config /\ vb.dataFlow = va.dataFlow + 1 /\ vb.dataFlowDynamic = va.dataFlowDynamic
  BY ONLY <1>6, <1>8 DEF Stat
<1>10. rb = [m \in Loop |-> IF m = l THEN vb ELSE s1[m]]
  BY ONLY <1>3, <1>7, <1>8, l \in Loop
<1>11. PICK vc : vc = [vb EXCEPT !.dataFlowDynamic = @ + n]
  OBVIOUS
<1>12. vc \in Stat /\ vc.config = vb.config /\ vc.dataFlow = vb.dataFlow /\ vc.dataFlowDynamic = vb.dataFlowDynamic + n
  BY ONLY <1>9, <1>11, n \in Nat DEF Stat
<1>13. s2 = [m \in Loop |-> IF m = l THEN vc ELSE s1[m]]
  BY ONLY <1>4, <1>10, <1>11, l \in Loop
<1>14. s2 \in [Loop -> Stat]
  BY ONLY <1>12, <1>13, s1 \in [Loop -> Stat]
<1>15. ASSUME NEW m \in Loop
       PROVE  /\ s2[m].config = s4[m].config /\ s2[m].dataFlow = s4[m].dataFlow
              /\ s2[m].dataFlowDynamic = s4[m].dataFlowDynamic
  <2>1. CASE m = l
    <3>1. s2[m] = vc /\ s1[m] = v
      BY ONLY <1>1, <1>13, <2>1, m \in Loop
    <3>2. vc.config = v.config + c /\ vc.dataFlow = v.dataFlow + 1 /\ vc.dataFlowDynamic = v.dataFlowDynamic + n
      BY ONLY <1>6, <1>9, <1>12
    <3>3. QED
      BY <2>1, <3>1, <3>2 DEF Adds
  <2>2. CASE m # l
    <3>1. s2[m] = s1[m]
      BY ONLY <1>13, <2>2, m \in Loop
    <3>2. QED
      BY <2>2, <3>1 DEF Adds
  <2>3. QED
    BY <2>1, <2>2
<1>16. QED
  BY <1>14, <1>15 DEF SameStats

(* The accelerator is configured for l. *)
Configured(oc, o, f, g, l, t, s, s2, c) ==
  /\ Base(oc, f, g, l, t, 0) /\ Sizes(oc, f) /\ Closed(oc, f) /\ Counted(oc, f, s2)
  /\ \A m \in Loop : /\ s2[m].config = IF m = l THEN s[m].config + c ELSE s[m].config
                     /\ s2[m].dataFlow = s[m].dataFlow /\ s2[m].dataFlowDynamic = s[m].dataFlowDynamic

LEMMA TokenFieldsOf ==
  ASSUME NEW name, NEW l, NEW id
  PROVE  LET e == Token(name, l, id) IN
         e.pos = 0 /\ ~IsInst(e) /\ IsToken(e, name) /\ e.loop = l
BY DEF Token, IsInst, IsToken

LEMMA ConfigStep ==
  ASSUME NEW o, NEW f, NEW g \in Nat, NEW k, NEW t, Base(o, f, g, k, t, 0), Sizes(o, f), Closed(o, f),
         NEW s, Counted(o, f, s), NEW l \in Loop, NEW id
  PROVE  LET config == IF l # k THEN <<Token("df-config", l, id)>> ELSE <<>> IN
         \E s2 : Configured(o \o config, o, f, g, l, t, s, s2, Len(config))
<1>1. IsSeq(o)
  BY BaseFields
<1>2. s \in [Loop -> Stat]
  BY DEF Counted
<1>3. ASSUME NEW m \in Loop PROVE s[m].config \in Nat /\ s[m].dataFlow \in Nat /\ s[m].dataFlowDynamic \in Nat
  <2>1. PICK v \in Stat : v = s[m]
    BY <1>2
  <2>2. QED
    BY <2>1 DEF Stat
<1>4. CASE l = k
  <2>1. o \o <<>> = o /\ Len(<<>>) = 0
    BY <1>1, ConcatNothing
  <2>2. \A m \in Loop : s[m].config = s[m].config + 0
    BY <1>3
  <2>3. Configured(o, o, f, g, l, t, s, s, 0)
    BY <1>4, <2>2 DEF Configured
  <2>4. QED
    BY <1>4, <2>1, <2>3
<1>5. CASE l # k
  <2>1. PICK e : e = Token("df-config", l, id)
    OBVIOUS
  <2>2. e.pos = 0 /\ ~IsInst(e) /\ IsToken(e, "df-config") /\ l = e.loop
    BY <2>1, TokenFieldsOf
  <2>3. PICK o2 : o2 = Append(o, e)
    OBVIOUS
  <2>4. TokenAdded(o2, o, e)
    BY <1>1, <2>2, <2>3 DEF TokenAdded
  <2>5. Base(o2, f, g, l, t, 0) /\ Sizes(o2, f) /\ Closed(o2, f) /\ OneConfig(o2, f, o, f, l)
    BY ONLY <2>2, <2>4, Base(o, f, g, k, t, 0), Sizes(o, f), Closed(o, f), g \in Nat, BaseConfig
  <2>6. PICK s2 : s2 = Bump(s, l, 1, 0, 0)
    OBVIOUS
  <2>7. Counted(o2, f, s2)
    BY ONLY <2>5, <2>6, Counted(o, f, s), CountedConfig
  <2>8. \A m \in Loop : /\ s2[m].config = IF m = l THEN s[m].config + 1 ELSE s[m].config
                        /\ s2[m].dataFlow = s[m].dataFlow /\ s2[m].dataFlowDynamic = s[m].dataFlowDynamic
    BY <1>2, <2>6, BumpFields
  <2>9. Configured(o2, o, f, g, l, t, s, s2, 1)
    BY <2>5, <2>7, <2>8 DEF Configured
  <2>10. o \o <<e>> = o2 /\ Len(<<e>>) = 1
    BY <1>1, <2>3, ConcatOne
  <2>11. QED
    BY <1>5, <2>1, <2>9, <2>10
<1>6. QED
  BY <1>4, <1>5

(* A data flow for l starts. *)
Started(o2, f, g, l, t, s, s2) ==
  /\ Base(o2, f, g, l, t, 0) /\ SizesBefore(o2, f) /\ Open(o2, f, l) /\ SegmentOf(o2, f, Len(o2)) = {}
  /\ Counted(o2, f, s2)
  /\ \A m \in Loop : /\ s2[m].dataFlow = IF m = l THEN s[m].dataFlow + 1 ELSE s[m].dataFlow
                     /\ s2[m].config = s[m].config /\ s2[m].dataFlowDynamic = s[m].dataFlowDynamic

LEMMA StartStep ==
  ASSUME NEW o, NEW f, NEW g \in Nat, NEW l \in Loop, NEW t, Base(o, f, g, l, t, 0), Sizes(o, f), Closed(o, f),
         NEW s, Counted(o, f, s), NEW id
  PROVE  Started(o \o <<Token("df-start", l, id)>>, f, g, l, t, s, Bump(s, l, 0, 1, 0))
<1>1. IsSeq(o)
  BY BaseFields
<1>2. PICK e : e = Token("df-start", l, id)
  OBVIOUS
<1>3. e.pos = 0 /\ ~IsInst(e) /\ IsToken(e, "df-start") /\ l = e.loop
  BY <1>2, TokenFieldsOf
<1>4. PICK o2 : o2 = Append(o, e)
  OBVIOUS
<1>5. TokenAdded(o2, o, e)
  BY <1>1, <1>3, <1>4 DEF TokenAdded
<1>6. Base(o2, f, g, l, t, 0) /\ SizesBefore(o2, f) /\ Open(o2, f, l)
  BY ONLY <1>3, <1>5, Base(o, f, g, l, t, 0), Sizes(o, f), Closed(o, f), g \in Nat, l \in Loop, BaseStart
<1>7. SegmentOf(o2, f, Len(o2)) = {} /\ OneStart(o2, f, o, f, l)
  BY ONLY <1>3, <1>5, Base(o, f, g, l, t, 0), Sizes(o, f), Closed(o, f), g \in Nat, l \in Loop, BaseStart
<1>8. PICK s2 : s2 = Bump(s, l, 0, 1, 0)
  OBVIOUS
<1>9. Counted(o2, f, s2)
  BY ONLY <1>7, <1>8, Counted(o, f, s), CountedStart
<1>10. s \in [Loop -> Stat]
  BY DEF Counted
<1>11. \A m \in Loop : /\ s2[m].dataFlow = IF m = l THEN s[m].dataFlow + 1 ELSE s[m].dataFlow
                       /\ s2[m].config = s[m].config /\ s2[m].dataFlowDynamic = s[m].dataFlowDynamic
  <2>1. ASSUME NEW m \in Loop PROVE s[m].config \in Nat /\ s[m].dataFlowDynamic \in Nat
    <3>1. PICK v \in Stat : v = s[m]
      BY <1>10
    <3>2. QED
      BY <3>1 DEF Stat
  <2>2. QED
    BY <1>8, <1>10, <2>1, BumpFields
<1>12. o \o <<e>> = o2
  BY <1>1, <1>4, ConcatOne
<1>13. Started(o2, f, g, l, t, s, s2)
  BY <1>6, <1>7, <1>9, <1>11 DEF Started
<1>14. QED
  BY <1>2, <1>8, <1>12, <1>13

LEMMA ProcessStep ==
  ASSUME IsSeq(seen), ListOK, StateOK, StreamsOK, ProcessBuffer
  PROVE  ListOK' /\ StateOK' /\ StreamsOK'
<1>1. Handled /\ state = "BUFFERING" /\ list' = <<Fresh>> /\ configured' = currentLoop
      /\ Len(list) > BufferThreshold
  BY DEF ProcessBuffer
<1>2. /\ fresh /\ ~finished /\ finished' = FALSE /\ UNCHANGED seen
      /\ CutOff = 0 /\ CutOff' = 0 /\ currentId \in Nat
  BY <1>1, HandledFields
<1>3. /\ IsCandidate(currentLoop) /\ currentLoop \in Loop /\ Len(list) \in Nat /\ Len(list) > 1
      /\ IsStaticInstLoopHead(currentLoop, list[1].inst)
      /\ \A i \in 1 .. Len(list) - 1 : list[i].inst \in LoopInsts[currentLoop]
      /\ list # <<>>
  BY <1>1, BufferingFields DEF IsCandidate
<1>4. IsSeq(list)
  BY ListFields
<1>5. /\ ListOK' /\ Len(list') = 1 /\ list'[1] = list[Len(list)]
      /\ Given' = Given + (Len(list) - 1) /\ Given' \in Nat /\ Given' + 1 = Len(seen)
  BY <1>1, <1>2, <1>3, OneLeft DEF Fresh
<1>6. ~Flowing
  BY <1>1 DEF Flowing
<1>7. PICK o, f, l, k, g : o = out /\ f = dataFlow /\ l = currentLoop /\ k = configured /\ g = Given
  OBVIOUS
<1>8. PICK n \in Nat : n = Len(list) - 1
  <2>1. Len(list) - 1 \in Nat
    BY ONLY <1>3
  <2>2. QED
    BY ONLY <2>1
<1>9. PICK q \in Nat : q = Given'
  BY <1>5
<1>10. n > 0 /\ n >= BufferThreshold /\ q = Given + n
  BY <1>1, <1>3, <1>5, <1>8, <1>9, ThresholdAssumption
<1>11. g \in Nat /\ l \in Loop
  BY <1>3, <1>7, ListFields
<1>12. Base(o, f, g, k, seen, 0) /\ Sizes(o, f) /\ Closed(o, f) /\ Counted(o, f, stats)
  BY <1>2, <1>6, <1>7 DEF StreamsOK
<1>13. PICK s1 : s1 = CountNew(stats)
  OBVIOUS
<1>14. s1 \in [Loop -> Stat] /\ SameStats(s1, stats)
  <2>1. stats \in [Loop -> Stat]
    BY <1>12 DEF Counted
  <2>2. SameStats(s1, stats)
    BY <1>13, <2>1, CountNewFields
  <2>3. QED
    BY <2>2 DEF SameStats
<1>15. Counted(o, f, s1)
  <2>1. SameCounts(o, f, o, f)
    BY DEF SameCounts
  <2>2. QED
    BY ONLY <1>12, <1>14, <2>1, CountedKept
<1>16. PICK id1 : id1 = currentId + 1
  OBVIOUS
<1>17. PICK config : config = IF l # k THEN <<Token("df-config", l, id1)>> ELSE <<>>
  OBVIOUS
<1>18. PICK oc : oc = o \o config
  OBVIOUS
<1>19. PICK c \in Nat : c = Len(config)
  <2>1. CASE l # k
    <3>1. Len(<<Token("df-config", l, id1)>>) = 1
      OBVIOUS
    <3>2. QED
      BY <1>17, <2>1, <3>1
  <2>2. CASE l = k
    <3>1. Len(<<>>) = 0
      OBVIOUS
    <3>2. QED
      BY <1>17, <2>2, <3>1
  <2>3. QED
    BY <2>1, <2>2
<1>20. PICK s2 : Configured(oc, o, f, g, l, seen, s1, s2, c)
  <2>1. LET cfg == IF l # k THEN <<Token("df-config", l, id1)>> ELSE <<>> IN
        \E s2 : Configured(o \o cfg, o, f, g, l, seen, s1, s2, Len(cfg))
    BY ONLY <1>11, <1>12, <1>15, ConfigStep
  <2>2. QED
    BY ONLY <1>17, <1>18, <1>19, <2>1
<1>21. Base(oc, f, g, l, seen, 0) /\ Sizes(oc, f) /\ Closed(oc, f) /\ Counted(oc, f, s2)
  BY <1>20 DEF Configured
<1>22. PICK id2 : id2 = currentId + Len(config) + 1
  OBVIOUS
<1>23. PICK o2 : o2 = oc \o <<Token("df-start", l, id2)>>
  OBVIOUS
<1>24. PICK s3 : s3 = Bump(s2, l, 0, 1, 0)
  OBVIOUS
<1>25. Started(o2, f, g, l, seen, s2, s3)
  <2>1. Started(oc \o <<Token("df-start", l, id2)>>, f, g, l, seen, s2, Bump(s2, l, 0, 1, 0))
    BY ONLY <1>11, <1>21, StartStep
  <2>2. QED
    BY ONLY <1>23, <1>24, <2>1
<1>26. /\ Base(o2, f, Given, l, seen, 0) /\ SizesBefore(o2, f) /\ Open(o2, f, l)
       /\ SegmentOf(o2, f, Len(o2)) = {} /\ Counted(o2, f, s3)
  BY <1>7, <1>25 DEF Started
<1>27. PICK last : last = Start(staticToDynamic)
  OBVIOUS
<1>28. PICK f2 : f2 = f \o AddDynamicInsts(Front(list), last).stream
  OBVIOUS
<1>29. /\ Base(o2, f2, q, l, seen, 0) /\ Sizes(o2, f2) /\ Open(o2, f2, l) /\ EndsAt(f2, q)
       /\ MoreMoved(o2, f2, f, l, n)
  <2>1. \A i \in 1 .. n : list[i].inst \in LoopInsts[l]
    BY <1>3, <1>7, <1>8
  <2>2. n >= BufferThreshold \/ SegSize(o2, f, Len(o2))
    BY ONLY <1>10
  <2>3. SegmentOf(o2, f, Len(o2)) = {} => IsStaticInstLoopHead(l, list[1].inst)
    BY ONLY <1>3, <1>7
  <2>4. n = Len(list) - 1 /\ q = Given + n /\ n > 0 /\ list # <<>>
    BY ONLY <1>3, <1>8, <1>10
  <2>5. /\ Base(o2, f2, q, l, seen, 0) /\ Sizes(o2, f2) /\ Open(o2, f2, l) /\ EndsAt(f2, q)
    BY ONLY <1>26, <1>28, <2>1, <2>2, <2>3, <2>4, n \in Nat, IsSeq(seen), ListOK, FrontMoved, ZenonT(30)
  <2>6. MoreMoved(o2, f2, f, l, n)
    BY ONLY <1>26, <1>28, <2>1, <2>2, <2>3, <2>4, n \in Nat, IsSeq(seen), ListOK, FrontMoved, ZenonT(30)
  <2>7. QED
    BY ONLY <2>5, <2>6
<1>30. PICK s4 : s4 = Bump(s3, l, 0, 0, n)
  OBVIOUS
<1>31. Counted(o2, f2, s4)
  BY ONLY <1>26, <1>29, <1>30, n \in Nat, CountedMoved
<1>32. SameStats(stats', s4)
  <2>1. Len(Front(list)) = n
    BY <1>3, <1>4, <1>8, FrontFields
  <2>2. stats' = [s1 EXCEPT ![l].config = @ + c, ![l].dataFlow = @ + 1, ![l].dataFlowDynamic = @ + n]
    <3>1. stats' = [CountNew(stats) EXCEPT ![currentLoop].config = @ + Len(config),
                      ![currentLoop].dataFlow = @ + 1,
                      ![currentLoop].dataFlowDynamic = @ + Len(Front(list))]
      BY <1>7, <1>16, <1>17 DEF ProcessBuffer
    <3>2. QED
      BY <1>7, <1>13, <1>19, <2>1, <3>1
  <2>3. s4 \in [Loop -> Stat] /\ s3 \in [Loop -> Stat]
    BY <1>26, <1>31 DEF Counted
  <2>4. ASSUME NEW m \in Loop
        PROVE  /\ s4[m].config = IF m = l THEN s1[m].config + c ELSE s1[m].config
               /\ s4[m].dataFlow = IF m = l THEN s1[m].dataFlow + 1 ELSE s1[m].dataFlow
               /\ s4[m].dataFlowDynamic = IF m = l THEN s1[m].dataFlowDynamic + n ELSE s1[m].dataFlowDynamic
    <3>1. /\ s4[m].config = s3[m].config /\ s4[m].dataFlow = s3[m].dataFlow
          /\ s4[m].dataFlowDynamic = IF m = l THEN s3[m].dataFlowDynamic + n ELSE s3[m].dataFlowDynamic
      BY ONLY <1>30, <2>3, m \in Loop, n \in Nat, BumpAt
    <3>2. /\ s3[m].dataFlow = IF m = l THEN s2[m].dataFlow + 1 ELSE s2[m].dataFlow
          /\ s3[m].config = s2[m].config /\ s3[m].dataFlowDynamic = s2[m].dataFlowDynamic
      BY <1>25 DEF Started
    <3>3. /\ s2[m].config = IF m = l THEN s1[m].config + c ELSE s1[m].config
          /\ s2[m].dataFlow = s1[m].dataFlow /\ s2[m].dataFlowDynamic = s1[m].dataFlowDynamic
      BY <1>20 DEF Configured
    <3>4. QED
      BY ONLY <3>1, <3>2, <3>3
  <2>5. QED
    <3>1. Adds(s4, s1, l, c, n)
      BY ONLY <2>4 DEF Adds
    <3>2. QED
      BY ONLY <1>11, <1>14, <2>2, <2>3, <3>1, c \in Nat, n \in Nat, StartCounted
<1>33. out' = o2
  BY <1>7, <1>16, <1>17, <1>18, <1>22, <1>23 DEF ProcessBuffer
<1>34. dataFlow' = f2 \o (IF InCurrentLoop THEN <<>> ELSE <<EndToken(l, id2 + 1)>>)
  <2>1. Token("df-start", l, id2).id = id2
    BY DEF Token
  <2>2. dataFlow' = f2 \o (IF InCurrentLoop THEN <<>> ELSE <<EndToken(l, Token("df-start", l, id2).id + 1)>>)
    BY <1>7, <1>16, <1>17, <1>22, <1>27, <1>28 DEF ProcessBuffer
  <2>3. QED
    BY ONLY <2>1, <2>2
<1>35. currentId' \in Nat
  <2>1. Token("df-start", l, id2).id = id2
    BY DEF Token
  <2>2. currentId' = IF InCurrentLoop THEN Token("df-start", l, id2).id ELSE Token("df-start", l, id2).id + 1
    BY <1>7, <1>16, <1>17, <1>22 DEF ProcessBuffer
  <2>3. id2 \in Nat
    BY <1>2, <1>19, <1>22
  <2>4. QED
    BY ONLY <2>1, <2>2, <2>3
<1>36. IsSeq(f2)
  BY ONLY <1>29, BaseFields
<1>37. CASE InCurrentLoop
  <2>1. state' = "DATAFLOW" /\ UNCHANGED currentLoop
    BY <1>37 DEF ProcessBuffer
  <2>2. dataFlow' = f2
    BY <1>34, <1>36, <1>37, ConcatNothing
  <2>3. StateOK'
    BY ONLY <1>1, <1>3, <1>5, <1>35, <1>37, <2>1, IsSeq(seen), ListOK, StateOK, LeftState
  <2>4. Flowing'
    BY <1>2, <2>1 DEF Flowing
  <2>5. Counted(o2, f2, stats')
    <3>1. SameCounts(o2, f2, o2, f2)
      BY DEF SameCounts
    <3>2. QED
      BY ONLY <1>31, <1>32, <3>1, CountedKept
  <2>6. /\ Base(out', dataFlow', Given', configured', seen', CutOff') /\ Sizes(out', dataFlow')
        /\ Open(out', dataFlow', currentLoop') /\ EndsAt(dataFlow', Given')
        /\ Counted(out', dataFlow', stats')
    BY <1>1, <1>2, <1>7, <1>9, <1>29, <1>33, <2>1, <2>2, <2>5
  <2>7. StreamsOK'
    BY ONLY <2>4, <2>6, StreamsFlow
  <2>8. QED
    BY <1>5, <2>3, <2>7
<1>38. CASE ~InCurrentLoop
  <2>1. IF IsAtHeaderOfCandidate THEN currentLoop' = NewLoop /\ UNCHANGED state ELSE state' = "SEARCHING"
    BY <1>38 DEF ProcessBuffer
  <2>2. Restarted /\ state' # "DATAFLOW"
    BY <1>1, <2>1 DEF Restarted
  <2>3. StateOK'
    BY ONLY <1>1, <1>3, <1>5, <1>35, <2>2, IsSeq(seen), ListOK, StateOK, LeftState
  <2>4. ~Flowing'
    BY <2>2 DEF Flowing
  <2>5. LeftAfter(seen, 0, q, l)
    BY <1>1, <1>3, <1>5, <1>7, <1>9, <1>38, FreshOutside
  <2>6. PICK id : id = id2 + 1
    OBVIOUS
  <2>7. dataFlow' = f2 \o <<EndToken(l, id)>> /\ out' = o2 /\ Given' = q /\ configured' = l /\ seen' = seen /\ CutOff' = 0
    BY <1>1, <1>2, <1>7, <1>9, <1>33, <1>34, <1>38, <2>6
  <2>8. StreamsOK'
    BY ONLY <1>29, <1>31, <1>32, <2>4, <2>5, <2>7, q \in Nat, StreamsEnd
  <2>9. QED
    BY <1>5, <2>3, <2>8
<1>39. QED
  BY <1>37, <1>38

-----------------------------------------------------------------------------
(* Every step *)

LEMMA InitOK == DataFlowInit => ListOK /\ StateOK /\ StreamsOK
<1> SUFFICES ASSUME DataFlowInit PROVE ListOK /\ StateOK /\ StreamsOK
  OBVIOUS
<1>1. /\ seen = <<>> /\ list = <<>> /\ out = <<>> /\ dataFlow = <<>> /\ state = "SEARCHING"
      /\ fresh = FALSE /\ finished = FALSE /\ currentId = 0 /\ configured = NoLoop
      /\ stats = [l \in Loop |-> NoStats]
  BY DEF DataFlowInit, PassInit, ProgramInit, GraphInit, AcceleratorOff
<1>2. PICK e : e = <<>>
  OBVIOUS
<1>3. Len(e) = 0 /\ DOMAIN e = {} /\ e \in Seq({})
  BY ONLY <1>2
<1>4. IsSeq(e)
  BY ONLY <1>3 DEF IsSeq
<1>5. IsSeq(seen) /\ IsSeq(list) /\ Len(seen) = 0 /\ Len(list) = 0 /\ out = e /\ dataFlow = e
  BY <1>1, <1>2, <1>3, <1>4
<1>6. Given = 0 /\ Waiting = 0 /\ CutOff = 0 /\ ~Flowing
  BY <1>1, <1>5 DEF Given, Waiting, CutOff, Flowing
<1>7. ListOK
  BY <1>5 DEF ListOK
<1>8. StateOK
  <2>1. fresh \in BOOLEAN /\ finished \in BOOLEAN /\ (fresh => ~finished) /\ ~finished
    BY ONLY <1>1
  <2>2. currentId \in Nat /\ configured \in Loop \cup {NoLoop} /\ Waiting <= Len(list) /\ Len(list) <= Waiting + 1
    BY ONLY <1>1, <1>5, <1>6
  <2>3. SearchingOK
    BY ONLY <1>1, <2>2 DEF SearchingOK
  <2>4. QED
    BY ONLY <2>1, <2>2, <2>3 DEF StateOK
<1>9. MovedOf(e) = {} /\ EndsOf(e) = {} /\ StartsOf(e) = {} /\ \A name : TokensOf(e, name) = {}
  BY ONLY <1>3 DEF MovedOf, EndsOf, StartsOf, TokensOf
<1>10. Positions(e) = {} /\ Within(e, 0) /\ Ordered(e)
  BY ONLY <1>3, <1>9 DEF Positions, Within, Ordered
<1>11. Placed(e, e, 0)
  <2>1. Interleaved(e, e)
    BY ONLY <1>9 DEF Interleaved
  <2>2. Positions(e) \cup Positions(e) = 1 .. 0
    BY ONLY <1>10
  <2>3. \A j \in MovedOf(e) : \E k \in StartsOf(e) : j \in SegmentOf(e, e, k)
    BY ONLY <1>9
  <2>4. QED
    BY ONLY <1>4, <1>10, <2>1, <2>2, <2>3 DEF Placed
<1>12. Parts(e, e) /\ Sizes(e, e) /\ Ended(e, e, seen, 0)
  BY ONLY <1>9 DEF Parts, Sizes, Ended
<1>13. Base(e, e, 0, NoLoop, seen, 0)
  BY ONLY <1>11, <1>12 DEF Base
<1>14. Closed(e, e)
  BY ONLY <1>2, <1>9 DEF Closed
<1>15. Counted(e, e, stats)
  <2>1. NoStats \in Stat /\ NoStats.config = 0 /\ NoStats.dataFlow = 0 /\ NoStats.dataFlowDynamic = 0
    BY DEF NoStats, Stat
  <2>2. Cardinality({}) = 0
    BY FS_EmptySet
  <2>3. \A name, l : LoopTokens(e, name, l) = {}
    BY ONLY <1>9 DEF LoopTokens
  <2>4. \A l : MovedFor(e, e, l) = {}
    BY ONLY <2>3 DEF MovedFor
  <2>5. QED
    BY <1>1, <2>1, <2>2, <2>3, <2>4 DEF Counted
<1>16. StreamsOK
  BY <1>1, <1>5, <1>6, <1>12, <1>13, <1>14, <1>15 DEF StreamsOK
<1>17. QED
  BY <1>7, <1>8, <1>16

(* A step that reads nothing of the trace leaves aborted as it is or sets it.*)
LEMMA AbortedStays ==
  ASSUME DataFlowNext, ~aborted' PROVE ~aborted
BY DEF DataFlowNext, Search, Buffer, BoundaryTooSoon, ProcessBuffer, FlowOn, Finish

LEMMA AcceleratorStep ==
  ASSUME IsSeq(seen), ListOK, StateOK, StreamsOK, DataFlowNext
  PROVE  ListOK' /\ StateOK' /\ StreamsOK'
BY SearchStep, BufferStep, BoundaryStep, ProcessStep, FlowStep, FinishStep DEF DataFlowNext

(* The invariant of the accelerator, and of the program that it traces. *)
Inv == running = "adfa" => ProgramInv /\ (~aborted => ListOK /\ StateOK /\ StreamsOK)

LEMMA InvInit == Init => Inv
<1> SUFFICES ASSUME Init, running = "adfa" PROVE ProgramInv /\ (~aborted => ListOK /\ StateOK /\ StreamsOK)
  BY DEF Inv
<1>1. DataFlowInit
  BY DEF Init
<1>2. ProgramInv
  BY <1>1, ProgramInitOK DEF DataFlowInit, PassInit
<1>3. QED
  BY <1>1, <1>2, InitOK

LEMMA SeenIsSeq == ASSUME ProgramInv PROVE IsSeq(seen)
BY DEF ProgramInv

LEMMA InvNext == Inv /\ [Next]_vars => Inv'
<1> SUFFICES ASSUME Inv, [Next]_vars, running' = "adfa"
             PROVE  ProgramInv' /\ (~aborted' => ListOK' /\ StateOK' /\ StreamsOK')
  BY DEF Inv
<1>1. running' = running
  BY DEF Next, vars
<1>2. ProgramInv /\ (~aborted => ListOK /\ StateOK /\ StreamsOK)
  BY <1>1 DEF Inv
<1>3. IsSeq(seen)
  BY <1>2, SeenIsSeq
<1>4. CASE LoadOne /\ UNCHANGED accelerator
  <2>1. [ProgramNext]_program
    BY <1>4, LoadProgram DEF LoadOne
  <2>2. ProgramInv'
    BY <1>2, <2>1, ProgramNextKept
  <2>3. ASSUME ~aborted' PROVE ListOK' /\ StateOK' /\ StreamsOK'
    <3>1. PICK A : LoadOneDynamicInst(A)
      BY <1>4 DEF LoadOne
    <3>2. ~aborted
      BY <1>2, <2>3, <3>1, LoadReads DEF Loaded
    <3>3. QED
      BY <1>2, <1>3, <1>4, <2>3, <3>2, LoadStep
  <2>4. QED
    BY <2>2, <2>3
<1>5. CASE DataFlowNext
  <2>1. UNCHANGED program
    BY <1>5 DEF DataFlowNext, Search, Buffer, BoundaryTooSoon, ProcessBuffer, FlowOn, Finish, Handled
  <2>2. ProgramInv'
    BY <1>2, <2>1, ProgramNextKept
  <2>3. ASSUME ~aborted' PROVE ListOK' /\ StateOK' /\ StreamsOK'
    <3>1. ~aborted
      BY <1>5, <2>3, AbortedStays
    <3>2. QED
      BY <1>2, <1>3, <1>5, <3>1, AcceleratorStep
  <2>4. QED
    BY <2>2, <2>3
<1>6. CASE UNCHANGED vars
  <2>1. UNCHANGED program
    BY <1>6 DEF vars
  <2>2. ProgramInv'
    BY <1>2, <2>1, ProgramNextKept
  <2>3. ASSUME ~aborted' PROVE ListOK' /\ StateOK' /\ StreamsOK'
    <3>1. /\ aborted' = aborted /\ fresh' = fresh
          /\ UNCHANGED <<seen, list, currentId, state, currentLoop, finished, out, stats, dataFlow, configured>>
      BY <1>6 DEF vars, program, graph, pass, accelerator
    <3>2. ListOK /\ StateOK /\ StreamsOK
      BY <1>2, <2>3, <3>1
    <3>3. QED
      BY <3>1, <3>2, NothingChanges DEF NotEntered
  <2>4. QED
    BY <2>2, <2>3
<1>7. QED
  BY <1>1, <1>4, <1>5, <1>6 DEF Next

-----------------------------------------------------------------------------
(* What the invariant says of the streams *)

LEMMA SameNotions ==
  /\ Ends = EndsOf(dataFlow) /\ Starts = StartsOf(out)
  /\ {k \in DOMAIN out : IsInst(out[k])} = MovedOf(out)
  /\ DOMAIN dataFlow \ Ends = MovedOf(dataFlow)
  /\ \A k : Segment(k) = SegmentOf(out, dataFlow, k)
<1>1. Ends = EndsOf(dataFlow)
  BY DEF Ends, EndsOf
<1>2. Starts = StartsOf(out)
  BY DEF Starts, StartsOf, TokensOf
<1>3. {k \in DOMAIN out : IsInst(out[k])} = MovedOf(out)
  BY DEF MovedOf
<1>4. DOMAIN dataFlow \ Ends = MovedOf(dataFlow)
  BY DEF Ends, MovedOf
<1>5. ASSUME NEW k PROVE Segment(k) = SegmentOf(out, dataFlow, k)
  BY <1>1, <1>2, <1>4 DEF Segment, SegmentOf
<1>6. QED
  BY <1>1, <1>2, <1>3, <1>4, <1>5

LEMMA StreamsAreMerged ==
  ASSUME IsSeq(seen), ListOK, StateOK, StreamsOK
  PROVE  StreamsMerge
<1>1. /\ Placed(out, dataFlow, Given) /\ IsSeq(out) /\ IsSeq(dataFlow)
  BY BaseFields DEF StreamsOK
<1>2. PICK K, M, E, S : /\ K = MovedOf(out) /\ M = MovedOf(dataFlow)
                        /\ E = EndsOf(dataFlow) /\ S = StartsOf(out)
  OBVIOUS
<1>3. {out[k].pos : k \in K} \cup {dataFlow[j].pos : j \in M} = 1 .. Given
  BY <1>1, <1>2 DEF Placed, Positions
<1>4. /\ \A k, l \in K : k < l => out[k].pos < out[l].pos
      /\ \A j, l \in M : j < l => dataFlow[j].pos < dataFlow[l].pos
  BY <1>1, <1>2 DEF Placed, Ordered
<1>5. \A k \in K, j \in M :
        IF UpTo(S, k) <= UpTo(E, j) THEN out[k].pos < dataFlow[j].pos ELSE dataFlow[j].pos < out[k].pos
  BY <1>1, <1>2 DEF Placed, Interleaved
<1>6. \A j \in M : \E k \in S : j \in SegmentOf(out, dataFlow, k)
  BY <1>1, <1>2 DEF Placed
<1>7. \A k \in DOMAIN list : list[k].pos = Given + k
  <2>1. DOMAIN list = 1 .. Len(list)
    BY ListFields, SeqFields
  <2>2. QED
    BY <2>1, ListFields
<1>8. Cardinality(S) = Cardinality(E) + (IF state = "DATAFLOW" /\ ~finished THEN 1 ELSE 0)
  <2>1. CASE Flowing
    BY <1>2, <2>1 DEF StreamsOK, Open, Flowing
  <2>2. CASE ~Flowing
    <3>1. Cardinality(S) = Cardinality(E)
      BY <1>2, <2>2 DEF StreamsOK, Closed
    <3>2. Cardinality(E) \in Nat
      <4>1. E \in SUBSET (1 .. Len(dataFlow)) /\ Len(dataFlow) \in Nat
        BY <1>1, <1>2, StreamFields
      <4>2. QED
        BY ONLY <4>1, UpToFields
    <3>3. QED
      BY <2>2, <3>1, <3>2 DEF Flowing
  <2>3. QED
    BY <2>1, <2>2
<1>9. finished /\ state # "DATAFLOW" => list = <<>>
  BY DEF StateOK
<1>10. /\ Ends = E /\ Starts = S /\ {k \in DOMAIN out : IsInst(out[k])} = K
       /\ DOMAIN dataFlow \ Ends = M /\ DOMAIN dataFlow \ E = M
       /\ \A k : Segment(k) = SegmentOf(out, dataFlow, k)
  BY <1>2, SameNotions
<1>11. QED
  BY <1>3, <1>4, <1>5, <1>6, <1>7, <1>8, <1>9, <1>10 DEF StreamsMerge, Given

LEMMA SegmentsAreWhole ==
  ASSUME StreamsOK
  PROVE  SegmentsWhole
<1>1. Parts(out, dataFlow) /\ Ended(out, dataFlow, seen, CutOff) /\ Sizes(out, dataFlow)
  BY BaseFields DEF StreamsOK
<1>2. SUFFICES ASSUME NEW k \in Starts
               PROVE
    LET loop  == out[k].loop
        first == {j \in Segment(k) : \A l \in Segment(k) : j <= l}
        last  == {j \in Segment(k) : \A l \in Segment(k) : l <= j} IN
    /\ \E c \in 1 .. k :
         /\ IsToken(out[c], "df-config") /\ out[c].loop = loop
         /\ \A l \in c + 1 .. k : ~IsToken(out[l], "df-config")
    /\ Segment(k) # {} /\ Cardinality(Segment(k)) >= BufferThreshold
    /\ \A j \in Segment(k) : dataFlow[j].inst \in LoopInsts[loop]
    /\ \A j \in first : IsStaticInstLoopHead(loop, dataFlow[j].inst)
    /\ \A j \in last :
         LET after == dataFlow[j].pos + 1 IN
         UpTo(Starts, k) <= Cardinality(Ends)
           /\ ~(finished /\ state = "DATAFLOW" /\ after = Len(seen)) =>
         seen[after].inst \notin LoopInsts[loop]
  BY DEF SegmentsWhole
<1>3. PICK S : S = SegmentOf(out, dataFlow, k)
  OBVIOUS
<1>4. Segment(k) = S /\ Starts = StartsOf(out) /\ Ends = EndsOf(dataFlow) /\ k \in StartsOf(out)
  BY <1>3, SameNotions
<1>5. PICK loop : loop = out[k].loop
  OBVIOUS
<1>6. SegPart(out, dataFlow, k) /\ SegSize(out, dataFlow, k) /\ SegEnd(out, dataFlow, seen, CutOff, k)
  BY <1>1, <1>4 DEF Parts, Sizes, Ended
<1>7. \E c \in 1 .. k : /\ IsToken(out[c], "df-config") /\ out[c].loop = loop
                        /\ \A l \in c + 1 .. k : ~IsToken(out[l], "df-config")
  BY <1>5, <1>6 DEF SegPart, ConfiguredAt
<1>8. S # {} /\ Cardinality(S) >= BufferThreshold
  BY <1>3, <1>6 DEF SegSize
<1>9. /\ \A j \in S : dataFlow[j].inst \in LoopInsts[loop]
      /\ \A j \in S : (\A i \in S : j <= i) => IsStaticInstLoopHead(loop, dataFlow[j].inst)
  BY <1>3, <1>5, <1>6 DEF SegPart
<1>10. ASSUME NEW j \in S, \A i \in S : i <= j,
              UpTo(StartsOf(out), k) <= Cardinality(EndsOf(dataFlow)),
              ~(finished /\ state = "DATAFLOW" /\ dataFlow[j].pos + 1 = Len(seen))
       PROVE  seen[dataFlow[j].pos + 1].inst \notin LoopInsts[loop]
  <2>1. LeftAfter(seen, CutOff, dataFlow[j].pos, loop)
    BY <1>3, <1>5, <1>6, <1>10 DEF SegEnd, EndRight
  <2>2. ~(CutOff = 1 /\ dataFlow[j].pos + 1 = Len(seen))
    BY <1>10 DEF CutOff
  <2>3. QED
    BY <2>1, <2>2 DEF LeftAfter
<1>11. QED
  BY <1>4, <1>5, <1>7, <1>8, <1>9, <1>10

LEMMA StatsAreExact ==
  ASSUME StreamsOK
  PROVE  StatsExact
<1>1. \A l \in Loop :
        /\ stats[l].config = Cardinality(LoopTokens(out, "df-config", l))
        /\ stats[l].dataFlow = Cardinality(LoopTokens(out, "df-start", l))
        /\ stats[l].dataFlowDynamic = Cardinality(MovedFor(out, dataFlow, l))
  BY DEF StreamsOK, Counted
<1>2. ASSUME NEW name, NEW l
      PROVE  LoopTokens(out, name, l) = {k \in DOMAIN out : IsToken(out[k], name) /\ out[k].loop = l}
  BY DEF LoopTokens, TokensOf
<1>3. ASSUME NEW l
      PROVE  MovedFor(out, dataFlow, l) =
               UNION {Segment(k) : k \in {k \in DOMAIN out : IsToken(out[k], "df-start") /\ out[k].loop = l}}
  <2>1. \A k : Segment(k) = SegmentOf(out, dataFlow, k)
    BY SameNotions
  <2>2. PICK T : T = LoopTokens(out, "df-start", l)
    OBVIOUS
  <2>3. {Segment(k) : k \in T} = {SegmentOf(out, dataFlow, k) : k \in T}
    BY <2>1
  <2>4. T = {k \in DOMAIN out : IsToken(out[k], "df-start") /\ out[k].loop = l}
    BY <1>2, <2>2
  <2>5. QED
    BY <2>2, <2>3, <2>4 DEF MovedFor
<1>4. ASSUME NEW l \in Loop
      PROVE  /\ stats[l].config = Cardinality({k \in DOMAIN out : IsToken(out[k], "df-config") /\ out[k].loop = l})
             /\ stats[l].dataFlow = Cardinality({k \in DOMAIN out : IsToken(out[k], "df-start") /\ out[k].loop = l})
             /\ stats[l].dataFlowDynamic = Cardinality(
                  UNION {Segment(k) : k \in {k \in DOMAIN out : IsToken(out[k], "df-start") /\ out[k].loop = l}})
  <2>1. LoopTokens(out, "df-config", l) = {k \in DOMAIN out : IsToken(out[k], "df-config") /\ out[k].loop = l}
    BY ONLY <1>2
  <2>2. LoopTokens(out, "df-start", l) = {k \in DOMAIN out : IsToken(out[k], "df-start") /\ out[k].loop = l}
    BY ONLY <1>2
  <2>3. /\ stats[l].config = Cardinality(LoopTokens(out, "df-config", l))
        /\ stats[l].dataFlow = Cardinality(LoopTokens(out, "df-start", l))
        /\ stats[l].dataFlowDynamic = Cardinality(MovedFor(out, dataFlow, l))
    BY ONLY <1>1, l \in Loop
  <2>4. MovedFor(out, dataFlow, l) =
          UNION {Segment(k) : k \in {k \in DOMAIN out : IsToken(out[k], "df-start") /\ out[k].loop = l}}
    BY ONLY <1>3
  <2>5. QED
    BY <2>1, <2>2, <2>3, <2>4
<1>5. QED
  BY <1>4, Zenon DEF StatsExact

(* Inv is an invariant. *)
LEMMA InvAlways == Spec => []Inv
BY InvInit, InvNext, PTL DEF Spec

LEMMA InvSound == Inv => DataFlowSound
<1> SUFFICES ASSUME Inv, running = "adfa", ~aborted PROVE StreamsSound
  BY DEF DataFlowSound
<1>1. ProgramInv /\ ListOK /\ StateOK /\ StreamsOK
  BY DEF Inv
<1>2. StreamsMerge /\ SegmentsWhole /\ StatsExact
  BY <1>1, SeenIsSeq, StreamsAreMerged, SegmentsAreWhole, StatsAreExact
<1>3. QED
  BY <1>2 DEF StreamsSound

(* For every program in LLVM's form, every nest of loops and every buffer   *)
(* threshold: the instruction stream with the segments of the data flow     *)
(* put back in place of the start tokens is the trace so far, but for what  *)
(* the list still holds; each segment is run by an accelerator configured   *)
(* for its loop, is as long as the threshold asks for, begins with an       *)
(* iteration and ends where the loop is left; and the statistics count what *)
(* the streams hold.                                                        *)
THEOREM StreamsAlwaysSound == Spec => []DataFlowSound
BY InvAlways, InvSound, PTL

-----------------------------------------------------------------------------
(* The assertions of the pass *)

LEMMA OwnAssertions ==
  ASSUME IsSeq(seen), ListOK, StateOK, DataFlowNext, ~aborted
  PROVE  ~aborted'
<1>1. CASE Search
  <2>1. Handled /\ state = "SEARCHING" /\ aborted' = (aborted \/ Len(list) > 2)
    BY <1>1 DEF Search
  <2>2. Waiting = 1 /\ Len(list) \in Nat
    BY <2>1, HandledFields, ListFields
  <2>3. Len(list) <= Waiting + 1
    BY <2>1 DEF StateOK, SearchingOK, BufferingOK, FlowOK
  <2>4. ~(Len(list) > 2)
    BY ONLY <2>2, <2>3
  <2>5. QED
    BY ONLY <2>1, <2>4, ~aborted
<1>2. CASE FlowOn
  <2>1. Handled /\ state = "DATAFLOW" /\ aborted' = (aborted \/ Len(list) < 2)
    BY <1>2 DEF FlowOn
  <2>2. Waiting = 1 /\ Len(list) = Waiting + 1
    BY <2>1, HandledFields, FlowFields
  <2>3. ~(Len(list) < 2)
    BY ONLY <2>2
  <2>4. QED
    BY ONLY <2>1, <2>3, ~aborted
<1>3. CASE ProcessBuffer
  <2>1. /\ Handled /\ state = "BUFFERING"
        /\ aborted' = (aborted \/ Head(list).inst \notin LoopInsts[currentLoop])
    BY <1>3 DEF ProcessBuffer
  <2>2. /\ Len(list) \in Nat /\ Len(list) > 1 /\ list # <<>>
        /\ \A i \in 1 .. Len(list) - 1 : list[i].inst \in LoopInsts[currentLoop]
    BY <2>1, BufferingFields
  <2>3. 1 \in 1 .. Len(list) - 1
    BY ONLY <2>2
  <2>4. Head(list) = list[1]
    <3>1. PICK S : list \in Seq(S)
      BY ListFields DEF IsSeq
    <3>2. QED
      BY <2>2, <3>1, HeadTailProperties
  <2>5. Head(list).inst \in LoopInsts[currentLoop]
    BY <2>2, <2>3, <2>4
  <2>6. QED
    BY ONLY <2>1, <2>5, ~aborted
<1>4. CASE Buffer \/ BoundaryTooSoon \/ Finish
  BY <1>4 DEF Buffer, BoundaryTooSoon, Finish
<1>5. QED
  BY <1>1, <1>2, <1>3, <1>4 DEF DataFlowNext

PassAsserts == running = "adfa" /\ DataFlowNext /\ ~aborted => ~aborted'

(* No step of the accelerator pass fails an assertion of the pass: while it *)
(* searches, the list holds two instructions at most, in a data flow it     *)
(* holds two, and a buffer that is processed begins in its loop             *)
(* (AbstractDataFlowAcceleratorPass.cpp).  What may still fail is the       *)
(* reading of the trace.                                                    *)
THEOREM PassAssertsAlways == Spec => [][PassAsserts]_vars
<1>1. ASSUME Inv, [Next]_vars PROVE [PassAsserts]_vars
  <2>1. ASSUME running = "adfa", DataFlowNext, ~aborted PROVE ~aborted'
    <3>1. ProgramInv /\ ListOK /\ StateOK
      BY <1>1, <2>1 DEF Inv
    <3>2. QED
      BY <2>1, <3>1, SeenIsSeq, OwnAssertions
  <2>2. QED
    BY <2>1 DEF PassAsserts
<1>2. QED
  BY <1>1, InvAlways, PTL DEF Spec

=============================================================================
