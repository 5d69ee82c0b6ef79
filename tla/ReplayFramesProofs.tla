------------------------- MODULE ReplayFramesProofs -------------------------
(***************************************************************************)
(* Proofs about Replay: the frames of the data graph are the innermost     *)
(* activations of the program, what they know of their instructions is     *)
(* true, and so are the dependences through registers and control.         *)
(***************************************************************************)
EXTENDS ReplayProofs

-----------------------------------------------------------------------------
(* Frames *)

Frames(n) ==
  [fn : Instrumented, dep : [Inst -> SUBSET (1 .. n)], env : [Inst -> {NoValue} \cup 0 .. n],
   prevBB : Block \cup {"none"}, prevCallInst : {0} \cup Inst, callStack : Nat]

LEMMA FramesGrow ==
  ASSUME NEW n \in Nat, NEW m \in Nat, n <= m
  PROVE  Frames(n) \subseteq Frames(m)
<1>1. 1 .. n \subseteq 1 .. m /\ 0 .. n \subseteq 0 .. m
  OBVIOUS
<1>2. [Inst -> SUBSET (1 .. n)] \subseteq [Inst -> SUBSET (1 .. m)]
  BY <1>1
<1>3. [Inst -> {NoValue} \cup 0 .. n] \subseteq [Inst -> {NoValue} \cup 0 .. m]
  BY <1>1
<1>4. QED
  BY ONLY <1>2, <1>3 DEF Frames

LEMMA FrameFields ==
  ASSUME NEW n \in Nat, NEW fr \in Frames(n)
  PROVE  /\ fr.fn \in Instrumented /\ fr.dep \in [Inst -> SUBSET (1 .. n)]
         /\ fr.env \in [Inst -> {NoValue} \cup 0 .. n] /\ fr.prevBB \in Block \cup {"none"}
         /\ fr.prevCallInst \in {0} \cup Inst /\ fr.callStack \in Nat
  BY DEF Frames

LEMMA NewFrame ==
  ASSUME NEW f \in Instrumented, NEW n \in Nat
  PROVE  LET d == DynamicFrame(f) IN
         /\ d \in Frames(n) /\ d.fn = f /\ d.prevBB = "none"
         /\ \A i \in Inst : d.dep[i] = {} /\ d.env[i] = NoValue
<1>1. PICK x, y : x = [i \in Inst |-> {}] /\ y = [i \in Inst |-> NoValue]
  OBVIOUS
<1>2. x \in [Inst -> SUBSET (1 .. n)] /\ y \in [Inst -> {NoValue} \cup 0 .. n]
  BY <1>1
<1>3. DynamicFrame(f) = [fn |-> f, dep |-> x, env |-> y, prevBB |-> "none",
                         prevCallInst |-> 0, callStack |-> 0]
  BY <1>1 DEF DynamicFrame
<1>4. QED
  BY <1>1, <1>2, <1>3 DEF Frames

(* The frame of the innermost activation of F, or a new one.                *)
LEMMA FrameStack ==
  ASSUME NEW n \in Nat, frames \in Seq(Frames(n)), NEW F \in Instrumented
  PROVE  LET s == GetLLVMInstruction(F) IN
         /\ s \in Seq(Frames(n)) /\ Len(s) \in Nat \ {0}
         /\ \/ /\ \A f \in 1 .. Len(frames) : frames[f].fn # F
               /\ Len(s) = 1 /\ s[1] = DynamicFrame(F)
            \/ /\ Len(s) \in 1 .. Len(frames) /\ frames[Len(s)].fn = F
               /\ \A g \in 1 .. Len(frames) : g > Len(s) => frames[g].fn # F
               /\ \A g \in 1 .. Len(s) : s[g] = frames[g]
<1> DEFINE mine == {k \in DOMAIN frames : frames[k].fn = F}
<1>1. PICK l \in Nat : l = Len(frames) /\ DOMAIN frames = 1 .. l
  BY LenProperties
<1>2. GetLLVMInstruction(F) = IF mine = {} THEN <<DynamicFrame(F)>> ELSE SubSeq(frames, 1, Max(mine))
  BY DEF GetLLVMInstruction
<1>3. CASE mine = {}
  <2>1. PICK d \in Frames(n) : d = DynamicFrame(F)
    BY NewFrame
  <2>2. <<d>> \in Seq(Frames(n)) /\ Len(<<d>>) = 1 /\ <<d>>[1] = d
    OBVIOUS
  <2>3. \A f \in 1 .. l : frames[f].fn # F
    BY <1>1, <1>3
  <2>4. QED
    BY <1>1, <1>2, <1>3, <2>1, <2>2, <2>3
<1>4. CASE mine # {}
  <2>1. mine \subseteq 0 .. l
    BY <1>1
  <2>2. \E x \in mine : \A y \in mine : y <= x
    BY <1>4, <2>1, LargestElement
  <2>3. \E x \in mine : \A y \in mine : x >= y
    BY <1>1, <2>2
  <2>4. PICK m : m = Max(mine)
    OBVIOUS
  <2>5. m \in mine /\ \A y \in mine : m >= y
    BY <2>3, <2>4 DEF Max
  <2>6. m \in 1 .. l /\ frames[m].fn = F
    BY <1>1, <2>5
  <2>7. \A g \in 1 .. l : g > m => frames[g].fn # F
    BY <1>1, <2>5
  <2>8. PICK s : s = SubSeq(frames, 1, m)
    OBVIOUS
  <2>9. s \in Seq(Frames(n)) /\ Len(s) = m /\ \A g \in 1 .. m : s[g] = frames[g]
    <3>1. m \in Int /\ 1 \in Int /\ \A i \in 1 .. m : frames[i] \in Frames(n)
      BY <1>1, <2>6, ElementOfSeq
    <3>2. /\ s \in Seq(Frames(n)) /\ Len(s) = IF 1 <= m THEN m - 1 + 1 ELSE 0
          /\ \A i \in 1 .. m - 1 + 1 : s[i] = frames[1 + i - 1]
      BY ONLY <2>8, <3>1, SubSeqProperties
    <3>3. QED
      BY <2>6, <3>1, <3>2
  <2>10. GetLLVMInstruction(F) = s
    BY <1>2, <1>4, <2>4, <2>8
  <2>11. m \in Nat \ {0}
    BY <2>6
  <2>12. QED
    BY ONLY <1>1, <2>6, <2>7, <2>9, <2>10, <2>11
<1>5. QED
  BY <1>3, <1>4

(* The frame after an instruction.                                          *)
OperandsOf(ops, i, n) ==
  DOMAIN ops = DOMAIN Code[i].uses /\ \A k \in DOMAIN ops : ops[k] \in 0 .. n

FrameUpdated(fr, i, ops, result, n) ==
  LET c == UpdateFrame(fr, i, ops, result, n + 1) IN
  /\ c \in Frames(n + 1) /\ c.fn = fr.fn /\ c.dep = [fr.dep EXCEPT ![i] = {n + 1}]
  /\ c.prevBB = Code[i].bb
  /\ c.prevCallInst = fr.prevCallInst /\ c.callStack = fr.callStack
  /\ \A u \in Inst :
       \/ u = i /\ result # NoValue /\ c.env[u] = result
       \/ ~ (u = i /\ result # NoValue) /\ c.env[u] = fr.env[u]
       \/ u # i /\ \E k \in DOMAIN ops : Code[i].uses[k] = u /\ c.env[u] = ops[k]

LEMMA FrameAfter ==
  ASSUME NEW n \in Nat, NEW fr \in Frames(n), NEW i \in Inst,
         NEW ops, OperandsOf(ops, i, n), NEW result \in {NoValue} \cup 0 .. n + 1
  PROVE  FrameUpdated(fr, i, ops, result, n)
<1>0. DOMAIN ops = DOMAIN Code[i].uses /\ \A k \in DOMAIN ops : ops[k] \in 0 .. n
  BY DEF OperandsOf
<1> DEFINE Given(u) == {ops[k] : k \in {k \in DOMAIN ops : Code[i].uses[k] = u}}
           Env(u) == CASE u = i /\ result # NoValue -> result
                       [] u # i /\ fr.env[u] = NoValue /\ Given(u) # {} -> CHOOSE v \in Given(u) : TRUE
                       [] OTHER -> fr.env[u]
<1>1. ASSUME NEW u \in Inst
      PROVE  /\ Env(u) \in {NoValue} \cup 0 .. n + 1
             /\ \/ u = i /\ result # NoValue /\ Env(u) = result
                \/ ~ (u = i /\ result # NoValue) /\ Env(u) = fr.env[u]
                \/ u # i /\ \E k \in DOMAIN ops : Code[i].uses[k] = u /\ Env(u) = ops[k]
  <2>1. fr.env[u] \in {NoValue} \cup 0 .. n + 1
    <3>1. fr.env[u] \in {NoValue} \cup 0 .. n
      BY FrameFields
    <3>2. QED
      BY <3>1
  <2>2. CASE u = i /\ result # NoValue
    BY <2>2
  <2>3. CASE u # i /\ fr.env[u] = NoValue /\ Given(u) # {}
    <3>1. PICK w : w = CHOOSE v \in Given(u) : TRUE
      OBVIOUS
    <3>2. w \in Given(u)
      BY <2>3, <3>1
    <3>3. PICK k \in DOMAIN ops : Code[i].uses[k] = u /\ w = ops[k]
      BY <3>2
    <3>4. w \in {NoValue} \cup 0 .. n + 1
      BY <1>0, <3>3
    <3>5. Env(u) = w
      BY <2>3, <3>1
    <3>6. QED
      BY <2>3, <3>3, <3>4, <3>5
  <2>4. CASE ~ (u = i /\ result # NoValue) /\ ~ (u # i /\ fr.env[u] = NoValue /\ Given(u) # {})
    BY <2>1, <2>4
  <2>5. QED
    BY <2>2, <2>3, <2>4
<1>2. PICK env : env = [u \in Inst |-> Env(u)]
  OBVIOUS
<1>3. PICK dep : dep = [fr.dep EXCEPT ![i] = {n + 1}]
  OBVIOUS
<1>4. PICK c : c = [fr EXCEPT !.env = env, !.dep = dep, !.prevBB = Code[i].bb]
  OBVIOUS
<1>5. env \in [Inst -> {NoValue} \cup 0 .. n + 1] /\ \A u \in Inst : env[u] = Env(u)
  BY <1>1, <1>2
<1>6. dep \in [Inst -> SUBSET (1 .. n + 1)]
  <2>1. fr.dep \in [Inst -> SUBSET (1 .. n)]
    BY FrameFields
  <2>2. \A S \in SUBSET (1 .. n) : S \in SUBSET (1 .. n + 1)
    OBVIOUS
  <2>3. \A j \in Inst : fr.dep[j] \in SUBSET (1 .. n + 1)
    BY <2>1, <2>2
  <2>4. {n + 1} \in SUBSET (1 .. n + 1)
    OBVIOUS
  <2>5. QED
    BY <1>3, <2>1, <2>3, <2>4
<1>7. UpdateFrame(fr, i, ops, result, n + 1) = c
  BY <1>2, <1>3, <1>4 DEF UpdateFrame, UpdateEnv, Frames
<1>8. Code[i].bb \in Block
  BY InstType
<1> HIDE DEF Env
<1>9. /\ c \in Frames(n + 1) /\ c.fn = fr.fn /\ c.dep = dep /\ c.env = env
      /\ c.prevBB = Code[i].bb
      /\ c.prevCallInst = fr.prevCallInst /\ c.callStack = fr.callStack
  BY ONLY <1>4, <1>5, <1>6, <1>8, fr \in Frames(n) DEF Frames
<1>10. QED
  BY ONLY <1>1, <1>3, <1>5, <1>7, <1>9 DEF FrameUpdated

-----------------------------------------------------------------------------
(* What a frame knows of its activation *)

Fresh(a) == \A i \in Inst : a.by[i] = 0 /\ a.exit.by[i] = 0

(* The frame holds of each instruction the last traced execution, and of    *)
(* the values that are used the last or none; a frame that no traced branch *)
(* has left a block in belongs to an activation that is not traced yet.     *)
KnowsDeps(fr, a) ==
  \A i \in Inst : PhisApart \/ Code[i].op # "phi" => fr.dep[i] = {a.by[i]} \ {0}
KnowsValues(fr, a) ==
  PhisApart /\ ResultsTraced => \A u \in UsedValues \ {0} : fr.env[u] \in {NoValue, a.val[u]}
Follows(fr, a) ==
  /\ fr.fn = a.fn /\ a.fn \in Instrumented
  /\ KnowsDeps(fr, a) /\ KnowsValues(fr, a)
  /\ fr.prevBB = "none" => Fresh(a)
  /\ fr.prevBB # "none" /\ Code[a.at].op = "phi" => fr.prevBB = a.from

(* The frame of an activation that waits for a call.                        *)
Pending(fr, a) ==
  /\ fr.prevBB = Code[a.at].bb
  /\ fr.prevCallInst \in {0, a.at} /\ fr.callStack \in {0, Len(Code[a.at].uses)}

LEMMA UsedInst ==
  ASSUME NEW u \in UsedValues \ {0}
  PROVE  u \in Inst /\ u # 0 /\ Code[u].op \notin {"store", "br", "ret"}
  BY ValueAssumption

LEMMA NewFollows ==
  ASSUME NEW n \in Nat, NEW a \in Activations(n), a.fn \in Instrumented, Fresh(a)
  PROVE  Follows(DynamicFrame(a.fn), a)
<1>1. PICK d : d = DynamicFrame(a.fn)
  OBVIOUS
<1>2. /\ d.fn = a.fn /\ d.prevBB = "none" /\ \A i \in Inst : d.dep[i] = {} /\ d.env[i] = NoValue
  BY <1>1, NewFrame
<1>3. KnowsDeps(d, a)
  BY <1>2 DEF Fresh, KnowsDeps
<1>4. KnowsValues(d, a)
  BY <1>2, UsedInst DEF KnowsValues
<1>5. QED
  BY <1>1, <1>2, <1>3, <1>4 DEF Follows

OperandsAre(ops, i, a) ==
  \A k \in DOMAIN ops : Code[i].uses[k] # 0 => ops[k] = a.val[Code[i].uses[k]]
Executes(c, a, i, result, n) ==
  /\ c.fn = a.fn /\ c.by = [a.by EXCEPT ![i] = n + 1]
  /\ \A u \in UsedValues \ {0} :
       c.val[u] = IF u = i /\ result # NoValue THEN result ELSE a.val[u]
  /\ Code[c.at].op = "phi" => c.from = Code[i].bb

(* An instruction i that is no phi: c is what the activation has become.    *)
LEMMA InstFollows ==
  ASSUME NEW n \in Nat, NEW fr \in Frames(n), NEW a \in Activations(n), NEW c, NEW i \in Inst,
         Follows(fr, a), a.at = i, NEW ops, OperandsOf(ops, i, n), OperandsAre(ops, i, a),
         NEW result, FrameUpdated(fr, i, ops, result, n), Executes(c, a, i, result, n),
         NEW d, d = UpdateFrame(fr, i, ops, result, n + 1)
  PROVE  Follows(d, c)
<1>1. /\ \A k \in DOMAIN ops : Code[i].uses[k] # 0 => ops[k] = a.val[Code[i].uses[k]]
      /\ c.fn = a.fn /\ c.by = [a.by EXCEPT ![i] = n + 1]
      /\ \A u \in UsedValues \ {0} :
           c.val[u] = IF u = i /\ result # NoValue THEN result ELSE a.val[u]
      /\ Code[c.at].op = "phi" => c.from = Code[i].bb
  BY DEF OperandsAre, Executes
<1>2. /\ d.fn = fr.fn /\ d.dep = [fr.dep EXCEPT ![i] = {n + 1}] /\ d.prevBB = Code[i].bb
      /\ \A u \in Inst :
           \/ u = i /\ result # NoValue /\ d.env[u] = result
           \/ ~ (u = i /\ result # NoValue) /\ d.env[u] = fr.env[u]
           \/ u # i /\ \E k \in DOMAIN ops : Code[i].uses[k] = u /\ d.env[u] = ops[k]
  BY DEF FrameUpdated
<1>3. KnowsDeps(d, c)
  <2>1. fr.dep \in [Inst -> SUBSET (1 .. n)] /\ a.by \in [Inst -> 0 .. n]
    BY FrameFields, ActivationFields DEF Values
  <2>2. d.dep[i] = {n + 1} /\ c.by[i] = n + 1 /\ n + 1 # 0
    BY <1>1, <1>2, <2>1
  <2>3. ASSUME NEW j \in Inst, j # i PROVE d.dep[j] = fr.dep[j] /\ c.by[j] = a.by[j]
    BY <1>1, <1>2, <2>1, <2>3
  <2>4. {n + 1} = {n + 1} \ {0}
    BY <2>2
  <2>5. QED
    BY <2>2, <2>3, <2>4 DEF Follows, KnowsDeps
<1>4. KnowsValues(d, c)
  <2>1. ASSUME PhisApart, ResultsTraced, NEW u \in UsedValues \ {0}
        PROVE  d.env[u] \in {NoValue, c.val[u]}
    <3>1. u \in Inst /\ u # 0
      BY UsedInst
    <3>2. c.val[u] = IF u = i /\ result # NoValue THEN result ELSE a.val[u]
      BY <1>1
    <3>3. fr.env[u] \in {NoValue, a.val[u]}
      BY <2>1 DEF Follows, KnowsValues
    <3>4. CASE u = i /\ result # NoValue /\ d.env[u] = result
      BY <3>2, <3>4
    <3>5. CASE ~ (u = i /\ result # NoValue) /\ d.env[u] = fr.env[u]
      BY <3>2, <3>3, <3>5
    <3>6. CASE u # i /\ \E k \in DOMAIN ops : Code[i].uses[k] = u /\ d.env[u] = ops[k]
      <4>1. PICK k \in DOMAIN ops : Code[i].uses[k] = u /\ d.env[u] = ops[k]
        BY <3>6
      <4>2. d.env[u] = a.val[u]
        BY <1>1, <3>1, <4>1
      <4>3. QED
        BY <3>2, <3>6, <4>2
    <3>7. QED
      BY <1>2, <3>1, <3>4, <3>5, <3>6
  <2>2. QED
    BY <2>1 DEF KnowsValues
<1>5. Code[i].bb # "none"
  BY InstType, CodeAssumption
<1>6. QED
  BY <1>1, <1>2, <1>3, <1>4, <1>5 DEF Follows

(* A phi: u is the operand that the program takes.                          *)
LEMMA PhiFollows ==
  ASSUME NEW n \in Nat, NEW fr \in Frames(n), NEW a \in Activations(n), Follows(fr, a),
         StandsAt(a), Code[a.at].op = "phi"
  PROVE  LET c == PhiDone(a, Incoming[a.at][a.from]) IN
         /\ Follows(HandlePhiNode(fr, a.at, c.val[a.at]), c)
         /\ HandlePhiNode(fr, a.at, c.val[a.at]) \in Frames(n)
<1>1. PICK i : i = a.at
  OBVIOUS
<1>2. i \in Inst /\ a.fn \in Instrumented /\ Code[i].op = "phi"
  BY <1>1 DEF StandsAt, Follows
<1>3. PICK w : w = Incoming[i][a.from]
  OBVIOUS
<1>4. w \in {0} \cup (UsedValues \cap Inst) /\ i \in DOMAIN Incoming /\ a.from \in DOMAIN Incoming[i]
  BY <1>1, <1>2, <1>3, PhiOperand
<1>5. PICK c : c = PhiDone(a, w)
  OBVIOUS
<1>6. /\ c \in Activations(n) /\ c.fn = a.fn /\ c.at = i + 1
      /\ c.by = [a.by EXCEPT ![i] = PhiValue(w, a.exit.by)]
      /\ c.val = [a.val EXCEPT ![i] = PhiValue(w, a.exit.val)]
      /\ c.from = a.from /\ c.exit = a.exit
  BY <1>1, <1>2, <1>3, <1>5, PhiOK
<1>7. 0 \notin Inst
  BY InstType
<1>8. PhisApart /\ w # 0 => a.exit.by[w] = a.by[w] /\ a.exit.val[w] = a.val[w]
  <2>1. ASSUME PhisApart, w # 0 PROVE ~EarlierPhi(a, w)
    <3>1. w \in Inst /\ (Code[w].op = "phi" /\ Code[w].bb = Code[i].bb => w >= i)
      BY <1>2, <1>3, <1>4, <2>1 DEF PhisApart
    <3>2. w \in Nat /\ i \in Nat
      BY <1>2, <3>1, InstType
    <3>3. QED
      BY <1>1, <3>1, <3>2 DEF EarlierPhi
  <2>2. QED
    BY <1>1, <1>2, <1>4, <2>1 DEF StandsAt
<1>9. PICK u : u = IF fr.prevBB = "none" THEN 0 ELSE Incoming[i][fr.prevBB]
  OBVIOUS
<1>10. /\ fr.prevBB = "none" => u = 0 /\ Fresh(a)
       /\ fr.prevBB # "none" => u = w
  BY <1>1, <1>2, <1>3, <1>9 DEF Follows
<1>11. u \in {0} \cup (UsedValues \cap Inst)
  BY <1>4, <1>10
<1>12. PICK e, s : /\ e = (IF u # 0 /\ fr.env[u] # NoValue THEN fr.env[u] ELSE c.val[i])
                   /\ s = (IF u # 0 THEN fr.dep[u] ELSE {})
  OBVIOUS
<1>13. PICK env, dep : env = [fr.env EXCEPT ![i] = e] /\ dep = [fr.dep EXCEPT ![i] = s]
  OBVIOUS
<1>14. PICK d : d = [fr EXCEPT !.env = env, !.dep = dep]
  OBVIOUS
<1>15. HandlePhiNode(fr, i, c.val[i]) = d
  BY ONLY <1>9, <1>12, <1>13, <1>14, fr \in Frames(n) DEF HandlePhiNode, Frames
<1>16. /\ fr.dep \in [Inst -> SUBSET (1 .. n)] /\ a.by \in [Inst -> 0 .. n]
       /\ fr.env \in [Inst -> {NoValue} \cup 0 .. n] /\ a.val \in [Inst -> 0 .. n]
       /\ c.val \in [Inst -> 0 .. n]
  BY <1>6, FrameFields, ActivationFields DEF Values
<1>17. e \in {NoValue} \cup 0 .. n /\ s \in SUBSET (1 .. n)
  BY <1>2, <1>11, <1>12, <1>16
<1>18. env \in [Inst -> {NoValue} \cup 0 .. n] /\ dep \in [Inst -> SUBSET (1 .. n)]
  BY <1>13, <1>16, <1>17
<1>19. /\ d \in Frames(n) /\ d.fn = fr.fn /\ d.env = env /\ d.dep = dep /\ d.prevBB = fr.prevBB
  BY ONLY <1>14, <1>18, fr \in Frames(n) DEF Frames
<1>20. KnowsDeps(d, c)
  <2>1. PhisApart => s = {PhiValue(w, a.exit.by)} \ {0}
    <3>1. CASE u = 0
      <4>1. PhiValue(w, a.exit.by) = 0
        BY <1>4, <1>10, <3>1 DEF PhiValue, Fresh
      <4>2. QED
        BY <1>12, <3>1, <4>1
    <3>2. CASE PhisApart /\ u # 0
      <4>1. u = w /\ u \in Inst
        BY <1>10, <1>11, <3>2
      <4>2. PhiValue(w, a.exit.by) = a.by[w]
        BY <1>8, <3>2, <4>1 DEF PhiValue
      <4>3. fr.dep[w] = {a.by[w]} \ {0}
        BY <3>2, <4>1 DEF Follows, KnowsDeps
      <4>4. QED
        BY <1>12, <3>2, <4>1, <4>2, <4>3
    <3>3. QED
      BY <3>1, <3>2
  <2>2. dep[i] = s /\ c.by[i] = PhiValue(w, a.exit.by)
    BY <1>2, <1>6, <1>13, <1>16
  <2>3. ASSUME NEW j \in Inst, j # i PROVE dep[j] = fr.dep[j] /\ c.by[j] = a.by[j]
    BY <1>6, <1>13, <1>16, <2>3
  <2>4. QED
    BY <1>2, <1>19, <2>1, <2>2, <2>3 DEF Follows, KnowsDeps
<1>21. KnowsValues(d, c)
  <2>1. SUFFICES ASSUME PhisApart, ResultsTraced
                 PROVE  \A x \in UsedValues \ {0} : d.env[x] \in {NoValue, c.val[x]}
    BY DEF KnowsValues
  <2>2. \A x \in UsedValues \ {0} : fr.env[x] \in {NoValue, a.val[x]}
    BY <2>1 DEF Follows, KnowsValues
  <2>3. e \in {NoValue, c.val[i]}
    <3>1. CASE u # 0 /\ fr.env[u] # NoValue
      <4>1. u = w /\ u \in UsedValues \ {0}
        BY <1>10, <1>11, <3>1
      <4>2. fr.env[u] = a.val[u]
        BY <2>2, <3>1, <4>1
      <4>3. c.val[i] = a.val[u]
        BY <1>2, <1>6, <1>8, <1>16, <2>1, <3>1, <4>1 DEF PhiValue
      <4>4. QED
        BY <1>12, <3>1, <4>2, <4>3
    <3>2. CASE ~ (u # 0 /\ fr.env[u] # NoValue)
      BY <1>12, <3>2
    <3>3. QED
      BY <3>1, <3>2
  <2>4. ASSUME NEW x \in UsedValues \ {0} PROVE env[x] \in {NoValue, c.val[x]}
    <3>1. x \in Inst
      BY UsedInst
    <3>2. CASE x = i
      BY <1>2, <1>13, <1>16, <2>3, <3>2
    <3>3. CASE x # i
      <4>1. env[x] = fr.env[x] /\ c.val[x] = a.val[x]
        BY <1>6, <1>13, <1>16, <3>1, <3>3
      <4>2. QED
        BY <2>2, <4>1
    <3>4. QED
      BY <3>2, <3>3
  <2>5. QED
    BY <1>19, <2>4
<1>22. fr.prevBB = "none" => Fresh(c)
  <2>1. ASSUME fr.prevBB = "none", NEW j \in Inst PROVE c.by[j] = 0 /\ c.exit.by[j] = 0
    <3>1. Fresh(a) /\ u = 0
      BY <1>10, <2>1
    <3>2. PhiValue(w, a.exit.by) = 0
      BY <1>4, <3>1 DEF PhiValue, Fresh
    <3>3. QED
      BY <1>6, <1>16, <3>1, <3>2 DEF Fresh
  <2>2. QED
    BY <2>1 DEF Fresh
<1>23. fr.prevBB # "none" => fr.prevBB = c.from
  BY <1>1, <1>2, <1>6 DEF Follows
<1>24. Follows(d, c)
  BY <1>2, <1>6, <1>19, <1>20, <1>21, <1>22, <1>23 DEF Follows
<1>25. QED
  BY <1>1, <1>3, <1>5, <1>15, <1>19, <1>24

(* The frame of a caller when a call begins, ...                            *)
LEMMA CallPending ==
  ASSUME NEW n \in Nat, NEW fr \in Frames(n), NEW a, NEW i \in Inst, Follows(fr, a), a.at = i,
         Code[i].op \in {"call", "invoke"}, fr.prevBB = Code[i].bb
  PROVE  LET d == SetUpCall(fr, i) IN
         d \in Frames(n) /\ Follows(d, a) /\ Pending(d, a) /\ d.prevCallInst = i
<1>1. PICK l \in Nat : l = Len(Code[i].uses)
  BY InstType, LenProperties
<1>2. PICK d : d = [fr EXCEPT !.prevCallInst = i, !.callStack = l]
  OBVIOUS
<1>3. SetUpCall(fr, i) = d
  BY <1>1, <1>2 DEF SetUpCall
<1>4. /\ d \in Frames(n) /\ d.fn = fr.fn /\ d.dep = fr.dep /\ d.env = fr.env
      /\ d.prevBB = fr.prevBB /\ d.prevCallInst = i /\ d.callStack = l
  BY ONLY <1>2, fr \in Frames(n), i \in Inst, l \in Nat DEF Frames
<1>5. Follows(d, a)
  BY <1>4 DEF Follows, KnowsDeps, KnowsValues
<1>6. Pending(d, a)
  BY <1>1, <1>4 DEF Pending
<1>7. QED
  BY <1>3, <1>4, <1>5, <1>6

(* and when a callee returns (PopFrame).                                    *)
Returned(fr, ops) ==
  IF ops = <<>> \/ fr.prevCallInst = 0 THEN fr
  ELSE [fr EXCEPT !.env[fr.prevCallInst] = ops[1], !.prevCallInst = 0, !.callStack = 0]

LEMMA ReturnedFields ==
  ASSUME NEW n \in Nat, NEW fr \in Frames(n), NEW ops, ops # <<>> => ops[1] \in 0 .. n
  PROVE  LET d == Returned(fr, ops) IN
         /\ d \in Frames(n) /\ d.fn = fr.fn /\ d.dep = fr.dep /\ d.prevBB = fr.prevBB
         /\ d.prevCallInst \in {0, fr.prevCallInst} /\ d.callStack \in {0, fr.callStack}
         /\ \A u \in Inst : u # fr.prevCallInst => d.env[u] = fr.env[u]
         /\ \A u \in Inst : u = fr.prevCallInst =>
              d.env[u] = IF ops = <<>> THEN fr.env[u] ELSE ops[1]
<1>1. fr.env \in [Inst -> {NoValue} \cup 0 .. n] /\ fr.prevCallInst \in {0} \cup Inst /\ 0 \notin Inst
  BY FrameFields, InstType
<1>2. CASE ops = <<>> \/ fr.prevCallInst = 0
  BY <1>1, <1>2 DEF Returned
<1>3. CASE ~ (ops = <<>> \/ fr.prevCallInst = 0)
  <2>1. PICK env : env = [fr.env EXCEPT ![fr.prevCallInst] = ops[1]]
    OBVIOUS
  <2>2. /\ env \in [Inst -> {NoValue} \cup 0 .. n]
        /\ \A u \in Inst : env[u] = IF u = fr.prevCallInst THEN ops[1] ELSE fr.env[u]
    BY <1>1, <1>3, <2>1
  <2>3. PICK d : d = [fr EXCEPT !.env = env, !.prevCallInst = 0, !.callStack = 0]
    OBVIOUS
  <2>4. Returned(fr, ops) = d
    BY ONLY <1>3, <2>1, <2>3, fr \in Frames(n) DEF Returned, Frames
  <2>5. /\ d \in Frames(n) /\ d.fn = fr.fn /\ d.dep = fr.dep /\ d.env = env
        /\ d.prevBB = fr.prevBB /\ d.prevCallInst = 0 /\ d.callStack = 0
    BY ONLY <2>2, <2>3, fr \in Frames(n) DEF Frames
  <2>6. QED
    BY ONLY <1>3, <2>2, <2>4, <2>5
<1>4. QED
  BY <1>2, <1>3

(* To uninstrumented code, which called back from below activation a:       *)
(* nothing uses what the call in a is given.                                *)
LEMMA ReturnedBelow ==
  ASSUME NEW n \in Nat, NEW fr \in Frames(n), NEW a, Follows(fr, a), Pending(fr, a),
         NEW ops, ops # <<>> => ops[1] \in 0 .. n, ResultsTraced => a.at \notin UsedValues \ {0}
  PROVE  Follows(Returned(fr, ops), a) /\ Pending(Returned(fr, ops), a)
<1>1. PICK d : d = Returned(fr, ops)
  OBVIOUS
<1>2. /\ d.fn = fr.fn /\ d.dep = fr.dep /\ d.prevBB = fr.prevBB
      /\ d.prevCallInst \in {0, fr.prevCallInst} /\ d.callStack \in {0, fr.callStack}
      /\ \A u \in Inst : u # fr.prevCallInst => d.env[u] = fr.env[u]
  BY <1>1, ReturnedFields
<1>3. KnowsValues(d, a)
  <2>1. ASSUME ResultsTraced, NEW u \in UsedValues \ {0} PROVE d.env[u] = fr.env[u]
    <3>1. u # fr.prevCallInst /\ u \in Inst
      BY <2>1, UsedInst DEF Pending
    <3>2. QED
      BY <1>2, <3>1
  <2>2. QED
    BY <2>1 DEF Follows, KnowsValues
<1>4. QED
  BY <1>1, <1>2, <1>3 DEF Follows, Pending, KnowsDeps

(* A caller goes on, where the block of the call is the one left last.      *)
LEMMA ResumedFollows ==
  ASSUME NEW n \in Nat, NEW fr, NEW d, NEW a \in Activations(n), Follows(fr, a),
         Pending(fr, a), StandsAt(a), Waits(a), NEW v \in 0 .. n,
         d.fn = fr.fn, d.dep = fr.dep, d.prevBB = fr.prevBB,
         KnowsValues(d, Resume(a, v))
  PROVE  Follows(d, Resume(a, v))
<1>1. PICK c : c = Resume(a, v)
  OBVIOUS
<1>2. a.fn \in Instrumented /\ a.at \in Inst
  BY DEF Follows, StandsAt
<1>3. /\ c.fn = a.fn /\ c.by = a.by
      /\ Code[c.at].op # "phi" \/ c.from = Code[a.at].bb
  BY <1>1, <1>2, ResumeOK
<1>4. d.prevBB = Code[a.at].bb /\ d.prevBB # "none"
  BY <1>2, InstType, CodeAssumption DEF Pending
<1>5. KnowsValues(d, c)
  BY <1>1
<1>6. Follows(d, c)
  BY <1>3, <1>4, <1>5 DEF Follows, KnowsDeps
<1>7. QED
  BY <1>1, <1>6

LEMMA ReturnedToCaller ==
  ASSUME NEW n \in Nat, NEW fr \in Frames(n), NEW a \in Activations(n), Follows(fr, a),
         Pending(fr, a), fr.prevCallInst = a.at, StandsAt(a), Waits(a),
         NEW ops, ops # <<>> => ops[1] \in 0 .. n, ops = <<>> => a.at \notin UsedValues \ {0},
         NEW v \in 0 .. n, v = IF ops = <<>> THEN 0 ELSE ops[1]
  PROVE  Follows(Returned(fr, ops), Resume(a, v))
<1>1. PICK d : d = Returned(fr, ops)
  OBVIOUS
<1>2. /\ d.fn = fr.fn /\ d.dep = fr.dep /\ d.prevBB = fr.prevBB
      /\ \A u \in Inst : u # fr.prevCallInst => d.env[u] = fr.env[u]
      /\ \A u \in Inst : u = fr.prevCallInst =>
           d.env[u] = IF ops = <<>> THEN fr.env[u] ELSE ops[1]
  BY <1>1, ReturnedFields
<1>3. a.fn \in Instrumented /\ a.at \in Inst
  BY DEF Follows, StandsAt
<1>4. PICK c : c = Resume(a, v)
  OBVIOUS
<1>5. c.val = [a.val EXCEPT ![a.at] = v]
  BY ONLY <1>3, <1>4, ResumeOK, n \in Nat, a \in Activations(n), StandsAt(a), Waits(a), v \in 0 .. n
<1>6. a.val \in [Inst -> 0 .. n]
  BY ActivationFields DEF Values
<1>7. KnowsValues(d, c)
  <2>1. ASSUME PhisApart, ResultsTraced, NEW u \in UsedValues \ {0}
        PROVE  d.env[u] \in {NoValue, c.val[u]}
    <3>1. u \in Inst
      BY UsedInst
    <3>2. CASE u = a.at
      <4>1. ops # <<>>
        BY <3>2
      <4>2. d.env[u] = ops[1] /\ c.val[u] = v
        BY <1>2, <1>3, <1>5, <1>6, <3>2, <4>1
      <4>3. QED
        BY <4>1, <4>2
    <3>3. CASE u # a.at
      <4>1. d.env[u] = fr.env[u] /\ c.val[u] = a.val[u]
        BY <1>2, <1>5, <1>6, <3>1, <3>3
      <4>2. QED
        BY <2>1, <4>1 DEF Follows, KnowsValues
    <3>4. QED
      BY <3>2, <3>3
  <2>2. QED
    BY <2>1 DEF KnowsValues
<1>8. QED
  BY <1>1, <1>2, <1>4, <1>7, ResumedFollows

(* An uninstrumented function returns, which the trace does not show.       *)
LEMMA ExternalFollows ==
  ASSUME NEW n \in Nat, NEW fr \in Frames(n), NEW a \in Activations(n), Follows(fr, a),
         Pending(fr, a), StandsAt(a), Waits(a), NEW v \in 0 .. n,
         ResultsTraced => a.at \notin UsedValues \ {0}
  PROVE  Follows(fr, Resume(a, v))
<1>1. a.fn \in Instrumented /\ a.at \in Inst
  BY DEF Follows, StandsAt
<1>2. PICK c : c = Resume(a, v)
  OBVIOUS
<1>3. c.val = [a.val EXCEPT ![a.at] = v]
  BY ONLY <1>1, <1>2, ResumeOK, n \in Nat, a \in Activations(n), StandsAt(a), Waits(a), v \in 0 .. n
<1>4. a.val \in [Inst -> 0 .. n]
  BY ActivationFields DEF Values
<1>5. KnowsValues(fr, c)
  <2>1. ASSUME ResultsTraced, NEW u \in UsedValues \ {0} PROVE c.val[u] = a.val[u]
    <3>1. u \in Inst /\ u # a.at
      BY <2>1, UsedInst
    <3>2. QED
      BY <1>3, <1>4, <3>1
  <2>2. QED
    BY <2>1 DEF Follows, KnowsValues
<1>6. QED
  BY <1>2, <1>5, ResumedFollows

LEMMA ThrownFollows ==
  ASSUME NEW n \in Nat, NEW fr, NEW a \in Activations(n), Follows(fr, a), Pending(fr, a),
         StandsAt(a), NEW b \in ToSet(Code[a.at].to)
  PROVE  Follows(fr, Leave(a, b))
<1>1. a.fn \in Instrumented /\ a.at \in Inst /\ Code[a.at].fn = a.fn
  BY DEF Follows, StandsAt
<1>2. PICK c : c = Leave(a, b)
  OBVIOUS
<1>3. c.fn = a.fn /\ c.by = a.by /\ c.val = a.val /\ c.from = Code[a.at].bb
  BY <1>1, <1>2, LeaveOK
<1>4. fr.prevBB = Code[a.at].bb /\ fr.prevBB # "none"
  BY <1>1, InstType, CodeAssumption DEF Pending
<1>5. Follows(fr, c)
  BY <1>3, <1>4 DEF Follows, KnowsDeps, KnowsValues
<1>6. QED
  BY <1>2, <1>5

-----------------------------------------------------------------------------
(* Which frame is which activation's *)

(* Is k on the stack r and below the top, or does the top wait for its      *)
(* callee (c) to begin?                                                     *)
InCall(k, r, c) == k < Len(r) \/ (k = Len(r) /\ c = "call")
AtCall(fr, r, k) ==
  /\ Pending(fr, r[k])
  /\ (k < Len(r) => r[k + 1].fn \in Instrumented) => fr.prevCallInst = r[k].at

(* An activation of the stack is that of a frame, or was there before the   *)
(* trace began and has not run since.                                       *)
Located(p, l, r, k) ==
  r[k].fn \in Instrumented =>
    (\E f \in 1 .. l : p[f] = k) \/ (Fresh(r[k]) /\ \A f \in 1 .. l : k < p[f])

(* After an exception, until it is seen, frames stay of activations that it *)
(* left, none of them of the function that caught it.                       *)
LeftBehind(fr, r, c) ==
  /\ c # "call" /\ Len(r) > 0 /\ r[Len(r)].fn \in Instrumented
  /\ Landing(r[Len(r)].at) /\ fr.fn # r[Len(r)].fn

Places(p, l) ==
  /\ \A f \in 1 .. l : p[f] \in Nat \ {0}
  /\ \A f \in 1 .. l : \A g \in 1 .. l : f < g => p[f] < p[g]

(* Frame f is that of activation p[f].                                      *)
Tracks(p, fs, r, c) ==
  /\ Places(p, Len(fs))
  /\ \A f \in 1 .. Len(fs) : p[f] <= Len(r) => Follows(fs[f], r[p[f]])
  /\ \A f \in 1 .. Len(fs) : InCall(p[f], r, c) => AtCall(fs[f], r, p[f])
  /\ \A k \in 1 .. Len(r) : Located(p, Len(fs), r, k)
  /\ \A f \in 1 .. Len(fs) : p[f] > Len(r) => LeftBehind(fs[f], r, c)

(* Sequence t is s up to k, where it has d.                                 *)
Becomes(t, s, k, d) ==
  Len(t) = k /\ t[k] = d /\ \A i \in 1 .. k - 1 : t[i] = s[i]

(* Frame kf is that of activation kr, or both are new.                      *)
Meet(p, fs, r, c, kf, kr) ==
  \/ kf \in 1 .. Len(fs) /\ kr \in 1 .. Len(r) /\ p[kf] = kr
  \/ /\ kf = Len(fs) + 1 /\ kr = Len(r) + 1
     /\ c = "call" \/ (Len(r) > 0 /\ r[Len(r)].fn \notin Instrumented)

(* A step of an activation a and its frame d, which follows it, in a call,  *)
(* a return or within a function.                                           *)
Moves(fs, gs, kf, d, r, q, kr, a, c1) ==
  /\ Len(fs) \in Nat /\ Len(r) \in Nat
  /\ Becomes(gs, fs, kf, d) /\ Becomes(q, r, kr, a) /\ Follows(d, a)
  /\ kr <= Len(r) => a.fn = r[kr].fn
  /\ c1 = "call" => Pending(d, a) /\ d.prevCallInst = a.at

Tracked(fs, r, c) == \E p : Tracks(p, fs, r, c)
TrackedAt(fs, r, c, kf, kr) == \E p : Tracks(p, fs, r, c) /\ p[kf] = kr

LEMMA BothChange ==
  ASSUME NEW p, NEW fs, NEW r, NEW c, Tracks(p, fs, r, c),
         NEW kf, NEW kr, Meet(p, fs, r, c, kf, kr), NEW gs, NEW q, NEW d, NEW a, NEW c1,
         Moves(fs, gs, kf, d, r, q, kr, a, c1)
  PROVE  TrackedAt(gs, q, c1, kf, kr)
<1>0. /\ Len(fs) \in Nat /\ Len(r) \in Nat
      /\ Becomes(gs, fs, kf, d) /\ Becomes(q, r, kr, a) /\ Follows(d, a)
      /\ kr <= Len(r) => a.fn = r[kr].fn
      /\ c1 = "call" => Pending(d, a) /\ d.prevCallInst = a.at
  BY DEF Moves
<1>1. PICK l \in Nat, m \in Nat : l = Len(fs) /\ m = Len(r)
  BY <1>0
<1>2. /\ kf \in Nat \ {0} /\ kr \in Nat \ {0} /\ kf <= l + 1 /\ kr <= m + 1
      /\ kf <= l => p[kf] = kr /\ kr <= m
      /\ kf > l => kr = m + 1 /\ (c = "call" \/ (m > 0 /\ r[m].fn \notin Instrumented))
  BY <1>1 DEF Meet
<1>3. Len(gs) = kf /\ gs[kf] = d /\ \A f \in 1 .. kf - 1 : gs[f] = fs[f]
  BY <1>0 DEF Becomes
<1>4. Len(q) = kr /\ q[kr] = a /\ \A k \in 1 .. kr - 1 : q[k] = r[k]
  BY <1>0 DEF Becomes
<1>5. /\ \A f \in 1 .. l : p[f] \in Nat \ {0}
      /\ \A f \in 1 .. l : \A g \in 1 .. l : f < g => p[f] < p[g]
      /\ \A f \in 1 .. l : p[f] <= m => Follows(fs[f], r[p[f]])
      /\ \A f \in 1 .. l : InCall(p[f], r, c) => AtCall(fs[f], r, p[f])
      /\ \A k \in 1 .. m : Located(p, l, r, k)
      /\ \A f \in 1 .. l : p[f] > m => LeftBehind(fs[f], r, c)
  BY ONLY <1>1, Tracks(p, fs, r, c) DEF Tracks, Places
<1>6. PICK p1 : p1 = [f \in 1 .. kf |-> IF f = kf THEN kr ELSE p[f]]
  OBVIOUS
<1>7. p1[kf] = kr /\ \A f \in 1 .. kf - 1 : p1[f] = p[f] /\ f \in 1 .. l /\ f < kf
  BY <1>2, <1>6
<1>8. \A f \in 1 .. kf : f = kf \/ f \in 1 .. kf - 1
  BY <1>2
<1>9. ASSUME NEW f \in 1 .. kf - 1 PROVE p[f] < kr
  <2>1. f \in 1 .. l /\ f < kf
    BY <1>7
  <2>2. CASE kf <= l
    <3>1. kf \in 1 .. l
      BY <1>2, <2>2
    <3>2. QED
      BY <1>2, <1>5, <2>1, <2>2, <3>1
  <2>3. CASE kf > l
    <3>1. ~LeftBehind(fs[f], r, c)
      BY <1>1, <1>2, <2>3 DEF LeftBehind
    <3>2. p[f] \in Nat /\ ~(p[f] > m)
      BY <1>5, <2>1, <3>1
    <3>3. QED
      BY <1>2, <2>3, <3>2
  <2>4. QED
    BY <1>2, <2>2, <2>3
<1>10. ASSUME NEW f \in 1 .. kf - 1
       PROVE  /\ p[f] \in Nat \ {0} /\ p[f] <= m /\ p[f] \in 1 .. kr - 1
              /\ q[p[f]] = r[p[f]] /\ Follows(fs[f], r[p[f]])
  <2>1. f \in 1 .. l /\ p[f] < kr
    BY <1>7, <1>9
  <2>2. p[f] \in Nat \ {0} /\ p[f] <= m /\ p[f] \in 1 .. kr - 1
    BY <1>2, <1>5, <2>1
  <2>3. QED
    BY <1>4, <1>5, <2>1, <2>2
<1>11. Places(p1, kf)
  <2>1. \A f \in 1 .. kf : p1[f] \in Nat \ {0}
    BY <1>2, <1>7, <1>8, <1>10
  <2>2. ASSUME NEW f \in 1 .. kf, NEW g \in 1 .. kf, f < g PROVE p1[f] < p1[g]
    <3>1. f \in 1 .. kf - 1
      BY <1>2, <2>2
    <3>2. CASE g = kf
      BY <1>7, <1>9, <3>1, <3>2
    <3>3. CASE g \in 1 .. kf - 1
      BY <1>5, <1>7, <2>2, <3>1, <3>3
    <3>4. QED
      BY <1>8, <3>2, <3>3
  <2>3. QED
    BY <2>1, <2>2 DEF Places
<1>12. ASSUME NEW f \in 1 .. kf PROVE p1[f] <= kr /\ Follows(gs[f], q[p1[f]])
  <2>1. CASE f = kf
    BY <1>0, <1>2, <1>3, <1>4, <1>7, <2>1
  <2>2. CASE f \in 1 .. kf - 1
    <3>1. p[f] < kr /\ p[f] \in Nat
      BY <1>9, <1>10, <2>2
    <3>2. gs[f] = fs[f] /\ p1[f] = p[f]
      BY <1>3, <1>7, <2>2
    <3>3. q[p[f]] = r[p[f]] /\ Follows(fs[f], r[p[f]])
      BY <1>10, <2>2
    <3>4. QED
      BY <1>2, <3>1, <3>2, <3>3
  <2>3. QED
    BY <1>8, <2>1, <2>2
<1>13. ASSUME NEW f \in 1 .. kf, InCall(p1[f], q, c1) PROVE AtCall(gs[f], q, p1[f])
  <2>1. CASE f = kf
    <3>1. c1 = "call"
      BY <1>2, <1>4, <1>7, <1>13, <2>1 DEF InCall
    <3>2. QED
      BY <1>0, <1>3, <1>4, <1>7, <2>1, <3>1 DEF AtCall
  <2>2. CASE f \in 1 .. kf - 1
    <3>1. PICK k \in 1 .. kr - 1 : k = p[f]
      BY <1>10, <2>2
    <3>2. k \in Nat /\ k <= m /\ k < kr /\ f \in 1 .. l
      BY <1>2, <1>7, <1>10, <2>2, <3>1
    <3>3. k = m => c = "call"
      <4>1. ASSUME k = m PROVE c = "call"
        <5>1. kr = m + 1 /\ kf > l
          BY <1>2, <3>2, <4>1
        <5>2. r[m].fn \in Instrumented
          BY <1>10, <2>2, <3>1, <4>1 DEF Follows
        <5>3. QED
          BY <1>2, <5>1, <5>2
      <4>2. QED
        BY <4>1
    <3>4. InCall(k, r, c)
      BY <1>1, <3>2, <3>3 DEF InCall
    <3>5. AtCall(fs[f], r, k)
      BY <1>5, <3>1, <3>2, <3>4
    <3>6. k < m /\ k + 1 <= kr => (q[k + 1].fn \in Instrumented => r[k + 1].fn \in Instrumented)
      <4>1. CASE k + 1 < kr
        <5>1. k + 1 \in 1 .. kr - 1
          BY <1>2, <3>2, <4>1
        <5>2. QED
          BY <1>4, <5>1
      <4>2. CASE k + 1 = kr
        BY <1>0, <1>1, <1>4, <3>2, <4>2
      <4>3. QED
        BY <1>2, <3>2, <4>1, <4>2
    <3>7. q[k] = r[k]
      BY <1>4, <3>1
    <3>8. AtCall(fs[f], q, k)
      BY ONLY <1>1, <1>2, <1>4, <3>2, <3>5, <3>6, <3>7 DEF AtCall
    <3>9. QED
      BY <1>3, <1>7, <2>2, <3>1, <3>8
  <2>3. QED
    BY <1>8, <2>1, <2>2
<1>14. ASSUME NEW k \in 1 .. kr PROVE Located(p1, kf, q, k)
  <2>1. CASE k = kr
    BY <1>2, <1>7, <2>1 DEF Located
  <2>2. CASE k \in 1 .. kr - 1
    <3>1. k \in Nat /\ k \in 1 .. m /\ k < kr /\ q[k] = r[k]
      BY <1>2, <1>4, <2>2
    <3>2. Located(p, l, r, k)
      BY <1>5, <3>1
    <3>3. SUFFICES ASSUME r[k].fn \in Instrumented
                   PROVE  \/ \E f \in 1 .. kf : p1[f] = k
                          \/ Fresh(r[k]) /\ \A f \in 1 .. kf : k < p1[f]
      BY <3>1 DEF Located
    <3>4. CASE \E f \in 1 .. l : p[f] = k
      <4>1. PICK f \in 1 .. l : p[f] = k
        BY <3>4
      <4>2. f < kf
        <5>1. CASE kf <= l
          <6>1. kf \in 1 .. l /\ p[kf] = kr
            BY <1>2, <5>1
          <6>2. ~(kf < f)
            <7>1. kf < f => p[kf] < p[f]
              BY <1>5, <4>1, <6>1
            <7>2. QED
              BY <1>2, <3>1, <4>1, <6>1, <7>1
          <6>4. kf # f
            BY <1>2, <3>1, <4>1, <6>1
          <6>3. QED
            BY <1>2, <6>2, <6>4
        <5>2. CASE kf > l
          BY <1>2, <5>2
        <5>3. QED
          BY <1>2, <5>1, <5>2
      <4>3. f \in 1 .. kf - 1 /\ f \in 1 .. kf
        BY <1>2, <4>2
      <4>4. QED
        BY <1>7, <4>1, <4>3
    <3>5. CASE Fresh(r[k]) /\ \A f \in 1 .. l : k < p[f]
      BY <1>7, <1>8, <3>1, <3>5
    <3>6. QED
      BY <3>2, <3>3, <3>4, <3>5 DEF Located
  <2>3. QED
    BY <1>2, <2>1, <2>2
<1>15. Tracks(p1, gs, q, c1)
  <2>1. \A f \in 1 .. kf : p1[f] \in Nat
    BY <1>11 DEF Places
  <2>2. \A f \in 1 .. kf : ~(p1[f] > kr)
    BY <1>2, <1>12, <2>1
  <2>3. QED
    BY ONLY <1>3, <1>4, <1>11, <1>12, <1>13, <1>14, <2>2 DEF Tracks
<1>16. QED
  BY <1>7, <1>15 DEF TrackedAt

(* The frames stay while the program falls back to activation kr, which    *)
(* was in a call of uninstrumented code, and goes on there.                 *)
GoesOn(p, fs, q, kr) ==
  \A f \in 1 .. Len(fs) :
    /\ p[f] = kr => Follows(fs[f], q[kr])
    /\ p[f] > kr => LeftBehind(fs[f], q, "run")

LEMMA FallsBack ==
  ASSUME NEW p, NEW fs, Len(fs) \in Nat, NEW r, Len(r) \in Nat, NEW c, Tracks(p, fs, r, c),
         NEW kr \in 1 .. Len(r), kr < Len(r), NEW q, NEW a, Becomes(q, r, kr, a),
         a.fn = r[kr].fn, Fresh(r[kr]) => Fresh(a), GoesOn(p, fs, q, kr)
  PROVE  Tracks(p, fs, q, "run")
<1>1. PICK l \in Nat, m \in Nat : l = Len(fs) /\ m = Len(r)
  OBVIOUS
<1>2. kr \in Nat \ {0} /\ kr \in 1 .. m /\ kr < m
  BY <1>1
<1>3. Len(q) = kr /\ q[kr] = a /\ \A k \in 1 .. kr - 1 : q[k] = r[k]
  BY DEF Becomes
<1>4. /\ Places(p, l) /\ \A f \in 1 .. l : p[f] \in Nat \ {0}
      /\ \A f \in 1 .. l : p[f] <= m => Follows(fs[f], r[p[f]])
      /\ \A f \in 1 .. l : InCall(p[f], r, c) => AtCall(fs[f], r, p[f])
      /\ \A k \in 1 .. m : Located(p, l, r, k)
  BY ONLY <1>1, Tracks(p, fs, r, c) DEF Tracks, Places
<1>5. /\ \A f \in 1 .. l : p[f] = kr => Follows(fs[f], q[kr])
      /\ \A f \in 1 .. l : p[f] > kr => LeftBehind(fs[f], q, "run")
  BY <1>1 DEF GoesOn
<1>6. \A k \in Nat \ {0} : k < kr => k \in 1 .. kr - 1 /\ k \in 1 .. m /\ k < m
  BY <1>2
<1>7. ASSUME NEW f \in 1 .. l, p[f] <= kr PROVE Follows(fs[f], q[p[f]])
  <2>1. CASE p[f] = kr
    BY <1>5, <2>1
  <2>2. CASE p[f] < kr
    BY <1>2, <1>3, <1>4, <1>6, <2>2
  <2>3. QED
    BY <1>2, <1>4, <1>7, <2>1, <2>2
<1>8. ASSUME NEW f \in 1 .. l, InCall(p[f], q, "run") PROVE AtCall(fs[f], q, p[f])
  <2>1. PICK k \in Nat \ {0} : k = p[f]
    BY <1>4
  <2>2. k < kr
    BY <1>3, <1>8, <2>1 DEF InCall
  <2>3. k < m /\ k + 1 <= kr /\ q[k] = r[k]
    BY <1>2, <1>3, <1>6, <2>1, <2>2
  <2>4. AtCall(fs[f], r, k)
    BY <1>1, <1>4, <2>1, <2>3 DEF InCall
  <2>5. q[k + 1].fn = r[k + 1].fn
    <3>1. CASE k + 1 < kr
      <4>1. k + 1 \in 1 .. kr - 1
        BY <1>2, <2>1, <3>1
      <4>2. QED
        BY <1>3, <4>1
    <3>2. CASE k + 1 = kr
      BY <1>3, <3>2
    <3>3. QED
      BY <1>2, <2>1, <2>3, <3>1, <3>2
  <2>6. QED
    BY ONLY <1>1, <1>2, <1>3, <2>1, <2>2, <2>3, <2>4, <2>5 DEF AtCall
<1>9. ASSUME NEW k \in 1 .. kr PROVE Located(p, l, q, k)
  <2>1. Located(p, l, r, k)
    BY <1>2, <1>4
  <2>2. CASE k = kr
    BY <1>3, <2>1, <2>2 DEF Located
  <2>3. CASE k < kr
    <3>1. q[k] = r[k]
      BY <1>2, <1>3, <2>3
    <3>2. QED
      BY <2>1, <3>1 DEF Located
  <2>4. QED
    BY <1>2, <2>2, <2>3
<1>10. QED
  BY ONLY <1>1, <1>3, <1>4, <1>5, <1>7, <1>8, <1>9 DEF Tracks

(* An uninstrumented function begins, which the trace does not show.        *)
LEMMA EntersExternal ==
  ASSUME NEW p, NEW fs, Len(fs) \in Nat, NEW r, Len(r) \in Nat, Tracks(p, fs, r, "call"),
         NEW m, m = Len(r) + 1, NEW q, NEW a, Becomes(q, r, m, a), a.fn \notin Instrumented
  PROVE  Tracks(p, fs, q, "run")
<1>1. PICK l \in Nat, n \in Nat : l = Len(fs) /\ n = Len(r) /\ m = n + 1
  OBVIOUS
<1>2. Len(q) = m /\ q[m] = a /\ \A k \in 1 .. n : q[k] = r[k]
  <2>1. m - 1 = n
    BY <1>1
  <2>2. QED
    BY <2>1 DEF Becomes
<1>3. /\ Places(p, l) /\ \A f \in 1 .. l : p[f] \in Nat \ {0}
      /\ \A f \in 1 .. l : p[f] <= n => Follows(fs[f], r[p[f]])
      /\ \A f \in 1 .. l : InCall(p[f], r, "call") => AtCall(fs[f], r, p[f])
      /\ \A k \in 1 .. n : Located(p, l, r, k)
      /\ \A f \in 1 .. l : p[f] > n => LeftBehind(fs[f], r, "call")
  BY ONLY <1>1, Tracks(p, fs, r, "call") DEF Tracks, Places
<1>4. \A f \in 1 .. l : p[f] \in 1 .. n
  <2>1. ASSUME NEW f \in 1 .. l PROVE p[f] \in 1 .. n
    <3>1. ~(p[f] > n)
      BY <1>3 DEF LeftBehind
    <3>2. p[f] \in Nat \ {0}
      BY <1>3
    <3>3. QED
      BY <3>1, <3>2
  <2>2. QED
    BY <2>1
<1>5. \A f \in 1 .. l : Follows(fs[f], q[p[f]])
  BY <1>2, <1>3, <1>4
<1>6. ASSUME NEW f \in 1 .. l PROVE AtCall(fs[f], q, p[f])
  <2>1. PICK k \in 1 .. n : k = p[f]
    BY <1>4
  <2>2. AtCall(fs[f], r, k)
    BY <1>1, <1>3, <2>1 DEF InCall
  <2>3. q[k] = r[k] /\ k < m
    BY <1>1, <1>2, <2>1
  <2>4. CASE k = n
    BY ONLY <1>1, <1>2, <2>1, <2>2, <2>3, <2>4, a.fn \notin Instrumented DEF AtCall
  <2>5. CASE k < n
    <3>1. q[k + 1] = r[k + 1]
      BY <1>2, <2>1, <2>5
    <3>2. QED
      BY ONLY <1>1, <1>2, <2>1, <2>2, <2>3, <2>5, <3>1 DEF AtCall
  <2>6. QED
    BY <2>1, <2>4, <2>5
<1>7. ASSUME NEW k \in 1 .. m PROVE Located(p, l, q, k)
  <2>1. CASE k = m
    BY <1>2, <2>1 DEF Located
  <2>2. CASE k \in 1 .. n
    BY <1>2, <1>3, <2>2 DEF Located
  <2>3. QED
    BY <1>1, <2>1, <2>2
<1>8. \A f \in 1 .. l : ~(p[f] > m)
  BY <1>1, <1>4
<1>9. QED
  BY ONLY <1>1, <1>2, <1>3, <1>5, <1>6, <1>7, <1>8 DEF Tracks

(* Between two neighbours among the frames' activations, uninstrumented     *)
(* functions run.                                                           *)
LEMMA NothingBetween ==
  ASSUME NEW p, NEW fs, NEW r, NEW c, Tracks(p, fs, r, c), NEW f \in 1 .. Len(fs),
         NEW k \in 1 .. Len(r), k \in Nat, p[f] < k, Len(fs) \in Nat,
         \A g \in 1 .. Len(fs) : g > f => k < p[g]
  PROVE  r[k].fn \notin Instrumented
<1>1. /\ \A g \in 1 .. Len(fs) : p[g] \in Nat
      /\ \A g \in 1 .. Len(fs) : \A h \in 1 .. Len(fs) : g < h => p[g] < p[h]
      /\ Located(p, Len(fs), r, k)
  BY DEF Tracks, Places
<1>2. \A g \in 1 .. Len(fs) : p[g] # k
  <2>1. ASSUME NEW g \in 1 .. Len(fs), p[g] = k PROVE FALSE
    <3>1. ~(g > f)
      BY <1>1, <2>1
    <3>2. ~(g < f)
      <4>1. g < f => p[g] < p[f]
        BY <1>1
      <4>2. p[f] \in Nat
        BY <1>1
      <4>3. QED
        BY <2>1, <4>1, <4>2
    <3>3. g # f
      BY <1>1, <2>1
    <3>4. QED
      BY <3>1, <3>2, <3>3
  <2>2. QED
    BY <2>1
<1>3. ~(k < p[f])
  BY <1>1
<1>4. QED
  BY <1>1, <1>2, <1>3 DEF Located

(* An instrumented function returns to uninstrumented code that called it.  *)
LEMMA ReturnsToExternal ==
  ASSUME NEW p, NEW fs, NEW l \in Nat \ {0}, Len(fs) = l + 1, NEW r, NEW m \in Nat \ {0},
         Len(r) = m + 1, Tracks(p, fs, r, "run"), p[l + 1] = m + 1,
         NEW q, Becomes(q, r, m, r[m]), r[m].fn \notin Instrumented,
         NEW gs, NEW d, Becomes(gs, fs, l, d), Follows(d, r[p[l]]), Pending(d, r[p[l]])
  PROVE  Tracks(p, gs, q, "run")
<1>1. Len(q) = m /\ \A k \in 1 .. m : q[k] = r[k]
  <2>1. Len(q) = m /\ q[m] = r[m] /\ \A k \in 1 .. m - 1 : q[k] = r[k]
    BY DEF Becomes
  <2>2. \A k \in 1 .. m : k = m \/ k \in 1 .. m - 1
    OBVIOUS
  <2>3. QED
    BY <2>1, <2>2
<1>2. Len(gs) = l /\ gs[l] = d /\ \A f \in 1 .. l - 1 : gs[f] = fs[f]
  BY DEF Becomes
<1>3. PICK l1 \in Nat, m1 \in Nat : l1 = l + 1 /\ m1 = m + 1
  OBVIOUS
<1>4. /\ \A f \in 1 .. l1 : p[f] \in Nat \ {0}
      /\ \A f \in 1 .. l1 : \A g \in 1 .. l1 : f < g => p[f] < p[g]
      /\ \A f \in 1 .. l1 : p[f] <= m1 => Follows(fs[f], r[p[f]])
      /\ \A f \in 1 .. l1 : InCall(p[f], r, "run") => AtCall(fs[f], r, p[f])
      /\ \A k \in 1 .. m1 : Located(p, l1, r, k)
  BY ONLY <1>3, Len(fs) = l + 1, Len(r) = m + 1, Tracks(p, fs, r, "run") DEF Tracks, Places
<1>5. ASSUME NEW f \in 1 .. l
      PROVE  p[f] \in 1 .. m - 1 /\ p[f] \in Nat \ {0} /\ Follows(fs[f], r[p[f]])
  <2>1. f \in 1 .. l1 /\ l1 \in 1 .. l1 /\ f < l1
    BY <1>3
  <2>2. PICK k \in Nat \ {0} : k = p[f]
    BY <1>4, <2>1
  <2>3. k < m1
    BY <1>3, <1>4, <2>1, <2>2
  <2>4. Follows(fs[f], r[k])
    BY <1>4, <2>1, <2>2, <2>3
  <2>5. k # m
    BY <2>4 DEF Follows
  <2>6. QED
    BY <1>3, <2>2, <2>3, <2>4, <2>5
<1>6. Places(p, l)
  <2>1. \A f \in 1 .. l : f \in 1 .. l1
    BY <1>3
  <2>2. QED
    BY <1>4, <2>1 DEF Places
<1>7. \A f \in 1 .. l : f = l \/ f \in 1 .. l - 1
  OBVIOUS
<1>8. \A f \in 1 .. l : q[p[f]] = r[p[f]]
  BY <1>1, <1>5
<1>9. ASSUME NEW f \in 1 .. l PROVE Follows(gs[f], q[p[f]])
  <2>1. CASE f = l
    BY <1>2, <1>8, <2>1
  <2>2. CASE f \in 1 .. l - 1
    BY <1>2, <1>5, <1>8, <2>2
  <2>3. QED
    BY <1>7, <2>1, <2>2
<1>10. ASSUME NEW f \in 1 .. l PROVE AtCall(gs[f], q, p[f])
  <2>1. PICK k \in 1 .. m - 1 : k = p[f]
    BY <1>5
  <2>2. k \in Nat /\ k < m1 /\ k < m /\ q[k] = r[k] /\ q[k + 1] = r[k + 1] /\ f \in 1 .. l1
    BY <1>1, <1>3, <2>1
  <2>3. AtCall(fs[f], r, k)
    BY <1>3, <1>4, <2>1, <2>2 DEF InCall
  <2>4. CASE f = l
    <3>1. r[k + 1].fn \notin Instrumented
      <4>1. PICK h \in Nat : h = k + 1
        BY <2>2
      <4>2. h \in 1 .. Len(r) /\ p[l] < h /\ h < m1
        BY <1>3, <2>1, <2>2, <2>4, <4>1
      <4>3. \A g \in 1 .. Len(fs) : g > l => h < p[g]
        BY <1>3, <4>2
      <4>4. l \in 1 .. Len(fs) /\ Len(fs) \in Nat
        BY <1>3
      <4>5. QED
        BY <4>1, <4>2, <4>3, <4>4, NothingBetween
    <3>2. Len(q) = m /\ gs[f] = d /\ Pending(d, q[k])
      BY <1>1, <1>2, <2>1, <2>2, <2>4
    <3>3. QED
      BY ONLY <2>1, <2>2, <3>1, <3>2 DEF AtCall
  <2>5. CASE f \in 1 .. l - 1
    <3>1. gs[f] = fs[f]
      BY <1>2, <2>5
    <3>2. QED
      BY ONLY <1>1, <1>3, <2>1, <2>2, <2>3, <3>1, Len(r) = m + 1 DEF AtCall
  <2>6. QED
    BY <1>7, <2>4, <2>5
<1>11. ASSUME NEW k \in 1 .. m PROVE Located(p, l, q, k)
  <2>1. k \in 1 .. m1 /\ q[k] = r[k] /\ k \in Nat
    BY <1>1, <1>3
  <2>2. Located(p, l1, r, k)
    BY <1>4, <2>1
  <2>3. p[l1] # k
    BY <1>3, <2>1
  <2>4. \A f \in 1 .. l1 : f = l1 \/ f \in 1 .. l
    BY <1>3
  <2>5. \A f \in 1 .. l : f \in 1 .. l1
    BY <1>3
  <2>6. QED
    BY <2>1, <2>2, <2>3, <2>4, <2>5 DEF Located
<1>12. \A f \in 1 .. l : ~(p[f] > m)
  BY <1>5
<1>13. QED
  BY ONLY <1>1, <1>2, <1>6, <1>9, <1>10, <1>11, <1>12 DEF Tracks

(* There is no frame, and nothing on the stack has run since the trace      *)
(* began.                                                                   *)
AllFresh(q) == \A k \in 1 .. Len(q) : q[k].fn \in Instrumented => Fresh(q[k])

LEMMA NoFrames ==
  ASSUME NEW p, NEW gs, Len(gs) = 0, NEW q, AllFresh(q), NEW c
  PROVE  Tracks(p, gs, q, c)
<1>1. \A f \in 1 .. 0 : FALSE
  OBVIOUS
<1>2. QED
  BY ONLY <1>1, Len(gs) = 0, AllFresh(q) DEF Tracks, Places, Located, AllFresh

(* The frame of the running function is found among the frames.            *)
Found(fs, s, F) ==
  \/ /\ \A f \in 1 .. Len(fs) : fs[f].fn # F
     /\ Len(s) = 1 /\ s[1] = DynamicFrame(F)
  \/ /\ Len(s) \in 1 .. Len(fs) /\ fs[Len(s)].fn = F
     /\ \A g \in 1 .. Len(fs) : g > Len(s) => fs[g].fn # F
     /\ \A g \in 1 .. Len(s) : s[g] = fs[g]

LEMMA FrameFound ==
  ASSUME NEW n \in Nat, NEW p, NEW fs, Len(fs) \in Nat, NEW r, Len(r) \in Nat \ {0},
         Tracks(p, fs, r, "run"), NEW F \in Instrumented, NEW a \in Activations(n), a = r[Len(r)],
         a.fn = F, NEW s, Found(fs, s, F)
  PROVE  TrackedAt(s, r, "run", Len(s), Len(r)) /\ Follows(s[Len(s)], a)
<1>1. PICK l \in Nat, m \in Nat \ {0} : l = Len(fs) /\ m = Len(r)
  OBVIOUS
<1>2. /\ \A f \in 1 .. l : p[f] \in Nat \ {0}
      /\ \A f \in 1 .. l : \A g \in 1 .. l : f < g => p[f] < p[g]
      /\ \A f \in 1 .. l : p[f] <= m => Follows(fs[f], r[p[f]])
      /\ \A k \in 1 .. m : Located(p, l, r, k)
      /\ \A f \in 1 .. l : p[f] > m => LeftBehind(fs[f], r, "run")
  BY ONLY <1>1, Tracks(p, fs, r, "run") DEF Tracks, Places
<1>3. \A f \in 1 .. l : p[f] > m => fs[f].fn # F
  BY <1>1, <1>2 DEF LeftBehind
<1>4. \/ \E f \in 1 .. l : p[f] = m
      \/ Fresh(a) /\ \A f \in 1 .. l : p[f] > m
  <2>1. m \in 1 .. m /\ r[m].fn \in Instrumented
    BY <1>1
  <2>2. \/ \E f \in 1 .. l : p[f] = m
        \/ Fresh(r[m]) /\ \A f \in 1 .. l : m < p[f]
    BY <1>2, <2>1 DEF Located
  <2>3. QED
    BY <1>1, <1>2, <2>2
<1>5. \A f \in 1 .. l : p[f] = m => fs[f].fn = F /\ Follows(fs[f], a)
  <2>1. ASSUME NEW f \in 1 .. l, p[f] = m PROVE Follows(fs[f], a)
    BY <1>1, <1>2, <2>1
  <2>2. QED
    BY <2>1 DEF Follows
<1>6. CASE (\A f \in 1 .. l : fs[f].fn # F) /\ Len(s) = 1 /\ s[1] = DynamicFrame(F)
  <2>1. Fresh(a) /\ \A f \in 1 .. l : p[f] > m
    BY <1>4, <1>5, <1>6
  <2>2. PICK q : q = [f \in {1} |-> m]
    OBVIOUS
  <2>3. q[1] = m /\ \A f \in 1 .. 1 : f = 1
    BY <2>2
  <2>4. Follows(s[1], a)
    BY <1>6, <2>1, NewFollows
  <2>5. Places(q, 1)
    BY <2>3 DEF Places
  <2>6. \A f \in 1 .. 1 : Follows(s[f], r[q[f]])
    BY <1>1, <2>3, <2>4
  <2>7. \A f \in 1 .. 1 : ~InCall(q[f], r, "run")
    BY <1>1, <2>3 DEF InCall
  <2>8. ASSUME NEW k \in 1 .. m PROVE Located(q, 1, r, k)
    <3>1. CASE k = m
      BY <2>3, <3>1 DEF Located
    <3>2. CASE k < m
      <4>1. \A f \in 1 .. l : p[f] # k
        BY <1>2, <2>1, <3>2
      <4>2. Located(p, l, r, k)
        BY <1>2
      <4>3. QED
        BY <2>3, <3>2, <4>1, <4>2 DEF Located
    <3>3. QED
      BY <3>1, <3>2
  <2>9. Tracks(q, s, r, "run")
    BY ONLY <1>1, <1>6, <2>3, <2>5, <2>6, <2>7, <2>8 DEF Tracks
  <2>10. QED
    BY <1>1, <1>6, <2>3, <2>4, <2>9 DEF TrackedAt
<1>7. CASE /\ Len(s) \in 1 .. l /\ fs[Len(s)].fn = F
           /\ \A g \in 1 .. l : g > Len(s) => fs[g].fn # F
           /\ \A g \in 1 .. Len(s) : s[g] = fs[g]
  <2>1. PICK h \in 1 .. l : h = Len(s)
    BY <1>7
  <2>2. ~(p[h] > m)
    BY <1>3, <1>7, <2>1
  <2>3. PICK f \in 1 .. l : p[f] = m
    BY <1>4, <2>2
  <2>4. ~(f > h)
    BY <1>5, <1>7, <2>1, <2>3
  <2>5. ~(f < h)
    <3>1. f < h => p[f] < p[h]
      BY <1>2
    <3>2. QED
      BY <1>2, <2>2, <2>3, <3>1
  <2>6. p[h] = m
    BY <2>3, <2>4, <2>5
  <2>7. s[h] = fs[h] /\ Follows(fs[h], a)
    BY <1>5, <1>7, <2>1, <2>6
  <2>8. Meet(p, fs, r, "run", h, m)
    BY <1>1, <2>6 DEF Meet
  <2>9. Becomes(s, fs, h, fs[h])
    BY <1>7, <2>1, <2>7 DEF Becomes
  <2>10. Becomes(r, r, m, a)
    BY <1>1 DEF Becomes
  <2>11. TrackedAt(s, r, "run", h, m)
    <3>1. Moves(fs, s, h, fs[h], r, r, m, a, "run")
      BY <1>1, <2>7, <2>9, <2>10 DEF Moves
    <3>2. QED
      BY <2>8, <3>1, BothChange
  <2>12. QED
    BY <1>1, <2>1, <2>7, <2>11
<1>8. QED
  BY ONLY <1>1, <1>6, <1>7, Found(fs, s, F) DEF Found

-----------------------------------------------------------------------------
(* The reader *)

(* The last element of a sequence is replaced, or a new one put behind it.  *)
LEMMA LastReplaced ==
  ASSUME NEW S, NEW s \in Seq(S), Len(s) # 0, NEW d
  PROVE  LET t == Append(Front(s), d) IN
         t \in Seq(S \cup {d}) /\ Becomes(t, s, Len(s), d) /\ Last(t) = d /\ Front(t) = Front(s)
<1>1. PICK l \in Nat : l = Len(s) /\ l > 0
  BY LenProperties
<1>2. l - 1 \in Nat /\ l - 1 + 1 = l /\ \A i \in 1 .. l - 1 : s[i] \in S \cup {d}
  BY <1>1, ElementOfSeq
<1>3. PICK f : f = SubSeq(s, 1, l - 1)
  OBVIOUS
<1>4. f \in Seq(S \cup {d}) /\ Len(f) = l - 1 /\ \A i \in 1 .. l - 1 : f[i] = s[i]
  <2>1. /\ f \in Seq(S \cup {d}) /\ Len(f) = IF 1 <= l - 1 THEN l - 1 - 1 + 1 ELSE 0
        /\ \A i \in 1 .. l - 1 - 1 + 1 : f[i] = s[1 + i - 1]
    BY ONLY <1>2, <1>3, l \in Nat, 1 \in Int, l - 1 \in Int, SubSeqProperties
  <2>2. QED
    BY <1>1, <2>1
<1>5. PICK t : t = Append(f, d)
  OBVIOUS
<1>6. /\ t \in Seq(S \cup {d}) /\ Len(t) = l /\ t[l] = d
      /\ \A i \in 1 .. l - 1 : t[i] = f[i]
  BY ONLY <1>2, <1>4, <1>5, d \in S \cup {d}, AppendProperties
<1>7. Front(s) = f
  BY <1>1, <1>3 DEF Front
<1>8. Becomes(t, s, l, d) /\ Last(t) = d
  BY ONLY <1>4, <1>6 DEF Becomes, Last
<1>9. Front(t) = f
  <2>1. PICK g : g = SubSeq(t, 1, l - 1)
    OBVIOUS
  <2>2. \A i \in 1 .. l - 1 : t[i] \in S \cup {d}
    BY <1>2, <1>4, <1>6
  <2>3. /\ g \in Seq(S \cup {d}) /\ Len(g) = IF 1 <= l - 1 THEN l - 1 - 1 + 1 ELSE 0
        /\ \A i \in 1 .. l - 1 - 1 + 1 : g[i] = t[1 + i - 1]
    BY ONLY <1>2, <2>1, <2>2, l \in Nat, 1 \in Int, l - 1 \in Int, SubSeqProperties
  <2>4. Len(g) = l - 1 /\ \A i \in 1 .. l - 1 : g[i] = t[i]
    BY <1>1, <2>3
  <2>5. \A i \in 1 .. l - 1 : g[i] = f[i]
    BY <1>6, <2>4
  <2>6. g = f
    BY ONLY <1>4, <2>3, <2>4, <2>5, SeqEqual
  <2>7. QED
    BY ONLY <1>6, <2>1, <2>6 DEF Front
<1>10. QED
  BY <1>1, <1>5, <1>6, <1>7, <1>8, <1>9

(* The last element is taken away, and the one below replaced.              *)
LEMMA LastRemoved ==
  ASSUME NEW S, NEW s \in Seq(S), NEW m \in Nat \ {0}, Len(s) = m + 1, NEW d
  PROVE  /\ Front(s) \in Seq(S) /\ Becomes(Front(s), s, m, s[m])
         /\ Front(s) # <<>> /\ Last(Front(s)) = s[m] /\ s[m] \in S
         /\ Append(Front(Front(s)), d) \in Seq(S \cup {d})
         /\ Becomes(Append(Front(Front(s)), d), s, m, d)
<1>1. m + 1 \in Nat /\ m + 1 - 1 = m /\ \A i \in 1 .. m : i \in 1 .. m + 1
  OBVIOUS
<1>2. \A i \in 1 .. m : s[i] \in S
  <2>1. \A i \in 1 .. m : i \in 1 .. Len(s)
    BY <1>1
  <2>2. QED
    BY ONLY <2>1, s \in Seq(S), ElementOfSeq
<1>3. PICK f : f = SubSeq(s, 1, m)
  OBVIOUS
<1>4. f \in Seq(S) /\ Len(f) = m /\ \A i \in 1 .. m : f[i] = s[i]
  <2>1. /\ f \in Seq(S) /\ Len(f) = IF 1 <= m THEN m - 1 + 1 ELSE 0
        /\ \A i \in 1 .. m - 1 + 1 : f[i] = s[1 + i - 1]
    BY ONLY <1>2, <1>3, m \in Int, 1 \in Int, SubSeqProperties
  <2>2. QED
    BY <2>1
<1>5. Front(s) = f
  BY <1>1, <1>3 DEF Front
<1>6. f # <<>> /\ Last(f) = f[m] /\ Becomes(f, s, m, s[m])
  BY <1>4, EmptySeq DEF Last, Becomes
<1>7. Append(Front(f), d) \in Seq(S \cup {d}) /\ Becomes(Append(Front(f), d), f, m, d)
  <2>1. Len(f) # 0
    BY <1>4
  <2>2. QED
    BY <1>4, <2>1, LastReplaced
<1>8. Becomes(Append(Front(f), d), s, m, d)
  BY <1>4, <1>7 DEF Becomes
<1>9. QED
  BY <1>2, <1>4, <1>5, <1>6, <1>7, <1>8

LEMMA FramePopped ==
  ASSUME NEW n \in Nat, NEW fs \in Seq(Frames(n)), Len(fs) # 0,
         NEW ops, ops # <<>> => ops[1] \in 0 .. n
  PROVE  /\ PopFrame(fs, ops) \in Seq(Frames(n))
         /\ Len(fs) = 1 => PopFrame(fs, ops) = <<>>
         /\ \A m \in Nat \ {0} : Len(fs) = m + 1 =>
              Becomes(PopFrame(fs, ops), fs, m, Returned(fs[m], ops))
<1>1. CASE Len(fs) = 1
  <2>1. Front(fs) = <<>>
    BY <1>1, SubSeqEmpty DEF Front
  <2>2. PopFrame(fs, ops) = <<>>
    BY <2>1 DEF PopFrame
  <2>3. \A m \in Nat \ {0} : 1 # m + 1
    OBVIOUS
  <2>4. QED
    BY <1>1, <2>2, <2>3, EmptySeq
<1>2. CASE Len(fs) # 1
  <2>1. PICK m \in Nat \ {0} : Len(fs) = m + 1
    <3>1. PICK l \in Nat : l = Len(fs) /\ l # 0 /\ l # 1
      BY <1>2, LenProperties
    <3>2. l - 1 \in Nat \ {0} /\ l = l - 1 + 1
      BY <3>1
    <3>3. QED
      BY <3>1, <3>2
  <2>2. PICK d, c : c = fs[m] /\ d = Returned(c, ops)
    OBVIOUS
  <2>3. /\ Front(fs) \in Seq(Frames(n)) /\ Becomes(Front(fs), fs, m, c)
        /\ Front(fs) # <<>> /\ Last(Front(fs)) = c /\ c \in Frames(n)
        /\ Append(Front(Front(fs)), d) \in Seq(Frames(n) \cup {d})
        /\ Becomes(Append(Front(Front(fs)), d), fs, m, d)
    BY <2>1, <2>2, LastRemoved
  <2>4. d \in Frames(n)
    BY <2>2, <2>3, ReturnedFields
  <2>5. Frames(n) \cup {d} = Frames(n)
    BY <2>4
  <2>6. CASE ops = <<>> \/ c.prevCallInst = 0
    <3>1. d = c /\ PopFrame(fs, ops) = Front(fs)
      BY <2>2, <2>3, <2>6 DEF PopFrame, Returned
    <3>2. Becomes(PopFrame(fs, ops), fs, m, Returned(fs[m], ops)) /\ PopFrame(fs, ops) \in Seq(Frames(n))
      BY <2>2, <2>3, <3>1
    <3>3. \A k \in Nat \ {0} : m + 1 = k + 1 => k = m
      OBVIOUS
    <3>4. QED
      BY <2>1, <3>2, <3>3, <1>2
  <2>7. CASE ~ (ops = <<>> \/ c.prevCallInst = 0)
    <3>1. PopFrame(fs, ops) = Append(Front(Front(fs)), d)
      BY <2>2, <2>3, <2>7 DEF PopFrame, Returned
    <3>2. Becomes(PopFrame(fs, ops), fs, m, Returned(fs[m], ops)) /\ PopFrame(fs, ops) \in Seq(Frames(n))
      BY <2>2, <2>3, <2>5, <3>1
    <3>3. \A k \in Nat \ {0} : m + 1 = k + 1 => k = m
      OBVIOUS
    <3>4. QED
      BY <2>1, <3>2, <3>3, <1>2
  <2>8. QED
    BY <2>6, <2>7
<1>3. QED
  BY <1>1, <1>2

-----------------------------------------------------------------------------
(* A return *)

(* The frame of the function that returns is the last one, s[Len(s)].       *)
LEMMA ReturnsLast ==
  ASSUME NEW n \in Nat, NEW s \in Seq(Frames(n)), Len(s) # 0, NEW r, Len(r) = 1,
         TrackedAt(s, r, "run", Len(s), Len(r)), NEW ops, ops # <<>> => ops[1] \in 0 .. n,
         NEW q, q = Front(r), NEW c
  PROVE  q = <<>> /\ Tracked(PopFrame(s, ops), q, c)
<1>1. PICK l \in Nat : l = Len(s) /\ l > 0
  BY LenProperties
<1>2. PICK p : Tracks(p, s, r, "run") /\ p[l] = 1
  BY <1>1 DEF TrackedAt
<1>3. l = 1
  <2>1. ASSUME l # 1 PROVE FALSE
    <3>1. 1 \in 1 .. l /\ l \in 1 .. l /\ 1 < l
      BY <1>1, <2>1
    <3>2. p[1] < p[l] /\ p[1] \in Nat \ {0}
      BY <1>1, <1>2, <3>1 DEF Tracks, Places
    <3>3. QED
      BY <1>2, <3>2
  <2>2. QED
    BY <2>1
<1>4. PopFrame(s, ops) = <<>>
  BY <1>1, <1>3, FramePopped
<1>5. Len(<<>>) = 0
  BY EmptySeq
<1>6. q = <<>>
  BY SubSeqEmpty DEF Front
<1>7. AllFresh(<<>>)
  BY <1>5 DEF AllFresh
<1>8. QED
  BY <1>4, <1>5, <1>6, <1>7, NoFrames DEF Tracked

(* Nothing else on the stack has run since the trace began.                 *)
LEMMA OnlyFrame ==
  ASSUME NEW s, Len(s) = 1, NEW r, NEW m \in Nat, Len(r) = m + 1,
         NEW p, Tracks(p, s, r, "run"), p[1] = m + 1
  PROVE  \A k \in 1 .. m : r[k].fn \in Instrumented => Fresh(r[k])
<1>1. ASSUME NEW k \in 1 .. m PROVE r[k].fn \in Instrumented => Fresh(r[k])
  <2>1. k \in 1 .. m + 1 /\ k # m + 1
    OBVIOUS
  <2>2. Located(p, 1, r, k)
    BY ONLY <2>1, Len(s) = 1, Len(r) = m + 1, Tracks(p, s, r, "run") DEF Tracks
  <2>3. \A f \in 1 .. 1 : f = 1
    OBVIOUS
  <2>4. QED
    BY <2>1, <2>2, <2>3 DEF Located
<1>2. QED
  BY <1>1

(* To uninstrumented code.                                                  *)
LEMMA ReturnsOut ==
  ASSUME NEW n \in Nat, NEW s \in Seq(Frames(n)), Len(s) # 0, NEW r, StackOK(r, n),
         NEW m \in Nat \ {0}, Len(r) = m + 1, r[m].fn \in External,
         TrackedAt(s, r, "run", Len(s), Len(r)), NEW ops, ops # <<>> => ops[1] \in 0 .. n,
         NEW q, q = Front(r)
  PROVE  Tracked(PopFrame(s, ops), q, "run")
<1>1. PICK l \in Nat : l = Len(s) /\ l > 0
  BY LenProperties
<1>2. PICK m1 \in Nat : m1 = m + 1 /\ Len(r) = m1
  OBVIOUS
<1>3. PICK p : Tracks(p, s, r, "run") /\ p[l] = m1
  BY <1>1, <1>2 DEF TrackedAt
<1>4. Becomes(q, r, m, r[m])
  BY LastRemoved DEF StackOK
<1>5. Len(q) = m /\ \A k \in 1 .. m : q[k] = r[k]
  <2>1. \A k \in 1 .. m : k = m \/ k \in 1 .. m - 1
    OBVIOUS
  <2>2. QED
    BY <1>4, <2>1 DEF Becomes
<1>6. r[m].fn \notin Instrumented
  BY CodeAssumption
<1>7. CASE l = 1
  <2>1. PopFrame(s, ops) = <<>> /\ Len(<<>>) = 0
    BY <1>1, <1>7, FramePopped, EmptySeq
  <2>2. AllFresh(q)
    BY <1>1, <1>2, <1>3, <1>5, <1>7, OnlyFrame DEF AllFresh
  <2>3. QED
    BY <2>1, <2>2, NoFrames DEF Tracked
<1>8. CASE l # 1
  <2>1. PICK h \in Nat \ {0} : l = h + 1
    <3>1. l - 1 \in Nat \ {0} /\ l = l - 1 + 1
      BY <1>1, <1>8
    <3>2. QED
      BY <3>1
  <2>2. h \in 1 .. l /\ l \in 1 .. l /\ h < l
    BY <2>1
  <2>3. p[h] < m1 /\ p[h] \in Nat \ {0}
    BY <1>1, <1>3, <2>2 DEF Tracks, Places
  <2>4. PICK k \in Nat \ {0} : k = p[h] /\ k < m1
    BY <2>3
  <2>5. /\ Follows(s[h], r[k]) /\ AtCall(s[h], r, k)
        /\ \A f \in 1 .. l : f > h => p[f] = m1
    <3>1. k <= m1 /\ InCall(k, r, "run")
      BY <1>2, <2>4 DEF InCall
    <3>2. \A f \in 1 .. l : f > h => f = l
      BY <2>1
    <3>3. QED
      BY ONLY <1>1, <1>2, <1>3, <2>2, <2>4, <3>1, <3>2 DEF Tracks
  <2>6. k # m
    BY <1>6, <2>5 DEF Follows
  <2>7. PICK j \in 1 .. m : j = k + 1
    BY <1>2, <2>4, <2>6
  <2>8. r[j].fn \notin Instrumented
    <3>1. j \in 1 .. Len(r) /\ j \in Nat /\ p[h] < j
      BY <1>2, <2>4, <2>7
    <3>2. \A g \in 1 .. Len(s) : g > h => j < p[g]
      BY <1>1, <1>2, <2>5, <2>7
    <3>3. h \in 1 .. Len(s) /\ Len(s) \in Nat
      BY <1>1, <2>2
    <3>4. QED
      BY <1>3, <3>1, <3>2, <3>3, NothingBetween
  <2>9. PICK a : a = r[k]
    OBVIOUS
  <2>10. s[h] \in Frames(n) /\ Follows(s[h], a) /\ Pending(s[h], a)
    BY <1>1, <2>2, <2>5, <2>9, ElementOfSeq DEF AtCall
  <2>11. ResultsTraced => a.at \notin UsedValues \ {0}
    <3>1. k \in 1 .. Len(r) /\ k < Len(r)
      BY <1>2, <2>4
    <3>2. Calls(a, r[j])
      BY <2>7, <2>9, <3>1 DEF StackOK
    <3>3. r[j].fn \in Code[a.at].callees
      BY <2>10, <3>2 DEF Calls, Follows
    <3>4. QED
      BY <2>8, <3>3 DEF ResultsTraced
  <2>12. PICK d : d = Returned(s[h], ops)
    OBVIOUS
  <2>13. Follows(d, r[p[h]]) /\ Pending(d, r[p[h]])
    BY <2>4, <2>9, <2>10, <2>11, <2>12, ReturnedBelow
  <2>14. Becomes(PopFrame(s, ops), s, h, d)
    BY <1>1, <2>1, <2>12, FramePopped
  <2>15. Len(s) = h + 1 /\ p[h + 1] = m + 1
    BY <1>1, <1>2, <1>3, <2>1
  <2>16. Tracks(p, PopFrame(s, ops), q, "run")
    BY <1>3, <1>4, <1>6, <2>13, <2>14, <2>15, ReturnsToExternal
  <2>17. QED
    BY <2>16 DEF Tracked
<1>9. QED
  BY <1>7, <1>8

Resumed(c, a, v, n) ==
  /\ c \in Activations(n) /\ c.fn = a.fn /\ StandsAt(c)
  /\ c.by = a.by /\ c.val = [a.val EXCEPT ![a.at] = v]
  /\ c.exit = a.exit \/ c.exit = [by |-> c.by, val |-> c.val]

LEMMA ResumeResumes ==
  ASSUME NEW n \in Nat, NEW a \in Activations(n), a.fn \in Instrumented, StandsAt(a), Waits(a),
         NEW v \in 0 .. n
  PROVE  Resumed(Resume(a, v), a, v, n)
<1>1. PICK c : c = Resume(a, v)
  OBVIOUS
<1>2. /\ c \in Activations(n) /\ c.fn = a.fn /\ StandsAt(c)
      /\ c.by = a.by /\ c.val = [a.val EXCEPT ![a.at] = v]
      /\ c.exit = a.exit \/ c.exit = [by |-> c.by, val |-> c.val]
  BY ONLY <1>1, ResumeOK, n \in Nat, a \in Activations(n), a.fn \in Instrumented, StandsAt(a),
          Waits(a), v \in 0 .. n
<1>3. QED
  BY <1>1, <1>2 DEF Resumed

LEMMA ResumeFresh ==
  ASSUME NEW n \in Nat, NEW a \in Activations(n), a.fn \in Instrumented, StandsAt(a), Waits(a),
         NEW v \in 0 .. n, Fresh(a)
  PROVE  Fresh(Resume(a, v))
<1>1. PICK c : c = Resume(a, v)
  OBVIOUS
<1>2. c.by = a.by /\ (c.exit = a.exit \/ c.exit = [by |-> c.by, val |-> c.val])
  BY <1>1, ResumeResumes DEF Resumed
<1>3. c.exit.by = a.exit.by \/ c.exit.by = c.by
  BY <1>2
<1>4. QED
  BY <1>1, <1>2, <1>3 DEF Fresh

(* To an instrumented caller, which goes on.                                *)
LEMMA ReturnsIn ==
  ASSUME NEW n \in Nat, NEW s \in Seq(Frames(n)), Len(s) # 0, NEW r, StackOK(r, n),
         NEW m \in Nat \ {0}, Len(r) = m + 1, r[m].fn \in Instrumented,
         r[m + 1].fn \in Instrumented,
         TrackedAt(s, r, "run", Len(s), Len(r)), NEW ops, ops # <<>> => ops[1] \in 0 .. n,
         ops = <<>> => r[m].at \notin UsedValues \ {0},
         NEW v \in 0 .. n, v = IF ops = <<>> THEN 0 ELSE ops[1],
         NEW q, q = Append(Front(Front(r)), Resume(Last(Front(r)), v))
  PROVE  Tracked(PopFrame(s, ops), q, "run")
<1>1. PICK l \in Nat : l = Len(s) /\ l > 0
  BY LenProperties
<1>2. PICK m1 \in Nat : m1 = m + 1 /\ Len(r) = m1
  OBVIOUS
<1>3. PICK p : Tracks(p, s, r, "run") /\ p[l] = m1
  BY <1>1, <1>2 DEF TrackedAt
<1>4. PICK a, c : a = r[m] /\ c = Resume(a, v)
  OBVIOUS
<1>5. m \in 1 .. Len(r) /\ m < Len(r)
  BY <1>2
<1>6. a \in Activations(n) /\ StandsAt(a) /\ Waits(a) /\ a.fn \in Instrumented
  BY <1>4, <1>5, StackFields DEF StackOK
<1>7. Becomes(q, r, m, c)
  <2>1. Last(Front(r)) = r[m] /\ Becomes(Append(Front(Front(r)), c), r, m, c)
    <3>1. r \in Seq(Activations(n))
      BY DEF StackOK
    <3>2. QED
      BY ONLY <3>1, m \in Nat \ {0}, Len(r) = m + 1, LastRemoved
  <2>2. QED
    BY <1>4, <2>1
<1>8. c.fn = a.fn
  <2>1. Resumed(c, a, v, n)
    BY <1>4, <1>6, ResumeResumes
  <2>2. QED
    BY <2>1 DEF Resumed
<1>9. Located(p, l, r, m)
  BY <1>1, <1>3, <1>5 DEF Tracks
<1>10. CASE \E f \in 1 .. l : p[f] = m
  <2>1. PICK f \in 1 .. l : p[f] = m
    BY <1>10
  <2>2. /\ \A g \in 1 .. l : p[g] \in Nat \ {0}
        /\ \A g \in 1 .. l : \A h \in 1 .. l : g < h => p[g] < p[h]
    BY <1>1, <1>3 DEF Tracks, Places
  <2>3. l = f + 1
    <3>1. f # l
      BY <1>2, <1>3, <2>1
    <3>2. ~(f + 1 < l)
      <4>1. ASSUME f + 1 < l PROVE FALSE
        <5>1. PICK g \in 1 .. l : g = f + 1 /\ f < g /\ g < l
          BY <2>1, <4>1
        <5>2. l \in 1 .. l
          BY <1>1
        <5>3. p[f] < p[g] /\ p[g] < p[l] /\ p[g] \in Nat
          BY <2>1, <2>2, <5>1, <5>2
        <5>4. QED
          BY <1>2, <1>3, <2>1, <5>3
      <4>2. QED
        BY <4>1
    <3>3. QED
      BY <1>1, <2>1, <3>1, <3>2
  <2>4. PICK fr, d : fr = s[f] /\ d = Returned(fr, ops)
    OBVIOUS
  <2>5. f \in 1 .. Len(s) /\ fr \in Frames(n)
    BY <1>1, <2>1, <2>4, ElementOfSeq
  <2>6. Follows(fr, a) /\ AtCall(fr, r, m)
    <3>1. m <= Len(r) /\ InCall(m, r, "run")
      BY <1>5 DEF InCall
    <3>2. QED
      BY ONLY <1>3, <1>4, <2>1, <2>4, <2>5, <3>1 DEF Tracks
  <2>7. Pending(fr, a) /\ fr.prevCallInst = a.at
    BY <1>4, <2>6 DEF AtCall
  <2>8. Follows(d, c)
    <3>1. ops = <<>> => a.at \notin UsedValues \ {0}
      BY <1>4
    <3>2. QED
      BY <1>4, <1>6, <2>4, <2>5, <2>6, <2>7, <3>1, ReturnedToCaller
  <2>9. f \in Nat \ {0} /\ Len(s) = f + 1
    BY <1>1, <2>1, <2>3
  <2>10. Becomes(PopFrame(s, ops), s, f, d)
    BY <2>4, <2>9, FramePopped
  <2>11. Meet(p, s, r, "run", f, m)
    BY <1>5, <2>1, <2>5 DEF Meet
  <2>12. Moves(s, PopFrame(s, ops), f, d, r, q, m, c, "run")
    BY <1>1, <1>2, <1>4, <1>7, <1>8, <2>8, <2>10 DEF Moves
  <2>13. TrackedAt(PopFrame(s, ops), q, "run", f, m)
    BY <1>3, <2>11, <2>12, BothChange
  <2>14. QED
    BY <2>13 DEF TrackedAt, Tracked
<1>11. CASE ~ \E f \in 1 .. l : p[f] = m
  <2>1. Fresh(a) /\ \A f \in 1 .. l : m < p[f]
    BY <1>4, <1>6, <1>9, <1>11 DEF Located
  <2>2. l = 1
    <3>1. ASSUME l # 1 PROVE FALSE
      <4>1. 1 \in 1 .. l /\ l \in 1 .. l /\ 1 < l
        BY <1>1, <3>1
      <4>2. p[1] < p[l] /\ p[1] \in Nat /\ m < p[1]
        BY <1>1, <1>3, <2>1, <4>1 DEF Tracks, Places
      <4>3. QED
        BY <1>2, <1>3, <4>2
    <3>2. QED
      BY <3>1
  <2>3. PopFrame(s, ops) = <<>> /\ Len(<<>>) = 0
    BY <1>1, <2>2, FramePopped, EmptySeq
  <2>4. Fresh(c)
    BY <1>4, <1>6, <2>1, ResumeFresh
  <2>5. \A k \in 1 .. m : r[k].fn \in Instrumented => Fresh(r[k])
    BY <1>1, <1>2, <1>3, <2>2, OnlyFrame
  <2>6. AllFresh(q)
    <3>1. Len(q) = m /\ q[m] = c /\ \A k \in 1 .. m - 1 : q[k] = r[k]
      BY <1>7 DEF Becomes
    <3>2. \A k \in 1 .. m : k = m \/ (k \in 1 .. m - 1 /\ k \in 1 .. m)
      OBVIOUS
    <3>3. QED
      BY <2>4, <2>5, <3>1, <3>2 DEF AllFresh
  <2>7. QED
    BY <2>3, <2>6, NoFrames DEF Tracked
<1>12. QED
  BY <1>10, <1>11

-----------------------------------------------------------------------------
(* Steps of the running function *)

(* The running function of the stack r becomes a, and its frame, the last   *)
(* of s, becomes d, while the trace grows from n entries to m.              *)
TopSteps(s, r, d, a, n, m, c) ==
  /\ n \in Nat /\ m \in Nat /\ n <= m
  /\ StackOK(r, n) /\ r # <<>>
  /\ s \in Seq(Frames(n)) /\ Len(s) # 0 /\ TrackedAt(s, r, "run", Len(s), Len(r))
  /\ d \in Frames(m) /\ Follows(d, a) /\ a.fn = Last(r).fn
  /\ c = "call" => Pending(d, a) /\ d.prevCallInst = a.at

LEMMA TopChanges ==
  ASSUME NEW s, NEW r, NEW d, NEW a, NEW n, NEW m, NEW c, TopSteps(s, r, d, a, n, m, c),
         NEW gs, gs = Append(Front(s), d), NEW q, q = Append(Front(r), a)
  PROVE  gs \in Seq(Frames(m)) /\ Tracked(gs, q, c)
<1> USE DEF TopSteps
<1>1. PICK l \in Nat, k \in Nat : l = Len(s) /\ k = Len(r) /\ l > 0 /\ k > 0
  BY LenProperties, StackFields
<1>2. gs \in Seq(Frames(n) \cup {d}) /\ Becomes(gs, s, l, d)
  BY <1>1, LastReplaced
<1>3. Becomes(q, r, k, a)
  <2>1. r \in Seq(Activations(n)) /\ Len(r) # 0
    BY <1>1 DEF StackOK
  <2>2. QED
    BY <1>1, <2>1, LastReplaced
<1>4. gs \in Seq(Frames(m))
  <2>1. Frames(n) \cup {d} \subseteq Frames(m)
    BY FramesGrow
  <2>2. QED
    BY <1>2, <2>1, SeqMonotonic
<1>5. PICK p : Tracks(p, s, r, "run") /\ p[l] = k
  BY <1>1 DEF TrackedAt
<1>6. Meet(p, s, r, "run", l, k)
  BY <1>1, <1>5 DEF Meet
<1>7. a.fn = r[k].fn
  BY <1>1, StackFields
<1>8. Moves(s, gs, l, d, r, q, k, a, c)
  BY <1>1, <1>2, <1>3, <1>7 DEF Moves
<1>9. TrackedAt(gs, q, c, l, k)
  BY <1>5, <1>6, <1>8, BothChange
<1>10. QED
  BY <1>4, <1>9 DEF TrackedAt, Tracked

(* What is known of the frames when the trace is read.                      *)
FramesInv ==
  /\ frames \in Seq(Frames(currentId))
  /\ tracing = "before" => frames = <<>>
  /\ tracing = "on" /\ ~aborted => Tracked(frames, real, pc)

(* The frames down to that of the running function, s, and this frame.      *)
Reading(s, n) ==
  /\ n = currentId /\ n \in Nat /\ n = Len(seen)
  /\ s = GetLLVMInstruction(Code[Current].fn)
  /\ s \in Seq(Frames(n)) /\ Len(s) # 0 /\ s[Len(s)] \in Frames(n) /\ Last(s) = s[Len(s)]
  /\ TrackedAt(s, real, "run", Len(s), Len(real)) /\ Follows(s[Len(s)], Running)

LEMMA RunningFrame ==
  ASSUME ProgramInv, TraceInv, FramesInv, tracing = "on", ~aborted, pc = "run",
         real # <<>>, Running.fn \in Instrumented
  PROVE  \E s : Reading(s, currentId)
<1>1. PICK n \in Nat : n = currentId /\ n = Len(seen)
  BY TraceFields DEF TraceInv
<1>2. PICK r, a, F : r = real /\ a = Running /\ F = Running.fn
  OBVIOUS
<1>3. /\ a \in Activations(n) /\ a = r[Len(r)] /\ Len(r) \in Nat \ {0}
      /\ F \in Instrumented /\ a.fn = F /\ Code[Current].fn = F
  <2>1. Running \in Activations(n) /\ StandsAt(Running) /\ Running = real[Len(real)]
        /\ Len(real) \in Nat \ {0}
    BY <1>1, RunningFields
  <2>2. QED
    BY <1>2, <2>1 DEF StandsAt, Current
<1>4. PICK s : s = GetLLVMInstruction(F)
  OBVIOUS
<1>5. frames \in Seq(Frames(n)) /\ Len(frames) \in Nat
  BY <1>1, LenProperties DEF FramesInv
<1>6. /\ s \in Seq(Frames(n)) /\ Len(s) \in Nat \ {0}
      /\ Found(frames, s, F)
  BY <1>3, <1>4, <1>5, FrameStack DEF Found
<1>7. PICK p, fs : Tracks(p, fs, r, "run") /\ fs = frames
  BY <1>2 DEF FramesInv, Tracked
<1>8. TrackedAt(s, r, "run", Len(s), Len(r)) /\ Follows(s[Len(s)], a)
  BY <1>3, <1>5, <1>6, <1>7, FrameFound
<1>9. s[Len(s)] \in Frames(n) /\ Last(s) = s[Len(s)] /\ Len(s) # 0
  BY <1>6, ElementOfSeq DEF Last
<1>10. QED
  BY <1>1, <1>2, <1>3, <1>4, <1>6, <1>8, <1>9 DEF Reading

LEMMA FramesUnread ==
  ASSUME FramesInv, tracing # "on" \/ aborted, UNCHANGED graph, UNCHANGED tracing
  PROVE  FramesInv'
BY DEF FramesInv, graph

LEMMA PhiFrames ==
  ASSUME ProgramInv, TraceInv, FramesInv, TracePhi
  PROVE  FramesInv'
<1>1. /\ InCode({"phi"}) /\ UNCHANGED <<pc, tracing, seen>>
      /\ WhenTracing(ParsePhi(Current, real'[Len(real)].val[Current]))
      /\ real' = Append(Front(real), PhiDone(Running, Incoming[Running.at][Running.from]))
  BY DEF TracePhi, Reads, Phi, PhiDone, PhiValue, Current
<1>2. CASE ~ (tracing = "on" /\ ~aborted)
  <2>1. UNCHANGED graph
    BY <1>1, <1>2 DEF WhenTracing
  <2>2. QED
    BY <1>1, <1>2, <2>1, FramesUnread
<1>3. CASE tracing = "on" /\ ~aborted
  <2>1. /\ real # <<>> /\ Running.fn \in Instrumented /\ Current \in Inst
        /\ Code[Current].op = "phi" /\ pc = "run" /\ Current = Running.at
    BY <1>1, InCodeFields
  <2>2. PICK s : Reading(s, currentId)
    BY <1>3, <2>1, RunningFrame
  <2>3. PICK n, r, a, i, fr : n = currentId /\ r = real /\ a = Running /\ i = Current /\ fr = s[Len(s)]
    OBVIOUS
  <2>4. /\ n \in Nat /\ n = Len(seen) /\ s = GetLLVMInstruction(Code[i].fn)
        /\ s \in Seq(Frames(n)) /\ Len(s) # 0 /\ fr \in Frames(n) /\ Last(s) = fr
        /\ TrackedAt(s, r, "run", Len(s), Len(r)) /\ Follows(fr, a)
    BY <2>2, <2>3 DEF Reading
  <2>5. /\ StackOK(r, n) /\ r # <<>> /\ a = Last(r) /\ a \in Activations(n) /\ StandsAt(a)
        /\ a.fn \in Instrumented /\ a.at = i /\ Code[a.at].op = "phi"
    BY <2>1, <2>3, <2>4, RunningFields DEF ProgramInv, Running
  <2>6. PICK c : c = PhiDone(a, Incoming[a.at][a.from])
    OBVIOUS
  <2>7. c.fn = a.fn
    BY <2>4, <2>5, <2>6, PhiOK
  <2>8. PICK d : d = HandlePhiNode(fr, i, c.val[i])
    OBVIOUS
  <2>9. Follows(d, c) /\ d \in Frames(n)
    BY <2>4, <2>5, <2>6, <2>8, PhiFollows
  <2>10. real' = Append(Front(r), c)
    BY <1>1, <2>3, <2>6
  <2>11. real'[Len(r)] = c
    <3>1. r \in Seq(Activations(n)) /\ Len(r) # 0
      <4>1. r \in Seq(Activations(n))
        BY <2>5 DEF StackOK
      <4>2. QED
        BY <2>5, <4>1, EmptySeq
    <3>2. Becomes(Append(Front(r), c), r, Len(r), c)
      BY <3>1, LastReplaced
    <3>3. QED
      BY <2>10, <3>2 DEF Becomes
  <2>12. /\ frames' = Append(Front(s), d)
         /\ UNCHANGED <<currentId, aborted>>
    <3>1. ParsePhi(i, c.val[i])
      BY <1>1, <1>3, <2>3, <2>11 DEF WhenTracing
    <3>2. QED
      BY <2>3, <2>4, <2>8, <3>1 DEF ParsePhi
  <2>13. PICK gs, q : gs = Append(Front(s), d) /\ q = Append(Front(r), c)
    OBVIOUS
  <2>14. gs \in Seq(Frames(n)) /\ Tracked(gs, q, "run")
    <3>1. n <= n
      BY <2>4
    <3>2. TopSteps(s, r, d, c, n, n, "run")
      BY <2>4, <2>5, <2>7, <2>9, <3>1 DEF TopSteps
    <3>3. QED
      BY ONLY <2>13, <3>2, TopChanges
  <2>15. QED
    BY <1>1, <1>3, <2>1, <2>3, <2>10, <2>12, <2>13, <2>14 DEF FramesInv
<1>4. QED
  BY <1>2, <1>3

(* An instruction i of the activation a, on top of r, is read; fr is its    *)
(* frame, on top of s, and ops the values of its operands.                  *)
Executing(n, r, a, i, s, fr, ops) ==
  /\ n \in Nat /\ StackOK(r, n) /\ r # <<>> /\ a = Last(r) /\ a \in Activations(n)
  /\ a.fn \in Instrumented /\ a.at = i /\ i \in Inst
  /\ s \in Seq(Frames(n)) /\ Len(s) # 0 /\ fr = Last(s) /\ fr \in Frames(n)
  /\ TrackedAt(s, r, "run", Len(s), Len(r)) /\ Follows(fr, a)
  /\ OperandsOf(ops, i, n) /\ OperandsAre(ops, i, a)

ExecutingNow(n, r, a, i, s, fr, ops) ==
  /\ n = currentId /\ n = Len(seen) /\ r = real /\ a = Running /\ i = Current
  /\ s = GetLLVMInstruction(Code[i].fn) /\ ops = Operands
  /\ Executing(n, r, a, i, s, fr, ops)

LEMMA NowExecuting ==
  ASSUME ProgramInv, TraceInv, FramesInv, tracing = "on", ~aborted, NEW S, InCode(S)
  PROVE  \E n, r, a, i, s, fr, ops : ExecutingNow(n, r, a, i, s, fr, ops)
<1>1. /\ real # <<>> /\ Running.fn \in Instrumented /\ Current \in Inst
      /\ pc = "run" /\ Current = Running.at
  BY InCodeFields
<1>2. PICK s : Reading(s, currentId)
  BY <1>1, RunningFrame
<1>3. PICK n, r, a, i, fr, ops :
        n = currentId /\ r = real /\ a = Running /\ i = Current /\ fr = s[Len(s)] /\ ops = Operands
  OBVIOUS
<1>4. /\ n \in Nat /\ n = Len(seen) /\ s = GetLLVMInstruction(Code[i].fn)
      /\ s \in Seq(Frames(n)) /\ Len(s) # 0 /\ fr \in Frames(n) /\ fr = Last(s)
      /\ TrackedAt(s, r, "run", Len(s), Len(r)) /\ Follows(fr, a)
  BY <1>2, <1>3 DEF Reading
<1>5. /\ StackOK(r, n) /\ r # <<>> /\ a = Last(r) /\ a \in Activations(n)
      /\ a.fn \in Instrumented /\ a.at = i /\ i \in Inst
  BY <1>1, <1>3, <1>4, RunningFields DEF ProgramInv, Running
<1>6. /\ ops \in Seq(0 .. n) /\ DOMAIN ops = DOMAIN Code[i].uses
      /\ \A k \in DOMAIN Code[i].uses : ops[k] = Value(Code[i].uses[k])
  BY <1>1, <1>3, <1>4, OperandsFields
<1>7. OperandsOf(ops, i, n)
  <2>1. \A k \in DOMAIN ops : ops[k] \in 0 .. n
    BY ONLY <1>4, <1>6, LenProperties, ElementOfSeq
  <2>2. QED
    BY <1>6, <2>1 DEF OperandsOf
<1>8. OperandsAre(ops, i, a)
  BY <1>3, <1>6 DEF OperandsAre, Value
<1>9. QED
  BY <1>3, <1>4, <1>5, <1>7, <1>8 DEF ExecutingNow, Executing

LEMMA FrameExecutes ==
  ASSUME NEW n, NEW r, NEW a, NEW i, NEW s, NEW fr, NEW ops, Executing(n, r, a, i, s, fr, ops),
         NEW result, result \in {NoValue} \cup 0 .. n + 1,
         NEW c, Executes(c, a, i, result, n),
         NEW d, d = UpdateFrame(fr, i, ops, result, n + 1)
  PROVE  d \in Frames(n + 1) /\ Follows(d, c) /\ d.prevBB = Code[i].bb
<1>1. /\ n \in Nat /\ a \in Activations(n) /\ a.at = i /\ i \in Inst /\ fr \in Frames(n)
      /\ Follows(fr, a) /\ OperandsOf(ops, i, n) /\ OperandsAre(ops, i, a)
  BY DEF Executing
<1>2. FrameUpdated(fr, i, ops, result, n)
  BY <1>1, FrameAfter
<1>3. d \in Frames(n + 1) /\ d.prevBB = Code[i].bb
  BY <1>2 DEF FrameUpdated
<1>4. Follows(d, c)
  BY <1>1, <1>2, InstFollows
<1>5. QED
  BY <1>3, <1>4

(* The frames after an instruction that is no return.                       *)
LEMMA InstFrames ==
  ASSUME ProgramInv, TraceInv, FramesInv, tracing = "on", ~aborted, UNCHANGED tracing,
         NEW S, InCode(S), Code[Current].op # "ret",
         NEW access, NEW result, result \in {NoValue, currentId + 1},
         ParseCurrent(result, access),
         NEW c, real' = Append(Front(real), c), Executes(c, Running, Current, result, currentId),
         IF Code[Current].op \in {"call", "invoke"}
         THEN pc' = "call" /\ c.at = Current ELSE pc' = "run"
  PROVE  FramesInv'
<1>1. PICK n, r, a, i, s, fr, ops : ExecutingNow(n, r, a, i, s, fr, ops)
  BY NowExecuting
<1>2. /\ n = currentId /\ r = real /\ a = Running /\ i = Current
      /\ s = GetLLVMInstruction(Code[i].fn) /\ ops = Operands
      /\ Executing(n, r, a, i, s, fr, ops)
  BY <1>1 DEF ExecutingNow
<1>3. /\ n \in Nat /\ StackOK(r, n) /\ r # <<>> /\ a = Last(r) /\ i \in Inst
      /\ s \in Seq(Frames(n)) /\ Len(s) # 0 /\ fr = Last(s)
      /\ TrackedAt(s, r, "run", Len(s), Len(r))
  BY <1>2 DEF Executing
<1>4. PICK m \in Nat : m = n + 1 /\ n <= m
  BY <1>3
<1>5. PICK d : d = UpdateFrame(fr, i, ops, result, n + 1)
  OBVIOUS
<1>6. /\ currentId' = m /\ UNCHANGED aborted
      /\ frames' = Append(Front(s), SetUpCall(d, i))
  BY <1>2, <1>3, <1>4, <1>5 DEF ParseCurrent, ParseInst
<1>7. result \in {NoValue} \cup 0 .. n + 1 /\ Executes(c, a, i, result, n)
  BY <1>2, <1>3
<1>8. d \in Frames(m) /\ Follows(d, c) /\ d.prevBB = Code[i].bb
  BY <1>2, <1>4, <1>5, <1>7, FrameExecutes
<1>9. PICK e, p : e = SetUpCall(d, i) /\ p = pc'
  OBVIOUS
<1>10. /\ e \in Frames(m) /\ Follows(e, c)
       /\ p = "call" => Pending(e, c) /\ e.prevCallInst = c.at
  <2>1. CASE Code[i].op \in {"call", "invoke"}
    <3>1. c.at = i /\ i \in Inst
      BY <1>2, <1>3, <2>1
    <3>2. QED
      BY <1>4, <1>8, <1>9, <2>1, <3>1, CallPending
  <2>2. CASE Code[i].op \notin {"call", "invoke"}
    <3>1. e = d /\ p = "run"
      BY <1>2, <1>9, <2>2 DEF SetUpCall
    <3>2. QED
      BY <1>8, <3>1
  <2>3. QED
    BY <2>1, <2>2
<1>11. c.fn = Last(r).fn
  BY <1>3, <1>7 DEF Executes
<1>12. TopSteps(s, r, e, c, n, m, p)
  BY <1>3, <1>4, <1>10, <1>11 DEF TopSteps
<1>13. PICK gs, q : gs = Append(Front(s), e) /\ q = Append(Front(r), c)
  OBVIOUS
<1>14. gs \in Seq(Frames(m)) /\ Tracked(gs, q, p)
  BY ONLY <1>12, <1>13, TopChanges
<1>15. QED
  BY <1>2, <1>6, <1>9, <1>13, <1>14 DEF FramesInv

LEMMA NowFields ==
  ASSUME TraceInv, tracing = "on", ~aborted
  PROVE  Now = currentId + 1 /\ currentId = Len(seen) /\ currentId \in Nat
  BY TraceFields DEF TraceInv, Now

LEMMA UsesNoStore ==
  ASSUME NEW i \in Inst, Code[i].op \in {"store", "br", "ret"}
  PROVE  i \notin UsedValues \ {0}
  BY UsedInst

(* Operations, loads and stores.                                            *)
LEMMA ComputeFrames ==
  ASSUME ProgramInv, TraceInv, FramesInv, tracing = "on", ~aborted, UNCHANGED <<tracing, pc>>,
         InCode({"op", "landingpad", "load", "store"}), NEW access,
         NEW result, result = IF Code[Current].op = "store" THEN NoValue ELSE Now,
         ParseCurrent(result, access), real' = Append(Front(real), Compute)
  PROVE  FramesInv'
<1>1. /\ real # <<>> /\ Running.fn \in Instrumented /\ Current \in Inst
      /\ Code[Current].fn = Running.fn /\ pc = "run" /\ Current = Running.at
      /\ Code[Current].op \in {"op", "landingpad", "load", "store"}
  BY InCodeFields
<1>2. Now = currentId + 1 /\ currentId = Len(seen) /\ currentId \in Nat
  BY NowFields
<1>3. PICK n \in Nat, m \in Nat : n = currentId /\ m = n + 1 /\ Len(seen) <= m /\ Now \in 0 .. m
  BY <1>2
<1>4. PICK c, a, i : c = Compute /\ a = Running /\ i = Current
  OBVIOUS
<1>5. /\ c.fn = a.fn /\ c.by = [a.by EXCEPT ![i] = m] /\ c.val = [a.val EXCEPT ![i] = m]
      /\ Code[c.at].op # "phi"
  BY <1>1, <1>2, <1>3, <1>4, ComputeStep
<1>6. a.val \in Values(n) /\ i \in Inst
  BY <1>1, <1>2, <1>3, <1>4, RunningFields, ActivationFields
<1>7. result = (IF Code[i].op = "store" THEN NoValue ELSE m) /\ m # NoValue
  BY <1>2, <1>3, <1>4 DEF NoValue
<1>8. ASSUME NEW u \in UsedValues \ {0}
      PROVE  c.val[u] = IF u = i /\ result # NoValue THEN result ELSE a.val[u]
  <2>1. u \in Inst /\ (Code[i].op = "store" => u # i)
    BY <1>6, UsedInst
  <2>2. QED
    BY <1>5, <1>6, <1>7, <2>1 DEF Values
<1>9. Executes(c, a, i, result, n)
  BY <1>3, <1>5, <1>8 DEF Executes
<1>10. result \in {NoValue, currentId + 1} /\ Code[Current].op # "ret"
  BY <1>1, <1>2
<1>11. QED
  BY <1>1, <1>3, <1>4, <1>9, <1>10, InstFrames

LEMMA BranchFrames ==
  ASSUME ProgramInv, TraceInv, FramesInv, tracing = "on", ~aborted,
         NEW b, Branch(b), ParseCurrent(NoValue, NoAccess)
  PROVE  FramesInv'
<1>1. /\ InCode({"br"}) /\ b \in ToSet(Code[Current].to)
      /\ real' = Append(Front(real), Leave(Left, b)) /\ UNCHANGED <<pc, tracing>>
  BY DEF Branch, Left
<1>2. /\ real # <<>> /\ Running.fn \in Instrumented /\ Current \in Inst
      /\ Code[Current].fn = Running.fn /\ Code[Current].op = "br"
      /\ pc = "run" /\ Current = Running.at
  BY <1>1, InCodeFields
<1>3. Now = currentId + 1 /\ currentId = Len(seen) /\ currentId \in Nat
  BY NowFields
<1>4. PICK n \in Nat, m \in Nat : n = currentId /\ m = n + 1 /\ Len(seen) <= m /\ Now \in 0 .. m
  BY <1>3
<1>5. PICK l, a, i : l = Left /\ a = Running /\ i = Current
  OBVIOUS
<1>6. /\ l \in Activations(m) /\ l.fn = a.fn /\ l.at = i
      /\ l.by = [a.by EXCEPT ![i] = m] /\ l.val = a.val
  BY <1>2, <1>3, <1>4, <1>5, LeftFields
<1>7. PICK c : c = Leave(l, b)
  OBVIOUS
<1>8. c.fn = l.fn /\ c.by = l.by /\ c.val = l.val /\ c.from = Code[l.at].bb
  <2>1. /\ l.fn \in Instrumented /\ l.at \in Inst /\ Code[l.at].fn = l.fn
        /\ b \in ToSet(Code[l.at].to)
    BY <1>1, <1>2, <1>5, <1>6
  <2>2. QED
    <3>1. l \in Activations(m)
      BY <1>6
    <3>2. /\ Leave(l, b).fn = l.fn /\ Leave(l, b).by = l.by /\ Leave(l, b).val = l.val
          /\ Leave(l, b).from = Code[l.at].bb
      BY ONLY <2>1, <3>1, LeaveOK, m \in Nat
    <3>3. QED
      BY ONLY <1>7, <3>2
<1>9. Executes(c, a, i, NoValue, n)
  BY <1>4, <1>6, <1>8 DEF Executes
<1>10. QED
  BY <1>1, <1>2, <1>4, <1>5, <1>7, <1>9, InstFrames

LEMMA CallFrames ==
  ASSUME ProgramInv, TraceInv, FramesInv, tracing = "on", ~aborted,
         Call, ParseCurrent(NoValue, NoAccess)
  PROVE  FramesInv'
<1>1. /\ InCode({"call", "invoke"}) /\ real' = Append(Front(real), Left)
      /\ pc' = "call" /\ UNCHANGED tracing
  BY DEF Call, Left
<1>2. /\ real # <<>> /\ Running.fn \in Instrumented /\ Current \in Inst
      /\ Code[Current].fn = Running.fn /\ Code[Current].op \in {"call", "invoke"}
      /\ pc = "run" /\ Current = Running.at
  BY <1>1, InCodeFields
<1>3. Now = currentId + 1 /\ currentId = Len(seen) /\ currentId \in Nat
  BY NowFields
<1>4. PICK n \in Nat, m \in Nat : n = currentId /\ m = n + 1 /\ Len(seen) <= m /\ Now \in 0 .. m
  BY <1>3
<1>5. PICK c, a, i : c = Left /\ a = Running /\ i = Current
  OBVIOUS
<1>6. /\ c.fn = a.fn /\ c.at = i /\ c.by = [a.by EXCEPT ![i] = m] /\ c.val = a.val
  BY <1>2, <1>3, <1>4, <1>5, LeftFields
<1>7. Executes(c, a, i, NoValue, n)
  BY <1>2, <1>4, <1>5, <1>6 DEF Executes
<1>8. QED
  BY <1>1, <1>2, <1>4, <1>5, <1>6, <1>7, InstFrames

(* A function of the program returns.                                       *)
ReturnsTo(q, r, v) ==
  q = IF Front(r) = <<>> \/ Last(Front(r)).fn \in External THEN Front(r)
      ELSE Append(Front(Front(r)), Resume(Last(Front(r)), v))

LEMMA FrameReturns ==
  ASSUME NEW n, NEW r, NEW a, NEW i, NEW s, NEW fr, NEW ops, Executing(n, r, a, i, s, fr, ops),
         Code[i].op = "ret", ops # <<>> => ops[1] \in 0 .. n,
         NEW v \in 0 .. n, v = IF ops = <<>> THEN 0 ELSE ops[1],
         NEW q, ReturnsTo(q, r, v), NEW c, c = IF q = <<>> THEN "end" ELSE "run"
  PROVE  Tracked(PopFrame(s, ops), q, c)
<1>1. /\ n \in Nat /\ StackOK(r, n) /\ r # <<>> /\ a = Last(r) /\ a.fn \in Instrumented
      /\ a.at = i /\ i \in Inst /\ s \in Seq(Frames(n)) /\ Len(s) # 0
      /\ TrackedAt(s, r, "run", Len(s), Len(r)) /\ OperandsOf(ops, i, n)
  BY DEF Executing
<1>2. PICK k \in Nat : k = Len(r) /\ k > 0 /\ a = r[k]
  BY <1>1, StackFields
<1>3. CASE k = 1
  <2>1. PICK t : t = Front(r)
    OBVIOUS
  <2>2. t = <<>> /\ Tracked(PopFrame(s, ops), t, c)
    BY <1>1, <1>2, <1>3, <2>1, ReturnsLast
  <2>3. q = t
    BY <2>1, <2>2 DEF ReturnsTo
  <2>4. QED
    BY <2>2, <2>3
<1>4. CASE k # 1
  <2>1. PICK m \in Nat \ {0} : m + 1 = k /\ Len(r) = m + 1
    <3>1. k - 1 \in Nat \ {0} /\ (k - 1) + 1 = k
      BY <1>2, <1>4
    <3>2. QED
      BY <1>2, <3>1
  <2>2. /\ StackOK(Front(r), n) /\ Len(Front(r)) = m /\ Last(Front(r)) = r[m]
        /\ Front(r) # <<>>
    <3>1. r \in Seq(Activations(n))
      BY <1>1 DEF StackOK
    <3>2. Last(Front(r)) = r[m]
      BY ONLY <2>1, <3>1, LastRemoved
    <3>3. StackOK(Front(r), n) /\ Len(Front(r)) = Len(r) - 1
      BY <1>1, PopStack
    <3>4. Len(Front(r)) = m /\ Front(r) # <<>>
      BY <2>1, <3>3, StackFields
    <3>5. QED
      BY <3>2, <3>3, <3>4
  <2>3. CASE r[m].fn \in External
    <3>1. q = Front(r) /\ c = "run"
      BY <2>2, <2>3 DEF ReturnsTo
    <3>2. Tracked(PopFrame(s, ops), q, "run")
      BY <1>1, <2>1, <2>3, <3>1, ReturnsOut
    <3>3. QED
      BY <3>1, <3>2
  <2>4. CASE r[m].fn \notin External
    <3>1. q = Append(Front(Front(r)), Resume(Last(Front(r)), v))
      BY <2>2, <2>4 DEF ReturnsTo
    <3>2. m \in 1 .. Len(r) /\ m < Len(r)
      BY <2>1
    <3>3. r[m] \in Activations(n) /\ Calls(r[m], r[m + 1]) /\ StandsAt(r[m]) /\ StandsAt(a)
      BY <1>1, <1>2, <2>1, <3>2, StackFields DEF StackOK
    <3>4. r[m].fn \in Instrumented
      BY <1>1, <2>4, <3>3, ActivationFields
    <3>5. c = "run"
      <4>1. PICK x, b : x = Front(Front(r)) /\ b = Resume(Last(Front(r)), v)
        OBVIOUS
      <4>2. IsSeq(Front(Front(r)))
        BY <1>1, <2>2, PopStack DEF StackOK, IsSeq
      <4>3. Append(x, b) # <<>>
        BY <4>1, <4>2, AppendFields, EmptySeq
      <4>4. QED
        BY <3>1, <4>1, <4>3
    <3>6. ops = <<>> => r[m].at \notin UsedValues \ {0}
      <4>1. ASSUME ops = <<>>, r[m].at \in UsedValues \ {0} PROVE FALSE
        <5>1. Code[i].fn = a.fn /\ a = r[m + 1]
          BY <1>1, <1>2, <2>1, <3>3 DEF StandsAt
        <5>2. Code[i].fn \in Code[r[m].at].callees
          BY <3>3, <3>4, <5>1 DEF Calls
        <5>3. Code[i].uses # <<>>
          BY <1>1, <4>1, <5>2, ValueAssumption
        <5>4. Code[i].uses \in Seq({0} \cup Inst) /\ DOMAIN Code[i].uses = {}
          BY <1>1, <4>1, InstType DEF OperandsOf
        <5>5. Code[i].uses = <<>>
          <6>1. PICK u, S : u = Code[i].uses /\ S = {0} \cup Inst
            OBVIOUS
          <6>2. u \in Seq(S) /\ DOMAIN u = {}
            BY <5>4, <6>1
          <6>3. Len(u) \in Nat /\ DOMAIN u = 1 .. Len(u)
            BY <6>2, LenProperties
          <6>4. Len(u) = 0
            BY <6>2, <6>3
          <6>5. QED
            BY <6>1, <6>2, <6>4, EmptySeq
        <5>6. QED
          BY <5>3, <5>5
      <4>2. QED
        BY <4>1
    <3>7. a = r[m + 1]
      BY <1>2, <2>1
    <3>8. r[m + 1].fn \in Instrumented
      BY <1>1, <3>7
    <3>9. Tracked(PopFrame(s, ops), q, "run")
      BY ONLY <1>1, <2>1, <3>1, <3>4, <3>6, <3>8, ops # <<>> => ops[1] \in 0 .. n,
         v \in 0 .. n, v = IF ops = <<>> THEN 0 ELSE ops[1], ReturnsIn
    <3>10. QED
      BY <3>5, <3>9
  <2>5. QED
    BY <2>3, <2>4
<1>5. QED
  BY <1>3, <1>4

LEMMA ReturnFrames ==
  ASSUME ProgramInv, TraceInv, FramesInv, tracing = "on", ~aborted,
         Return, ParseCurrent(NoValue, NoAccess)
  PROVE  FramesInv'
<1>1. /\ InCode({"ret"}) /\ UNCHANGED tracing /\ pc' = IF real' = <<>> THEN "end" ELSE "run"
  BY DEF Return
<1>2. PICK n, r, a, i, s, fr, ops : ExecutingNow(n, r, a, i, s, fr, ops)
  BY <1>1, NowExecuting
<1>3. /\ n = currentId /\ r = real /\ a = Running /\ i = Current
      /\ s = GetLLVMInstruction(Code[i].fn) /\ ops = Operands
      /\ Executing(n, r, a, i, s, fr, ops)
  BY <1>2 DEF ExecutingNow
<1>4. /\ n \in Nat /\ i \in Inst /\ s \in Seq(Frames(n)) /\ Len(s) # 0 /\ fr = Last(s)
      /\ OperandsOf(ops, i, n)
  BY <1>3 DEF Executing
<1>5. Code[i].op = "ret"
  BY <1>1, <1>3, InCodeFields
<1>6. ops # <<>> => ops[1] \in 0 .. n
  <2>1. real # <<>> /\ Current \in Inst
    BY <1>1, InCodeFields
  <2>2. Operands \in Seq(0 .. Len(seen))
    BY <2>1, OperandsFields
  <2>3. ops \in Seq(0 .. n)
    BY <1>2, <2>2 DEF ExecutingNow
  <2>4. QED
    <3>1. Len(ops) \in Nat
      BY <2>3, LenProperties
    <3>2. ops # <<>> => 1 \in 1 .. Len(ops)
      BY ONLY <2>3, <3>1, EmptySeq
    <3>3. QED
      BY ONLY <2>3, <3>2, ElementOfSeq
<1>7. PICK v \in 0 .. n : v = IF ops = <<>> THEN 0 ELSE ops[1]
  BY <1>4, <1>6
<1>8. PICK q, c : q = real' /\ c = pc'
  OBVIOUS
<1>9. ReturnsTo(q, r, v) /\ c = IF q = <<>> THEN "end" ELSE "run"
  BY <1>1, <1>3, <1>7, <1>8 DEF Return, ReturnsTo
<1>10. Tracked(PopFrame(s, ops), q, c)
  BY <1>3, <1>5, <1>6, <1>7, <1>9, FrameReturns
<1>11. PICK m \in Nat : m = n + 1 /\ n <= m
  BY <1>4
<1>12. PICK d : d = UpdateFrame(fr, i, ops, NoValue, n + 1)
  OBVIOUS
<1>13. /\ currentId' = m /\ UNCHANGED aborted
       /\ frames' = PopFrame(Append(Front(s), d), ops)
  BY <1>3, <1>4, <1>5, <1>11, <1>12 DEF ParseCurrent, ParseInst
<1>14. PopFrame(Append(Front(s), d), ops) = PopFrame(s, ops)
  <2>1. Front(Append(Front(s), d)) = Front(s)
    BY ONLY <1>4, LastReplaced
  <2>2. QED
    BY <2>1 DEF PopFrame
<1>15. PopFrame(s, ops) \in Seq(Frames(m))
  <2>1. PopFrame(s, ops) \in Seq(Frames(n))
    BY <1>4, <1>6, FramePopped
  <2>2. Frames(n) \subseteq Frames(m)
    BY <1>4, <1>11, FramesGrow
  <2>3. QED
    BY <2>1, <2>2, SeqMonotonic
<1>16. QED
  BY <1>1, <1>8, <1>10, <1>13, <1>14, <1>15 DEF FramesInv

(* A function of the program begins, ...                                    *)
LEMMA NewOnTop ==
  ASSUME NEW n \in Nat, NEW r, StackOK(r, n), NEW fs \in Seq(Frames(n)), NEW c,
         NEW f \in Instrumented, c = "call" \/ (Len(r) > 0 /\ r[Len(r)].fn \notin Instrumented),
         Tracked(fs, r, c),
         NEW gs, gs = Append(fs, DynamicFrame(f)), NEW q, q = Append(r, Activation(f))
  PROVE  gs \in Seq(Frames(n)) /\ Tracked(gs, q, "run")
<1>1. PICK d, a : d = DynamicFrame(f) /\ a = Activation(f)
  OBVIOUS
<1>2. d \in Frames(n)
  BY <1>1, NewFrame
<1>3. a \in Activations(n) /\ a.fn = f /\ Fresh(a)
  <2>1. /\ a \in Activations(n) /\ a.fn = f /\ a.by = [i \in Inst |-> 0]
        /\ a.exit.by = [i \in Inst |-> 0]
    BY <1>1, NewActivation
  <2>2. QED
    BY <2>1 DEF Fresh
<1>4. Follows(d, a)
  BY <1>1, <1>3, NewFollows
<1>5. PICK l \in Nat, k \in Nat : l = Len(fs) /\ k = Len(r)
  BY LenProperties, StackFields
<1>6. PICK l1 \in Nat, k1 \in Nat : l1 = l + 1 /\ k1 = k + 1
  BY <1>5
<1>7. gs \in Seq(Frames(n)) /\ Becomes(gs, fs, l1, d)
  <2>1. gs = Append(fs, d)
    BY <1>1
  <2>2. gs \in Seq(Frames(n)) /\ Len(gs) = l1 /\ gs[l1] = d /\ \A i \in 1 .. l : gs[i] = fs[i]
    BY ONLY <1>2, <1>5, <1>6, <2>1, fs \in Seq(Frames(n)), AppendProperties
  <2>3. \A i \in 1 .. l1 - 1 : i \in 1 .. l
    BY <1>6
  <2>4. QED
    BY <2>2, <2>3 DEF Becomes
<1>8. Becomes(q, r, k1, a)
  <2>1. q = Append(r, a) /\ IsSeq(r)
    BY <1>1 DEF StackOK, IsSeq
  <2>2. Len(q) = k1 /\ q[k1] = a /\ \A i \in 1 .. k : q[i] = r[i]
    BY ONLY <1>5, <1>6, <2>1, AppendFields
  <2>3. \A i \in 1 .. k1 - 1 : i \in 1 .. k
    BY <1>6
  <2>4. QED
    BY <2>2, <2>3 DEF Becomes
<1>9. PICK p : Tracks(p, fs, r, c)
  BY DEF Tracked
<1>10. Meet(p, fs, r, c, l1, k1)
  BY <1>5, <1>6 DEF Meet
<1>11. Moves(fs, gs, l1, d, r, q, k1, a, "run")
  BY <1>4, <1>5, <1>6, <1>7, <1>8 DEF Moves
<1>12. TrackedAt(gs, q, "run", l1, k1)
  BY <1>9, <1>10, <1>11, BothChange
<1>13. QED
  BY <1>7, <1>12 DEF TrackedAt, Tracked

LEMMA EnterFrames == ASSUME ProgramInv, TraceInv, FramesInv, TraceEnter PROVE FramesInv'
<1>1. PICK f \in Instrumented : Enter(f) /\ WhenTracing(ParseFunctionEnter(f))
  BY DEF TraceEnter, Reads
<1>2. /\ real' = Append(real, Activation(f)) /\ pc' = "run" /\ UNCHANGED <<tracing, seen>>
      /\ pc = "call" \/ (real # <<>> /\ Running.fn \in External)
  BY <1>1 DEF Enter
<1>3. CASE ~ (tracing = "on" /\ ~aborted)
  <2>1. UNCHANGED graph
    BY <1>1, <1>3 DEF WhenTracing
  <2>2. QED
    BY <1>2, <1>3, <2>1, FramesUnread
<1>4. CASE tracing = "on" /\ ~aborted
  <2>1. ParseFunctionEnter(f)
    BY <1>1, <1>4 DEF WhenTracing
  <2>2. CASE aborted'
    <3>1. UNCHANGED <<frames, currentId>>
      BY <1>4, <2>1, <2>2 DEF ParseFunctionEnter
    <3>2. QED
      BY <1>2, <1>4, <2>2, <3>1 DEF FramesInv
  <2>3. CASE ~aborted'
    <3>1. frames' = Append(frames, DynamicFrame(f)) /\ UNCHANGED <<currentId, aborted>>
      BY <2>1, <2>3 DEF ParseFunctionEnter
    <3>2. PICK n, r, fs, c : n = currentId /\ r = real /\ fs = frames /\ c = pc
      OBVIOUS
    <3>3. n \in Nat /\ StackOK(r, n) /\ fs \in Seq(Frames(n)) /\ Tracked(fs, r, c)
      BY <1>4, <3>2, TraceFields DEF ProgramInv, TraceInv, FramesInv
    <3>4. c = "call" \/ (Len(r) > 0 /\ r[Len(r)].fn \notin Instrumented)
      <4>1. CASE pc = "call"
        BY <3>2, <4>1
      <4>2. CASE real # <<>> /\ Running.fn \in External
        BY <3>2, <4>2, RunningFields, CodeAssumption
      <4>3. QED
        BY <1>2, <4>1, <4>2
    <3>5. PICK gs, q : gs = Append(fs, DynamicFrame(f)) /\ q = Append(r, Activation(f))
      OBVIOUS
    <3>6. gs \in Seq(Frames(n)) /\ Tracked(gs, q, "run")
      BY <3>3, <3>4, <3>5, NewOnTop
    <3>7. QED
      BY <1>2, <1>4, <3>1, <3>2, <3>5, <3>6 DEF FramesInv
  <2>4. QED
    BY <2>2, <2>3
<1>5. QED
  BY <1>3, <1>4

(* or one that is not in the trace.                                         *)
LEMMA EnterExternalFrames ==
  ASSUME ProgramInv, TraceInv, FramesInv, NEW f \in External, Enter(f), UNCHANGED graph
  PROVE  FramesInv'
<1>1. /\ real' = Append(real, Activation(f)) /\ pc' = "run" /\ UNCHANGED tracing
      /\ pc = "call"
  BY CodeAssumption DEF Enter
<1>2. CASE ~ (tracing = "on" /\ ~aborted)
  BY <1>1, <1>2, FramesUnread
<1>3. CASE tracing = "on" /\ ~aborted
  <2>1. PICK n, r, fs : n = currentId /\ r = real /\ fs = frames
    OBVIOUS
  <2>2. n \in Nat /\ StackOK(r, n) /\ fs \in Seq(Frames(n)) /\ Tracked(fs, r, "call")
    BY <1>1, <1>3, <2>1, TraceFields DEF ProgramInv, TraceInv, FramesInv
  <2>3. PICK p : Tracks(p, fs, r, "call")
    BY <2>2 DEF Tracked
  <2>4. PICK k \in Nat, m \in Nat : k = Len(r) /\ m = k + 1
    BY <2>2, StackFields
  <2>5. PICK a, q : a = Activation(f) /\ q = Append(r, a)
    OBVIOUS
  <2>6. Becomes(q, r, m, a)
    <3>1. IsSeq(r)
      BY <2>2 DEF StackOK, IsSeq
    <3>2. Len(q) = m /\ q[m] = a /\ \A i \in 1 .. k : q[i] = r[i]
      BY ONLY <2>4, <2>5, <3>1, AppendFields
    <3>3. \A i \in 1 .. m - 1 : i \in 1 .. k
      BY <2>4
    <3>4. QED
      BY <3>2, <3>3 DEF Becomes
  <2>7. a.fn \notin Instrumented
    <3>1. a.fn = f
      BY <2>2, <2>5, NewActivation
    <3>2. QED
      BY <3>1, CodeAssumption
  <2>8. Len(fs) \in Nat
    BY <2>2, LenProperties
  <2>9. Tracks(p, fs, q, "run")
    BY <2>3, <2>4, <2>6, <2>7, <2>8, EntersExternal
  <2>10. QED
    BY <1>1, <1>3, <2>1, <2>2, <2>5, <2>9 DEF FramesInv, Tracked, graph
<1>4. QED
  BY <1>2, <1>3

(* The frames of the activations above kr are left behind, if there are     *)
(* any, when uninstrumented code, on top, goes back to kr.                  *)
LEMMA AboveFallen ==
  ASSUME NEW p, NEW fs, NEW r, Len(r) \in Nat \ {0}, NEW c, Tracks(p, fs, r, c),
         r[Len(r)].fn \in External, NEW f \in 1 .. Len(fs)
  PROVE  /\ p[f] \in Nat /\ p[f] < Len(r) /\ p[f] > 0
         /\ Follows(fs[f], r[p[f]]) /\ AtCall(fs[f], r, p[f])
<1>1. p[f] \in Nat \ {0}
  BY DEF Tracks, Places
<1>2. ~ (p[f] > Len(r))
  <2>1. ASSUME p[f] > Len(r) PROVE FALSE
    <3>1. LeftBehind(fs[f], r, c)
      BY <2>1 DEF Tracks
    <3>2. QED
      BY <3>1, CodeAssumption DEF LeftBehind
  <2>2. QED
    BY <2>1
<1>3. p[f] <= Len(r)
  BY <1>1, <1>2
<1>4. Follows(fs[f], r[p[f]])
  BY <1>3 DEF Tracks
<1>5. p[f] # Len(r)
  <2>1. ASSUME p[f] = Len(r) PROVE FALSE
    BY <1>4, <2>1, CodeAssumption DEF Follows
  <2>2. QED
    BY <2>1
<1>6. p[f] < Len(r)
  BY <1>1, <1>3, <1>5
<1>7. AtCall(fs[f], r, p[f])
  BY <1>6 DEF Tracks, InCall
<1>8. QED
  BY <1>1, <1>4, <1>6, <1>7

LEMMA FramesReturnExternal ==
  ASSUME NEW n \in Nat, NEW r, StackOK(r, n), NEW fs, Len(fs) \in Nat, fs \in Seq(Frames(n)),
         Tracked(fs, r, "run"), NEW m \in Nat \ {0}, Len(r) = m + 1, r[m + 1].fn \in External,
         NEW v \in 0 .. n, NEW q, Becomes(q, r, m, Resume(r[m], v))
  PROVE  Tracked(fs, q, "run")
<1>1. PICK p : Tracks(p, fs, r, "run")
  BY DEF Tracked
<1>2. PICK a, c : a = r[m] /\ c = Resume(a, v)
  OBVIOUS
<1>3. PICK l \in Nat \ {0} : l = Len(r) /\ l = m + 1
  OBVIOUS
<1>4. m \in 1 .. Len(r) /\ m < Len(r) /\ m + 1 \in 1 .. Len(r)
  BY <1>3
<1>5. a \in Activations(n) /\ StandsAt(a) /\ Waits(a) /\ Calls(a, r[m + 1])
  BY <1>2, <1>4, StackFields DEF StackOK
<1>6. a.fn \in Instrumented
  <2>1. r[(m + 1) - 1].fn \in Instrumented
    BY <1>4 DEF StackOK
  <2>2. QED
    BY <1>2, <2>1
<1>7. ResultsTraced => a.at \notin UsedValues \ {0}
  BY <1>5, <1>6, CodeAssumption DEF ResultsTraced, Calls
<1>8. c.fn = a.fn /\ (Fresh(a) => Fresh(c))
  <2>1. Resumed(c, a, v, n)
    BY <1>2, <1>5, <1>6, ResumeResumes
  <2>2. Fresh(a) => Fresh(c)
    BY <1>2, <1>5, <1>6, ResumeFresh
  <2>3. QED
    BY <2>1, <2>2 DEF Resumed
<1>9. Becomes(q, r, m, c) /\ q[m] = c
  BY <1>2 DEF Becomes
<1>10. GoesOn(p, fs, q, m)
  <2>1. ASSUME NEW f \in 1 .. Len(fs)
        PROVE  /\ p[f] = m => Follows(fs[f], q[m])
               /\ p[f] > m => LeftBehind(fs[f], q, "run")
    <3>1. Len(r) \in Nat \ {0} /\ r[Len(r)].fn \in External
      BY <1>3
    <3>2. /\ p[f] \in Nat /\ p[f] < Len(r)
          /\ Follows(fs[f], r[p[f]]) /\ AtCall(fs[f], r, p[f])
      BY <1>1, <3>1, AboveFallen
    <3>3. ~ (p[f] > m)
      BY <1>3, <3>2
    <3>4. ASSUME p[f] = m PROVE Follows(fs[f], q[m])
      <4>1. Follows(fs[f], a) /\ Pending(fs[f], a)
        BY <1>2, <3>2, <3>4 DEF AtCall
      <4>2. PICK fr : fr = fs[f]
        OBVIOUS
      <4>3. fr \in Frames(n)
        BY <4>2, ElementOfSeq
      <4>4. Follows(fr, Resume(a, v))
        BY <1>5, <1>7, <4>1, <4>2, <4>3, ExternalFollows
      <4>5. QED
        BY <1>2, <1>9, <4>2, <4>4
    <3>5. QED
      BY <3>3, <3>4
  <2>2. QED
    BY <2>1 DEF GoesOn
<1>11. Tracks(p, fs, q, "run")
  BY <1>1, <1>2, <1>3, <1>4, <1>8, <1>9, <1>10, FallsBack
<1>12. QED
  BY <1>11 DEF Tracked

LEMMA FramesThrow ==
  ASSUME NEW n \in Nat, NEW r, StackOK(r, n), NEW fs, Len(fs) \in Nat,
         Tracked(fs, r, "run"), Len(r) \in Nat \ {0}, r[Len(r)].fn \in External,
         NEW k \in 1 .. Len(r), k < Len(r), r[k].fn \in Instrumented,
         Code[r[k].at].op = "invoke", \A j \in k + 1 .. Len(r) : r[j].fn # r[k].fn,
         NEW q, Becomes(q, r, k, Leave(r[k], Code[r[k].at].to[2]))
  PROVE  Tracked(fs, q, "run")
<1>1. PICK p : Tracks(p, fs, r, "run")
  BY DEF Tracked
<1>2. PICK a, b, c : a = r[k] /\ b = Code[a.at].to[2] /\ c = Leave(a, b)
  OBVIOUS
<1>3. a \in Activations(n) /\ StandsAt(a) /\ a.fn \in Instrumented
  BY <1>2, StackFields
<1>4. a.at \in Inst /\ Code[a.at].fn = a.fn /\ Code[a.at].op = "invoke"
  BY <1>2, <1>3 DEF StandsAt
<1>5. b \in ToSet(Code[a.at].to) /\ Landing(First(b))
  <2>1. Len(Code[a.at].to) = 2 /\ Code[a.at].to \in Seq(Block) /\ Landing(First(Code[a.at].to[2]))
    BY <1>4, CodeAssumption, InstType
  <2>2. b \in ToSet(Code[a.at].to)
    BY ONLY <1>2, <2>1, LenProperties DEF ToSet
  <2>3. QED
    BY <1>2, <2>1, <2>2
<1>6. c.fn = a.fn /\ c.at = First(b) /\ c.by = a.by /\ c.exit = [by |-> a.by, val |-> a.val]
  <2>1. LET x == Leave(a, b) IN
        x.fn = a.fn /\ x.at = First(b) /\ x.by = a.by /\ x.exit = [by |-> a.by, val |-> a.val]
    BY ONLY <1>3, <1>4, <1>5, LeaveOK, n \in Nat
  <2>2. QED
    BY <1>2, <2>1
<1>7. Fresh(a) => Fresh(c)
  BY <1>6 DEF Fresh
<1>8. Becomes(q, r, k, c) /\ q[k] = c /\ Len(q) = k
  BY <1>2 DEF Becomes
<1>9. GoesOn(p, fs, q, k)
  <2>1. ASSUME NEW f \in 1 .. Len(fs)
        PROVE  /\ p[f] = k => Follows(fs[f], q[k])
               /\ p[f] > k => LeftBehind(fs[f], q, "run")
    <3>1. /\ p[f] \in Nat /\ p[f] < Len(r)
          /\ Follows(fs[f], r[p[f]]) /\ AtCall(fs[f], r, p[f])
      BY <1>1, AboveFallen
    <3>2. ASSUME p[f] = k PROVE Follows(fs[f], q[k])
      <4>1. Follows(fs[f], a) /\ Pending(fs[f], a)
        BY <1>2, <3>1, <3>2 DEF AtCall
      <4>2. PICK fr : fr = fs[f]
        OBVIOUS
      <4>3. Follows(fr, Leave(a, b))
        BY <1>3, <1>5, <4>1, <4>2, ThrownFollows
      <4>4. QED
        BY <1>2, <1>8, <4>2, <4>3
    <3>3. ASSUME p[f] > k PROVE LeftBehind(fs[f], q, "run")
      <4>1. p[f] \in k + 1 .. Len(r)
        BY <3>1, <3>3
      <4>2. fs[f].fn # a.fn
        BY <1>2, <3>1, <4>1 DEF Follows
      <4>3. k > 0
        OBVIOUS
      <4>4. QED
        BY <1>3, <1>5, <1>6, <1>8, <4>2, <4>3 DEF LeftBehind
    <3>4. QED
      BY <3>2, <3>3
  <2>2. QED
    BY <2>1 DEF GoesOn
<1>10. c.fn = r[k].fn /\ (Fresh(r[k]) => Fresh(c)) /\ Len(r) \in Nat
  BY <1>2, <1>6, <1>7
<1>11. Tracks(p, fs, q, "run")
  BY <1>1, <1>8, <1>9, <1>10, FallsBack
<1>12. QED
  BY <1>11 DEF Tracked

LEMMA ReturnExternalFrames ==
  ASSUME ProgramInv, TraceInv, FramesInv, ReturnExternal, UNCHANGED graph
  PROVE  FramesInv'
<1>1. /\ real # <<>> /\ Running.fn \in External /\ pc = "run" /\ UNCHANGED <<pc, tracing>>
      /\ real' = Append(Front(Front(real)),
                        Resume(Last(Front(real)), Last(Front(real)).by[Last(Front(real)).at]))
  BY DEF ReturnExternal, InExternal
<1>2. CASE ~ (tracing = "on" /\ ~aborted)
  BY <1>1, <1>2, FramesUnread
<1>3. CASE tracing = "on" /\ ~aborted
  <2>1. PICK n, r, fs : n = currentId /\ n = Len(seen) /\ r = real /\ fs = frames
    BY <1>3 DEF TraceInv
  <2>2. /\ n \in Nat /\ StackOK(r, n) /\ fs \in Seq(Frames(n)) /\ Tracked(fs, r, "run")
        /\ Len(fs) \in Nat /\ r # <<>>
    BY <1>1, <1>3, <2>1, TraceFields, LenProperties DEF ProgramInv, TraceInv, FramesInv
  <2>3. PICK k \in Nat : k = Len(r) /\ k > 0 /\ r[k].fn \in External
    BY <1>1, <2>1, <2>2, StackFields DEF Running
  <2>4. k > 1 /\ r[k - 1].fn \in Instrumented
    <3>1. k \in 1 .. Len(r)
      BY <2>3
    <3>2. QED
      BY <2>2, <2>3, <3>1 DEF StackOK
  <2>5. PICK m \in Nat \ {0} : k = m + 1 /\ m = k - 1
    <3>1. k - 1 \in Nat \ {0} /\ k = (k - 1) + 1
      BY <2>3, <2>4
    <3>2. QED
      BY <3>1
  <2>6. Len(r) = m + 1 /\ r[m + 1].fn \in External /\ r[m].fn \in Instrumented
    BY <2>3, <2>4, <2>5
  <2>7. PICK v, a : a = r[m] /\ v = a.by[a.at]
    OBVIOUS
  <2>8. v \in 0 .. n
    <3>1. m \in 1 .. Len(r)
      BY <2>6
    <3>2. a \in Activations(n) /\ StandsAt(a)
      BY <2>2, <2>7, <3>1, StackFields
    <3>3. a.at \in Inst /\ a.by \in Values(n)
      BY <2>2, <2>6, <2>7, <3>2, ActivationFields DEF StandsAt
    <3>4. QED
      BY <2>7, <3>3 DEF Values
  <2>9. PICK q, c : c = Resume(a, v) /\ q = Append(Front(Front(r)), c)
    OBVIOUS
  <2>10. Last(Front(r)) = r[m] /\ Becomes(Append(Front(Front(r)), c), r, m, c)
    <3>1. r \in Seq(Activations(n))
      BY <2>2 DEF StackOK
    <3>2. QED
      BY ONLY <2>6, <3>1, m \in Nat \ {0}, LastRemoved
  <2>11. real' = q
    BY <1>1, <2>1, <2>7, <2>9, <2>10
  <2>12. Becomes(q, r, m, Resume(r[m], v))
    BY <2>7, <2>9, <2>10
  <2>13. Tracked(fs, q, "run")
    BY <2>2, <2>6, <2>8, <2>12, FramesReturnExternal
  <2>14. QED
    BY <1>1, <1>3, <2>1, <2>2, <2>11, <2>13 DEF FramesInv, graph
<1>4. QED
  BY <1>2, <1>3

LEMMA ThrowFrames ==
  ASSUME ProgramInv, TraceInv, FramesInv, NEW k \in 1 .. MaxDepth, Throw(k), UNCHANGED graph
  PROVE  FramesInv'
<1>1. /\ real # <<>> /\ Running.fn \in External /\ pc = "run" /\ k \in 1 .. Len(real) - 1
      /\ real[k].fn \in Instrumented /\ Code[real[k].at].op = "invoke"
      /\ \A j \in k + 1 .. Len(real) : real[j].fn # real[k].fn
      /\ real' = Append(SubSeq(real, 1, k - 1), Leave(real[k], Code[real[k].at].to[2]))
      /\ UNCHANGED <<pc, tracing>>
  BY DEF Throw, InExternal
<1>2. CASE ~ (tracing = "on" /\ ~aborted)
  BY <1>1, <1>2, FramesUnread
<1>3. CASE tracing = "on" /\ ~aborted
  <2>1. PICK n, r, fs : n = currentId /\ n = Len(seen) /\ r = real /\ fs = frames
    BY <1>3 DEF TraceInv
  <2>2. /\ n \in Nat /\ StackOK(r, n) /\ fs \in Seq(Frames(n)) /\ Tracked(fs, r, "run")
        /\ Len(fs) \in Nat /\ r # <<>>
    BY <1>1, <1>3, <2>1, TraceFields, LenProperties DEF ProgramInv, TraceInv, FramesInv
  <2>3. Len(r) \in Nat \ {0} /\ r[Len(r)].fn \in External
    BY <1>1, <2>1, <2>2, StackFields DEF Running
  <2>4. k \in 1 .. Len(r) /\ k < Len(r)
    <3>1. k \in Nat /\ k \in 1 .. Len(r) - 1
      BY <1>1, <2>1, BoundAssumption
    <3>2. QED
      BY <2>3, <3>1
  <2>5. PICK a, b : a = r[k] /\ b = Code[a.at].to[2]
    OBVIOUS
  <2>6. a \in Activations(n) /\ StandsAt(a) /\ a.fn \in Instrumented
    BY <1>1, <2>1, <2>2, <2>4, <2>5, StackFields
  <2>7. a.at \in Inst /\ Code[a.at].fn = a.fn /\ Code[a.at].op = "invoke"
    BY <1>1, <2>1, <2>5, <2>6 DEF StandsAt
  <2>8. b \in ToSet(Code[a.at].to)
    <3>1. Len(Code[a.at].to) = 2 /\ Code[a.at].to \in Seq(Block)
      BY <2>7, CodeAssumption, InstType
    <3>2. QED
      BY ONLY <2>5, <3>1, LenProperties DEF ToSet
  <2>9. PICK c, q : c = Leave(a, b) /\ q = CutTo(r, k, c)
    OBVIOUS
  <2>10. c \in Activations(n) /\ c.fn = a.fn /\ StandsAt(c)
    <3>1. n \in Nat /\ c = Leave(a, b)
      BY <2>2, <2>9
    <3>2. QED
      BY ONLY <2>6, <2>7, <2>8, <3>1, LeaveOK
  <2>11. Len(CutTo(r, k, c)) = k /\ CutTo(r, k, c)[k] = c /\ \A i \in 1 .. k - 1 : CutTo(r, k, c)[i] = r[i]
    BY <2>2, <2>4, <2>5, <2>10, CutStack
  <2>12. Becomes(q, r, k, Leave(r[k], Code[r[k].at].to[2]))
    BY <2>5, <2>9, <2>11 DEF Becomes
  <2>13. real' = q
    BY <1>1, <2>1, <2>5, <2>9 DEF CutTo
  <2>14. /\ r[k].fn \in Instrumented /\ Code[r[k].at].op = "invoke"
         /\ \A j \in k + 1 .. Len(r) : r[j].fn # r[k].fn
    BY <1>1, <2>1
  <2>15. Tracked(fs, q, "run")
    BY ONLY <2>2, <2>3, <2>4, <2>12, <2>14, FramesThrow
  <2>16. QED
    BY <1>1, <1>3, <2>1, <2>2, <2>13, <2>15 DEF FramesInv, graph
<1>4. QED
  BY <1>2, <1>3

LEMMA StartFrames ==
  ASSUME ProgramInv, TraceInv, FramesInv, StartTrace, UNCHANGED graph
  PROVE  FramesInv'
<1>1. tracing = "before" /\ UNCHANGED <<real, pc>> /\ frames = <<>> /\ seen = <<>>
  BY DEF StartTrace, FramesInv, ProgramInv
<1>2. PICK n, r, c : n = Len(seen) /\ r = real /\ c = pc
  OBVIOUS
<1>3. n = 0 /\ StackOK(r, n)
  BY <1>1, <1>2, EmptySeq DEF ProgramInv
<1>4. AllFresh(r)
  <2>1. ASSUME NEW k \in 1 .. Len(r) PROVE Fresh(r[k])
    <3>1. r[k].by \in Values(0) /\ r[k].exit.by \in Values(0)
      BY <1>3, StackFields, ActivationFields
    <3>2. QED
      BY <3>1 DEF Fresh, Values
  <2>2. QED
    BY <2>1 DEF AllFresh
<1>5. PICK fs : fs = frames /\ Len(fs) = 0
  BY <1>1, EmptySeq
<1>6. Tracked(fs, r, c)
  BY <1>4, <1>5, NoFrames DEF Tracked
<1>7. QED
  BY <1>1, <1>2, <1>5, <1>6 DEF FramesInv, graph, StartTrace

LEMMA FramesKept == ASSUME ProgramInv, TraceInv, FramesInv, [Next]_vars PROVE FramesInv'
<1>1. CASE UNCHANGED vars
  BY <1>1 DEF vars, program, graph, FramesInv
<1>2. CASE Serialize
  BY <1>2 DEF Serialize, CommitOneDynamicInst, program, FramesInv
<1>3. CASE LoadOne
  <2>0. LoadOneDynamicInst(Accesses)
    BY <1>3 DEF LoadOne
  <2>1. CASE TracePhi
    BY <2>1, PhiFrames
  <2>2. CASE TraceOperation
    <3>1. Operation /\ WhenTracing(ParseCurrent(Now, NoAccess))
      BY <2>2 DEF TraceOperation, Reads
    <3>2. InCode({"op", "landingpad"}) /\ UNCHANGED <<tracing, pc>> /\ real' = Append(Front(real), Compute)
      BY <3>1 DEF Operation
    <3>3. CASE tracing = "on" /\ ~aborted
      <4>1. Code[Current].op # "store" /\ InCode({"op", "landingpad", "load", "store"})
        BY <3>2 DEF InCode
      <4>2. ParseCurrent(Now, NoAccess)
        BY <3>1, <3>3 DEF WhenTracing
      <4>3. PICK result : result = Now
        OBVIOUS
      <4>4. QED
        BY <3>2, <3>3, <4>1, <4>2, <4>3, ComputeFrames
    <3>4. CASE ~ (tracing = "on" /\ ~aborted)
      BY <3>1, <3>2, <3>4, FramesUnread DEF WhenTracing
    <3>5. QED
      BY <3>3, <3>4
  <2>3. CASE TraceLoad(Accesses)
    <3>1. PICK a \in Accesses : Load(a) /\ WhenTracing(ParseCurrent(Now, a))
      BY <2>3 DEF TraceLoad, Reads
    <3>2. InCode({"load"}) /\ UNCHANGED <<tracing, pc>> /\ real' = Append(Front(real), Compute)
      BY <3>1 DEF Load
    <3>3. CASE tracing = "on" /\ ~aborted
      <4>1. Code[Current].op # "store" /\ InCode({"op", "landingpad", "load", "store"})
        BY <3>2 DEF InCode
      <4>2. ParseCurrent(Now, a)
        BY <3>1, <3>3 DEF WhenTracing
      <4>3. PICK result : result = Now
        OBVIOUS
      <4>4. QED
        BY <3>2, <3>3, <4>1, <4>2, <4>3, ComputeFrames
    <3>4. CASE ~ (tracing = "on" /\ ~aborted)
      BY <3>1, <3>2, <3>4, FramesUnread DEF WhenTracing
    <3>5. QED
      BY <3>3, <3>4
  <2>4. CASE TraceStore(Accesses)
    <3>1. PICK a \in Accesses : Store(a) /\ WhenTracing(ParseCurrent(NoValue, a))
      BY <2>4 DEF TraceStore, Reads
    <3>2. InCode({"store"}) /\ UNCHANGED <<tracing, pc>> /\ real' = Append(Front(real), Compute)
      BY <3>1 DEF Store
    <3>3. CASE tracing = "on" /\ ~aborted
      <4>1. Code[Current].op = "store" /\ InCode({"op", "landingpad", "load", "store"})
        BY <3>2 DEF InCode
      <4>2. ParseCurrent(NoValue, a)
        BY <3>1, <3>3 DEF WhenTracing
      <4>3. QED
        BY <3>2, <3>3, <4>1, <4>2, ComputeFrames
    <3>4. CASE ~ (tracing = "on" /\ ~aborted)
      BY <3>1, <3>2, <3>4, FramesUnread DEF WhenTracing
    <3>5. QED
      BY <3>3, <3>4
  <2>5. CASE TraceBranch
    <3>1. PICK i \in Inst : Branch(Code[i].bb) /\ WhenTracing(ParseCurrent(NoValue, NoAccess))
      BY <2>5 DEF TraceBranch, Reads
    <3>2. UNCHANGED tracing
      BY <3>1 DEF Branch
    <3>3. QED
      BY <3>1, <3>2, FramesUnread, BranchFrames DEF WhenTracing
  <2>6. CASE TraceCall
    <3>1. Call /\ WhenTracing(ParseCurrent(NoValue, NoAccess))
      BY <2>6 DEF TraceCall, Reads
    <3>2. UNCHANGED tracing
      BY <3>1 DEF Call
    <3>3. QED
      BY <3>1, <3>2, FramesUnread, CallFrames DEF WhenTracing
  <2>7. CASE TraceReturn
    <3>1. Return /\ WhenTracing(ParseCurrent(NoValue, NoAccess))
      BY <2>7 DEF TraceReturn, Reads
    <3>2. UNCHANGED tracing
      BY <3>1 DEF Return
    <3>3. QED
      BY <3>1, <3>2, FramesUnread, ReturnFrames DEF WhenTracing
  <2>8. CASE TraceEnter
    BY <2>8, EnterFrames
  <2>9. CASE Untraced
    <3>1. UNCHANGED graph
      BY <2>9 DEF Untraced
    <3>2. CASE \E f \in External : Enter(f)
      BY <3>1, <3>2, EnterExternalFrames
    <3>3. CASE ReturnExternal
      BY <3>1, <3>3, ReturnExternalFrames
    <3>4. CASE \E k \in 1 .. MaxDepth : Throw(k)
      BY <3>1, <3>4, ThrowFrames
    <3>5. CASE StartTrace
      BY <3>1, <3>5, StartFrames
    <3>6. CASE StopTrace
      BY <3>1, <3>6 DEF StopTrace, FramesInv, graph
    <3>7. QED
      BY <2>9, <3>2, <3>3, <3>4, <3>5, <3>6 DEF Untraced
  <2>10. QED
    BY <2>0, <2>1, <2>2, <2>3, <2>4, <2>5, <2>6, <2>7, <2>8, <2>9 DEF LoadOneDynamicInst
<1>4. QED
  BY <1>1, <1>2, <1>3 DEF Next

LEMMA FramesInitOK == Init => FramesInv
<1> SUFFICES ASSUME Init PROVE FramesInv
  OBVIOUS
<1>1. frames = <<>> /\ tracing = "before"
  BY DEF Init, GraphInit, ProgramInit
<1>2. QED
  BY <1>1, EmptySeq DEF FramesInv

-----------------------------------------------------------------------------
(* Dependences on control *)

Controls(t) == {k \in DOMAIN t : Code[t[k].inst].op \in {"br", "ret", "call"}}
LastOf(S) == IF S = {} THEN {} ELSE {CHOOSE k \in S : \A j \in S : j <= k}

LEMMA LastControlIs == LastControl = LastOf(Controls(seen))
  BY DEF LastControl, Controls, LastOf

(* While the trace is read, PrevControlInstId is its last control transfer.*)
ControlInv ==
  /\ prevControlInstId \in 0 .. currentId
  /\ ~aborted => LastOf(Controls(seen)) = {prevControlInstId} \ {InvalidId}

(* Instruction e follows the others of s as the one with number m.          *)
ControlAdded(t, s, e, m) ==
  LastOf(Controls(t)) =
    IF Code[e.inst].op \in {"br", "ret", "call"} THEN {m} ELSE LastOf(Controls(s))

LEMMA ControlGrows ==
  ASSUME NEW s, IsSeq(s), NEW n \in Nat, n = Len(s), NEW m \in Nat, m = n + 1,
         NEW e, NEW t, t = Append(s, e)
  PROVE  ControlAdded(t, s, e, m)
<1>1. /\ DOMAIN t = 1 .. n + 1 /\ DOMAIN s = 1 .. n /\ t[n + 1] = e
      /\ \A k \in 1 .. n : t[k] = s[k]
  BY AppendFields, SeqFields
<1>2. m \in Nat /\ m = n + 1
  OBVIOUS
<1>3. \A k : k \in 1 .. m <=> (k \in 1 .. n \/ k = m)
  BY <1>2
<1>4. CASE Code[e.inst].op \in {"br", "ret", "call"}
  <2>1. Controls(t) = Controls(s) \cup {m} /\ Controls(s) \subseteq 1 .. n
    BY <1>1, <1>2, <1>3, <1>4 DEF Controls
  <2>2. PICK S : S = Controls(t)
    OBVIOUS
  <2>3. m \in S /\ S \subseteq Int /\ \A j \in S : j <= m
    BY <1>2, <2>1, <2>2
  <2>4. PICK x : x = CHOOSE k \in S : \A j \in S : j <= k
    OBVIOUS
  <2>5. x \in S /\ \A j \in S : j <= x
    BY <2>3, <2>4
  <2>6. x = m
    BY <1>2, <2>3, <2>5
  <2>7. LastOf(S) = {m}
    BY <2>3, <2>4, <2>6 DEF LastOf
  <2>8. QED
    BY <1>4, <2>2, <2>7 DEF ControlAdded
<1>5. CASE Code[e.inst].op \notin {"br", "ret", "call"}
  <2>1. Controls(t) = Controls(s)
    BY <1>1, <1>2, <1>3, <1>5 DEF Controls
  <2>2. QED
    BY <1>5, <2>1 DEF ControlAdded
<1>6. QED
  BY <1>4, <1>5

(* What a step that reads nothing leaves as it was.                         *)
LEMMA NothingRead ==
  ASSUME Skip \/ Serialize
  PROVE  /\ UNCHANGED <<currentId, prevControlInstId>>
         /\ ~aborted' => ~aborted /\ UNCHANGED seen
<1>1. CASE Skip
  BY <1>1 DEF Skip
<1>2. CASE Serialize
  BY <1>2 DEF Serialize, CommitOneDynamicInst, program
<1>3. QED
  BY <1>1, <1>2

LEMMA ControlKept ==
  ASSUME ProgramInv, TraceInv, ControlInv, [Next]_vars PROVE ControlInv'
<1>1. CASE \E access \in Accesses \cup {NoAccess} : ReadOne(access)
  <2>1. PICK access \in Accesses \cup {NoAccess} : ReadOne(access)
    BY <1>1
  <2>2. PICK n, s, e, t : n = currentId /\ s = seen /\ e = Truth(access) /\ t = Append(s, e)
    OBVIOUS
  <2>3. /\ n \in Nat /\ Len(s) = n /\ ~aborted /\ seen' = t /\ e.inst = Current
    BY <2>1, <2>2, ReadFields DEF Truth
  <2>4. IsSeq(s)
    BY <2>2 DEF ProgramInv
  <2>5. PICK d : EntryOf(d, access) /\ currentId' = n + 1
    BY <2>1, <2>2, TraceGrows
  <2>6. prevControlInstId' =
          IF Code[e.inst].op \in {"br", "ret", "call"} THEN n + 1 ELSE prevControlInstId
    BY <2>2, <2>3, <2>5 DEF EntryOf
  <2>7. PICK m \in Nat : m = n + 1 /\ m # 0
    BY <2>3
  <2>8. ControlAdded(t, s, e, m)
    <3>1. n \in Nat /\ IsSeq(s) /\ n = Len(s) /\ t = Append(s, e) /\ m = n + 1 /\ m \in Nat
      BY <2>2, <2>3, <2>4, <2>7
    <3>2. QED
      BY ONLY <3>1, ControlGrows
  <2>9. CASE Code[e.inst].op \in {"br", "ret", "call"}
    <3>1. m = n + 1 /\ m # 0 /\ m \in Nat
      BY <2>7
    <3>2. LastOf(Controls(t)) = {m}
      BY <2>8, <2>9 DEF ControlAdded
    <3>3. {m} \ {InvalidId} = {m} /\ m \in 0 .. m
      BY <3>1 DEF InvalidId
    <3>4. QED
      BY <2>3, <2>5, <2>6, <2>9, <3>1, <3>2, <3>3 DEF ControlInv
  <2>10. CASE Code[e.inst].op \notin {"br", "ret", "call"}
    <3>1. LastOf(Controls(t)) = LastOf(Controls(s))
      BY <2>8, <2>10 DEF ControlAdded
    <3>2. prevControlInstId \in 0 .. n
      BY <2>2 DEF ControlInv
    <3>3. prevControlInstId \in 0 .. n + 1
      BY <2>3, <3>2
    <3>4. QED
      BY <2>2, <2>3, <2>5, <2>6, <2>10, <3>1, <3>3 DEF ControlInv
  <2>11. QED
    BY <2>9, <2>10
<1>2. CASE Skip \/ Serialize
  BY <1>2, NothingRead DEF ControlInv
<1>3. QED
  BY <1>1, <1>2, ReaderSteps

LEMMA ControlInitOK == Init => ControlInv
<1> SUFFICES ASSUME Init PROVE ControlInv
  OBVIOUS
<1>1. prevControlInstId = InvalidId /\ currentId = 0 /\ seen = <<>>
  BY DEF Init, GraphInit, ProgramInit
<1>2. Controls(<<>>) = {}
  BY DEF Controls
<1>3. QED
  BY <1>1, <1>2 DEF ControlInv, LastOf, InvalidId

(* The terminator of a block is no phi.                                     *)
LEMMA TerminatorFields ==
  ASSUME NEW b \in Block
  PROVE  Terminator(b) \in Inst /\ Code[Terminator(b)].op # "phi"
<1>1. PICK i : i = Terminator(b)
  OBVIOUS
<1>2. i \in Inst /\ Code[i].bb = b /\ \A j \in Inst : Code[j].bb = b => j <= i
  BY <1>1, TerminatorIs
<1>3. ASSUME Code[i].op = "phi" PROVE FALSE
  <2>1. i + 1 \in Inst /\ Code[i + 1].bb = b
    BY <1>2, <1>3, CodeAssumption
  <2>2. i + 1 <= i /\ i \in Nat
    BY <1>2, <2>1, InstRange
  <2>3. QED
    BY <2>2
<1>4. QED
  BY <1>1, <1>2, <1>3

NewestOf(S) == {k \in S : \A j \in S : j <= k}

LEMMA PostDominance ==
  ASSUME NEW fr, NEW a, KnowsDeps(fr, a), NEW i \in Inst
  PROVE  HandlePostDominance(fr, i) =
           NewestOf({a.by[Terminator(b)] : b \in Frontier[Code[i].bb]} \ {0})
<1>1. PICK F : F = Frontier[Code[i].bb] /\ F \subseteq Block
  <2>1. Code[i].bb \in Block
    BY InstType
  <2>2. QED
    BY <2>1, ValueAssumption
<1>2. \A b \in F : fr.dep[Terminator(b)] = {a.by[Terminator(b)]} \ {0}
  BY <1>1, TerminatorFields DEF KnowsDeps
<1>3. UNION {fr.dep[Terminator(b)] : b \in F} = {a.by[Terminator(b)] : b \in F} \ {0}
  <2>1. ASSUME NEW x
        PROVE  x \in UNION {fr.dep[Terminator(b)] : b \in F}
               <=> x \in {a.by[Terminator(b)] : b \in F} \ {0}
    <3>1. x \in UNION {fr.dep[Terminator(b)] : b \in F} <=> \E b \in F : x \in fr.dep[Terminator(b)]
      OBVIOUS
    <3>2. \A b \in F : x \in fr.dep[Terminator(b)] <=> x = a.by[Terminator(b)] /\ x # 0
      BY <1>2
    <3>3. QED
      BY <3>1, <3>2
  <2>2. QED
    BY <2>1
<1>4. QED
  BY <1>1, <1>3 DEF HandlePostDominance, NewestOf

(* Dependences through registers, whatever the loop makes of them.          *)
RegsOf(a, i) == {<<u, a.by[u]>> : u \in {u \in ToSet(Code[i].uses) \ {0} : a.by[u] # 0}}

LEMMA RegisterDependence ==
  ASSUME NEW fr, NEW a, KnowsDeps(fr, a), NEW i \in Inst, PhisApart,
         NEW deps, deps = HandleRegisterDependence(fr, i)
  PROVE  deps.reg \cup deps.iv \cup deps.rv = RegsOf(a, i)
<1>1. PICK used : used = ToSet(Code[i].uses) \ {0}
  OBVIOUS
<1>2. used \subseteq Inst
  <2>1. Code[i].uses \in Seq({0} \cup Inst)
    BY InstType
  <2>2. ToSet(Code[i].uses) \subseteq {0} \cup Inst
    BY ONLY <2>1, LenProperties, ElementOfSeq DEF ToSet
  <2>3. QED
    BY <1>1, <2>2
<1>3. PICK ivs : ivs = {u \in used : LoopOf[Code[i].bb] # NoLoop /\ IsInductionVariable(LoopOf[Code[i].bb], u)}
  OBVIOUS
<1>4. PICK rvs : rvs = {u \in used \ ivs : LoopOf[Code[i].bb] # NoLoop /\ IsReductionVariable(LoopOf[Code[i].bb], u)}
  OBVIOUS
<1> DEFINE On(S) == UNION {{u} \X fr.dep[u] : u \in S}
<1>5. deps.reg = On(used \ (ivs \cup rvs)) /\ deps.iv = On(ivs) /\ deps.rv = On(rvs)
  BY <1>1, <1>3, <1>4 DEF HandleRegisterDependence
<1>6. ivs \subseteq used /\ rvs \subseteq used
  BY <1>3, <1>4
<1>7. On(used \ (ivs \cup rvs)) \cup On(ivs) \cup On(rvs) = On(used)
  BY ONLY <1>6
<1>8. \A u \in used : fr.dep[u] = {a.by[u]} \ {0}
  BY <1>2 DEF KnowsDeps
<1>9. On(used) = {<<u, a.by[u]>> : u \in {u \in used : a.by[u] # 0}}
  <2>1. ASSUME NEW x
        PROVE  x \in On(used) <=> x \in {<<u, a.by[u]>> : u \in {u \in used : a.by[u] # 0}}
    <3>1. x \in On(used) <=> \E u \in used : x \in {u} \X fr.dep[u]
      OBVIOUS
    <3>2. ASSUME NEW u \in used
          PROVE  x \in {u} \X fr.dep[u] <=> a.by[u] # 0 /\ x = <<u, a.by[u]>>
      BY <1>8
    <3>3. QED
      BY <3>1, <3>2
  <2>2. QED
    BY <2>1
<1>10. QED
  BY ONLY <1>1, <1>5, <1>7, <1>9 DEF RegsOf

(* The entry of what is read, and what it really depends on.                *)
EntryDeps(e, fr, i, c) ==
  /\ e.ctr = {c} \ {InvalidId}
  /\ e.pdf = HandlePostDominance(fr, i)
  /\ \E deps : /\ deps = HandleRegisterDependence(fr, i)
               /\ e.reg = deps.reg /\ e.iv = deps.iv /\ e.rv = deps.rv

LEMMA EntryDepsRead ==
  ASSUME NEW access, ReadOne(access), NEW i, i = Current,
         NEW fr, fr = Last(GetLLVMInstruction(Code[i].fn))
  PROVE  \E e : list' = Append(list, e) /\ EntryDeps(e, fr, i, prevControlInstId)
<1>1. PICK result : ParseCurrent(result, access)
  BY DEF ReadOne
<1>2. PICK bytes : bytes = [a \in Bytes(access) |-> memory[a]]
  OBVIOUS
<1>3. ParseInst(i, Operands, result, access, bytes)
  BY <1>1, <1>2 DEF ParseCurrent
<1>4. PICK deps, pdf : deps = HandleRegisterDependence(fr, i) /\ pdf = HandlePostDominance(fr, i)
  OBVIOUS
<1>5. PICK id, pos, mem :
        list' = Append(list,
          [id |-> id, pos |-> pos, inst |-> i, access |-> access,
           bytes |-> bytes, reg |-> deps.reg, iv |-> deps.iv, rv |-> deps.rv,
           ctr |-> {prevControlInstId} \ {InvalidId}, pdf |-> pdf, mem |-> mem])
  BY <1>3, <1>4 DEF ParseInst
<1>6. PICK e : e =
          [id |-> id, pos |-> pos, inst |-> i, access |-> access,
           bytes |-> bytes, reg |-> deps.reg, iv |-> deps.iv, rv |-> deps.rv,
           ctr |-> {prevControlInstId} \ {InvalidId}, pdf |-> pdf, mem |-> mem]
  OBVIOUS
<1>7. /\ e.ctr = {prevControlInstId} \ {InvalidId} /\ e.pdf = pdf
      /\ e.reg = deps.reg /\ e.iv = deps.iv /\ e.rv = deps.rv
  BY <1>6
<1>8. EntryDeps(e, fr, i, prevControlInstId)
  BY <1>4, <1>7 DEF EntryDeps
<1>9. QED
  BY <1>5, <1>6, <1>8

DepsAgree(e, t) ==
  /\ PhisApart => e.reg \cup e.iv \cup e.rv = t.reg
  /\ e.ctr = t.ctr /\ e.pdf = t.pdf

EntriesInv == \A k \in 1 .. currentId : DepsAgree(All[k], seen[k])

LEMMA EntryAgrees ==
  ASSUME ProgramInv, TraceInv, FramesInv, ControlInv,
         NEW access \in Accesses \cup {NoAccess}, ReadOne(access)
  PROVE  \E e : list' = Append(list, e) /\ DepsAgree(e, Truth(access))
<1>1. /\ tracing = "on" /\ ~aborted /\ Current \in Inst
  BY ReadFields
<1>2. InCode({"op", "landingpad", "load", "store", "br", "call", "invoke", "ret"})
  BY DEF ReadOne
<1>3. PICK n, r, a, i, s, fr, ops : ExecutingNow(n, r, a, i, s, fr, ops)
  BY <1>1, <1>2, NowExecuting
<1>4. /\ a = Running /\ i = Current /\ s = GetLLVMInstruction(Code[i].fn)
      /\ fr = Last(s) /\ Follows(fr, a) /\ i \in Inst
  BY <1>3 DEF ExecutingNow, Executing
<1>5. PICK e : list' = Append(list, e) /\ EntryDeps(e, fr, i, prevControlInstId)
  BY <1>4, EntryDepsRead
<1>6. PICK t : t = Truth(access)
  OBVIOUS
<1>7. KnowsDeps(fr, a)
  BY <1>4 DEF Follows
<1>8. t.ctr = LastControl /\ t.reg = RegsOf(a, i)
      /\ t.pdf = NewestOf({a.by[Terminator(b)] : b \in Frontier[Code[i].bb]} \ {0})
  BY <1>4, <1>6 DEF Truth, RegsOf, NewestOf
<1>9. e.ctr = t.ctr
  BY <1>1, <1>5, <1>8, LastControlIs DEF ControlInv, EntryDeps
<1>10. e.pdf = t.pdf
  BY <1>4, <1>5, <1>7, <1>8, PostDominance DEF EntryDeps
<1>11. PhisApart => e.reg \cup e.iv \cup e.rv = t.reg
  <2>1. PICK deps : deps = HandleRegisterDependence(fr, i)
                    /\ e.reg = deps.reg /\ e.iv = deps.iv /\ e.rv = deps.rv
    BY <1>5 DEF EntryDeps
  <2>2. PhisApart => deps.reg \cup deps.iv \cup deps.rv = RegsOf(a, i)
    BY <1>4, <1>7, <2>1, RegisterDependence
  <2>3. QED
    BY <1>8, <2>1, <2>2
<1>12. QED
  BY <1>5, <1>6, <1>9, <1>10, <1>11 DEF DepsAgree

LEMMA EntriesKept ==
  ASSUME ProgramInv, TraceInv, FramesInv, ControlInv, EntriesInv, [Next]_vars
  PROVE  EntriesInv'
<1>1. CASE \E access \in Accesses \cup {NoAccess} : ReadOne(access)
  <2>1. PICK access \in Accesses \cup {NoAccess} : ReadOne(access)
    BY <1>1
  <2>2. PICK n, t : n = currentId /\ t = Truth(access)
    OBVIOUS
  <2>3. /\ n \in Nat /\ seen'[n + 1] = t /\ \A k \in 1 .. n : seen'[k] = seen[k]
    BY <2>1, <2>2, ReadFields
  <2>4. PICK e : list' = Append(list, e) /\ DepsAgree(e, t)
    BY <2>1, <2>2, EntryAgrees
  <2>5. currentId' = n + 1 /\ UNCHANGED out
    BY <2>1, <2>2, EntryRead DEF ReadOne
  <2>6. All'[n + 1] = e /\ \A k \in 1 .. n : All'[k] = All[k]
    BY <2>2, <2>4, <2>5, TraceAppends
  <2>7. ASSUME NEW k \in 1 .. currentId' PROVE DepsAgree(All'[k], seen'[k])
    <3>1. CASE k = n + 1
      BY <2>3, <2>4, <2>6, <3>1
    <3>2. CASE k \in 1 .. n
      BY <2>2, <2>3, <2>6, <3>2 DEF EntriesInv
    <3>3. QED
      BY <2>3, <2>5, <3>1, <3>2
  <2>8. QED
    BY <2>7 DEF EntriesInv, DepsAgree
<1>2. CASE Skip \/ Serialize
  <2>1. UNCHANGED <<All, currentId>>
    BY <1>2, TraceStays
  <2>2. ASSUME NEW k \in 1 .. currentId PROVE seen'[k] = seen[k]
    <3>1. IsSeq(seen) /\ k \in 1 .. Len(seen)
      BY TraceFields, SeqFields DEF TraceInv, ProgramInv
    <3>2. CASE UNCHANGED seen
      BY <3>2
    <3>3. CASE \E e : seen' = Append(seen, e)
      <4>1. PICK e : seen' = Append(seen, e)
        BY <3>3
      <4>2. QED
        BY <3>1, <4>1, AppendFields
    <3>4. QED
      BY <1>2, <3>2, <3>3 DEF Skip, Serialize, program
  <2>3. QED
    BY <2>1, <2>2 DEF EntriesInv, DepsAgree
<1>3. QED
  BY <1>1, <1>2, ReaderSteps

LEMMA EntriesInitOK == Init => EntriesInv
  BY DEF Init, GraphInit, EntriesInv

(* What the dependences rest on.                                            *)
GraphInv == ProgramInv /\ TraceInv /\ FramesInv /\ ControlInv /\ EntriesInv

LEMMA GraphAlways == Spec => []GraphInv
<1>1. Init => GraphInv
  BY ProgramInitOK, TraceInitOK, FramesInitOK, ControlInitOK, EntriesInitOK DEF Init, GraphInv
<1>2. GraphInv /\ [Next]_vars => GraphInv'
  BY ProgramKept, TraceKept, FramesKept, ControlKept, EntriesKept DEF GraphInv
<1>3. QED
  BY <1>1, <1>2, PTL DEF Spec

LEMMA ControlTells == GraphInv => ControlDepsExact
  BY TraceFields DEF GraphInv, EntriesInv, DepsAgree, ControlDepsExact

LEMMA RegistersTell == GraphInv /\ PhisApart => RegDepsExact
  BY TraceFields DEF GraphInv, EntriesInv, DepsAgree, RegDepsExact

(* For every program, wherever the trace begins and ends and whatever       *)
(* uninstrumented code does (Throw passes no second activation of the       *)
(* function that catches): each instruction depends on the last branch,     *)
(* return or call before it and on the newest branch of its activation that *)
(* decided about its block (DataGraph.cpp:811-823, 1039-1069).              *)
THEOREM ControlDepsAlwaysExact == Spec => []ControlDepsExact
  BY GraphAlways, ControlTells, PTL

(* For every program whose phis take no earlier phi of their block, its     *)
(* register dependences are the real ones as well (DataGraph.cpp:486-637).  *)
THEOREM DepsAlwaysExact ==
  ASSUME PhisApart
  PROVE  Spec => []DepsExact
<1>1. GraphInv => DepsExact
  BY ControlTells, RegistersTell DEF DepsExact
<1>2. QED
  BY <1>1, GraphAlways, PTL

-----------------------------------------------------------------------------
(* Frames are the innermost activations *)

Above(r, k) == {j \in k .. Len(r) : r[j].fn \in Instrumented}

LEMMA AboveFinite ==
  ASSUME NEW r, Len(r) \in Nat, NEW k \in Nat
  PROVE  IsFiniteSet(Above(r, k)) /\ Cardinality(Above(r, k)) \in Nat
<1>1. PICK l \in Int, i \in Int : l = Len(r) /\ i = k
  OBVIOUS
<1>2. IsFiniteSet(i .. l)
  BY ONLY l \in Int, i \in Int, FS_Interval
<1>3. PICK T : T = Above(r, k)
  OBVIOUS
<1>4. T \in SUBSET (i .. l)
  BY <1>1, <1>3 DEF Above
<1>5. IsFiniteSet(T)
  BY ONLY <1>2, <1>4, FS_Subset
<1>6. QED
  BY ONLY <1>3, <1>5, FS_CardinalityType

(* When nothing is left behind, there are as many frames from a frame on as *)
(* activations of instrumented functions from its own on.                   *)
LEMMA FramesAbove ==
  ASSUME NEW p, NEW fs, Len(fs) \in Nat, NEW r, Len(r) \in Nat, NEW c, Tracks(p, fs, r, c),
         \A f \in 1 .. Len(fs) : p[f] <= Len(r), NEW f \in 1 .. Len(fs)
  PROVE  Cardinality(Above(r, p[f])) = Len(fs) + 1 - f
<1>1. PICK l \in Nat, F \in Int : l = Len(fs) /\ F = f /\ F <= l /\ F \in 1 .. l
  OBVIOUS
<1>2. PICK T : T = Above(r, p[f])
  OBVIOUS
<1>3. /\ \A g \in 1 .. l : p[g] \in Nat \ {0} /\ p[g] <= Len(r) /\ r[p[g]].fn \in Instrumented
      /\ \A g \in 1 .. l : \A h \in 1 .. l : g < h => p[g] < p[h]
  BY <1>1 DEF Tracks, Places, Follows
<1>4. PICK H : H = [g \in F .. l |-> p[g]]
  OBVIOUS
<1>5. \A g \in F .. l : g \in 1 .. l /\ g \in Int /\ F <= g
  BY <1>1
<1>6. H \in [F .. l -> T]
  <2>1. ASSUME NEW g \in F .. l PROVE p[g] \in T
    <3>1. p[F] <= p[g]
      <4>1. CASE g = F
        BY <1>1, <1>3, <4>1
      <4>2. CASE g # F
        <5>1. F < g
          BY <1>5, <4>2
        <5>2. p[F] < p[g] /\ p[F] \in Nat /\ p[g] \in Nat
          BY <1>1, <1>3, <1>5, <5>1
        <5>3. QED
          BY <5>2
      <4>3. QED
        BY <4>1, <4>2
    <3>2. p[g] \in p[f] .. Len(r)
      BY <1>1, <1>3, <1>5, <3>1
    <3>3. QED
      BY <1>2, <1>3, <1>5, <3>2 DEF Above
  <2>2. QED
    BY <1>4, <2>1
<1>7. \A g \in F .. l : \A h \in F .. l : H[g] = H[h] => g = h
  <2>1. ASSUME NEW g \in F .. l, NEW h \in F .. l, g # h PROVE H[g] # H[h]
    <3>1. g < h \/ h < g
      BY <1>5, <2>1
    <3>2. p[g] < p[h] \/ p[h] < p[g]
      BY <1>3, <1>5, <3>1
    <3>3. p[g] \in Nat /\ p[h] \in Nat
      BY <1>3, <1>5
    <3>4. p[g] # p[h]
      BY <3>2, <3>3
    <3>5. QED
      BY <1>4, <3>4
  <2>2. QED
    BY <2>1
<1>8. \A j \in T : \E g \in F .. l : H[g] = j
  <2>1. ASSUME NEW j \in T PROVE \E g \in F .. l : H[g] = j
    <3>1. j \in p[F] .. Len(r) /\ r[j].fn \in Instrumented /\ p[F] \in Nat \ {0}
      BY <1>1, <1>2, <1>3, <2>1 DEF Above
    <3>2. j \in 1 .. Len(r) /\ j \in Nat
      BY <3>1
    <3>3. Located(p, l, r, j)
      BY <1>1, <3>2 DEF Tracks
    <3>4. ~ (j < p[F])
      BY <3>1
    <3>5. PICK g \in 1 .. l : p[g] = j
      BY <1>1, <3>1, <3>3, <3>4 DEF Located
    <3>6. ~ (g < F)
      <4>1. ASSUME g < F PROVE FALSE
        <5>1. p[g] < p[F]
          BY <1>1, <1>3, <4>1
        <5>2. QED
          BY <3>4, <3>5, <5>1
      <4>2. QED
        BY <4>1
    <3>7. g \in F .. l
      BY <1>1, <3>6
    <3>8. QED
      BY <1>4, <3>5, <3>7
  <2>2. QED
    BY <2>1
<1>9. ExistsBijection(F .. l, T)
  <2>1. H \in Bijection(F .. l, T)
    BY <1>6, <1>7, <1>8 DEF Bijection, Injection, Surjection, IsInjective
  <2>2. QED
    BY <2>1 DEF ExistsBijection
<1>10. IsFiniteSet(F .. l) /\ Cardinality(F .. l) = l - F + 1
  <2>1. l \in Int /\ ~ (F > l)
    BY <1>1
  <2>2. IsFiniteSet(F .. l) /\ Cardinality(F .. l) = IF F > l THEN 0 ELSE l - F + 1
    BY ONLY <2>1, F \in Int, FS_Interval
  <2>3. QED
    BY <2>1, <2>2
<1>11. Cardinality(T) = l - F + 1
  BY ONLY <1>9, <1>10, FS_Bijection
<1>12. QED
  BY <1>1, <1>2, <1>11

(* Further out there are more of them than frames.                          *)
LEMMA FramesBelow ==
  ASSUME NEW p, NEW fs, Len(fs) \in Nat, NEW r, Len(r) \in Nat, NEW c, Tracks(p, fs, r, c),
         \A f \in 1 .. Len(fs) : p[f] <= Len(r),
         NEW k \in 1 .. Len(r), r[k].fn \in Instrumented, \A f \in 1 .. Len(fs) : p[f] # k
  PROVE  Cardinality(Above(r, k)) > Len(fs)
<1>1. PICK l \in Nat, n \in Nat : l = Len(fs) /\ n = Len(r) /\ k \in Nat
  OBVIOUS
<1>2. \A f \in 1 .. l : k < p[f]
  BY <1>1 DEF Tracks, Located
<1>3. PICK A : A = IF l = 0 THEN {} ELSE Above(r, p[1])
  OBVIOUS
<1>4. IsFiniteSet(A) /\ Cardinality(A) = l /\ k \notin A /\ A \subseteq Above(r, k)
  <2>1. CASE l = 0
    BY <1>3, <2>1, FS_EmptySet
  <2>2. CASE l # 0
    <3>1. 1 \in 1 .. l /\ k < p[1] /\ p[1] \in Nat
      BY <1>1, <1>2, <2>2 DEF Tracks, Places
    <3>2. PICK b \in Nat : b = p[1]
      BY <3>1
    <3>3. A = Above(r, b) /\ k < b
      BY <1>3, <2>2, <3>1, <3>2
    <3>4. Cardinality(A) = l
      <4>1. Cardinality(Above(r, p[1])) = Len(fs) + 1 - 1
        BY <1>1, <3>1, FramesAbove
      <4>2. QED
        BY <1>1, <3>2, <3>3, <4>1
    <3>5. IsFiniteSet(A)
      BY <3>3, AboveFinite
    <3>6. k \notin A /\ A \subseteq Above(r, k)
      <4>1. \A j \in b .. n : j \in k .. n /\ j # k
        BY <1>1, <3>3
      <4>2. QED
        BY <1>1, <3>3, <4>1 DEF Above
    <3>7. QED
      BY <3>4, <3>5, <3>6
  <2>3. QED
    BY <2>1, <2>2
<1>5. PICK B : B = A \cup {k}
  OBVIOUS
<1>6. IsFiniteSet(B) /\ Cardinality(B) = l + 1
  BY ONLY <1>4, <1>5, FS_AddElement
<1>7. k \in Above(r, k)
  BY <1>1 DEF Above
<1>8. PICK T : T = Above(r, k)
  OBVIOUS
<1>9. B \in SUBSET T /\ IsFiniteSet(T) /\ Cardinality(T) \in Nat
  BY <1>1, <1>4, <1>5, <1>7, <1>8, AboveFinite
<1>10. Cardinality(B) <= Cardinality(T)
  BY ONLY <1>9, FS_Subset
<1>11. QED
  BY <1>1, <1>6, <1>8, <1>9, <1>10

(* FrameOf finds the frame of an activation, if it has one.                 *)
LEMMA FramesPlaced ==
  ASSUME NEW p, NEW fs, Len(fs) \in Nat, NEW r, Len(r) \in Nat, NEW c, Tracks(p, fs, r, c),
         \A f \in 1 .. Len(fs) : p[f] <= Len(r), NEW k \in 1 .. Len(r),
         r[k].fn \in Instrumented, NEW g, g = Len(fs) + 1 - Cardinality(Above(r, k))
  PROVE  /\ g \in Int
         /\ g > 0 => g \in 1 .. Len(fs) /\ p[g] = k
         /\ \A f \in 1 .. Len(fs) : p[f] = k => f = g
<1>1. PICK l \in Nat, a \in Nat : l = Len(fs) /\ a = Cardinality(Above(r, k))
  <2>1. k \in Nat
    OBVIOUS
  <2>2. QED
    BY <2>1, AboveFinite
<1>2. g \in Int /\ g = l + 1 - a
  BY <1>1
<1>3. \A f \in 1 .. l : p[f] = k => f = g
  <2>1. ASSUME NEW f \in 1 .. l, p[f] = k PROVE f = g
    <3>1. Cardinality(Above(r, p[f])) = Len(fs) + 1 - f
      BY <1>1, FramesAbove
    <3>2. a = l + 1 - f /\ f \in Int
      BY <1>1, <2>1, <3>1
    <3>3. QED
      BY <1>2, <3>2
  <2>2. QED
    BY <2>1
<1>4. g > 0 => g \in 1 .. l /\ p[g] = k
  <2>1. CASE \E f \in 1 .. l : p[f] = k
    BY <1>3, <2>1
  <2>2. CASE \A f \in 1 .. l : p[f] # k
    <3>1. a > l
      BY <1>1, <2>2, FramesBelow
    <3>2. ~ (g > 0)
      BY <1>2, <3>1
    <3>3. QED
      BY <3>2
  <2>3. QED
    BY <2>1, <2>2
<1>5. QED
  BY <1>1, <1>2, <1>3, <1>4

(* What CallsFollowed says once the reader has seen the last event.         *)
FramesMatch ==
  /\ {FrameOf(k) : k \in Framed} = DOMAIN frames
  /\ \A k \in Framed : Follows(frames[FrameOf(k)], real[k])

LEMMA FramesTell ==
  ASSUME GraphInv, ~aborted, UpToDate
  PROVE  FramesMatch
<1>1. PICK n, r, fs, c : n = currentId /\ n = Len(seen) /\ r = real /\ fs = frames /\ c = pc
  BY DEF GraphInv, TraceInv
<1>2. /\ n \in Nat /\ StackOK(r, n) /\ fs \in Seq(Frames(n)) /\ Tracked(fs, r, c)
      /\ Len(fs) \in Nat /\ Len(r) \in Nat /\ r # <<>> /\ DOMAIN fs = 1 .. Len(fs)
      /\ DOMAIN r = 1 .. Len(r) /\ Len(r) > 0
  <2>1. tracing = "on" /\ real # <<>>
    BY DEF UpToDate
  <2>2. n \in Nat /\ StackOK(r, n) /\ fs \in Seq(Frames(n)) /\ Tracked(fs, r, c) /\ r # <<>>
    BY <1>1, <2>1, TraceFields DEF GraphInv, ProgramInv, TraceInv, FramesInv
  <2>3. Len(fs) \in Nat /\ DOMAIN fs = 1 .. Len(fs)
    BY <2>2, LenProperties
  <2>4. QED
    BY <2>2, <2>3, StackFields
<1>3. PICK p : Tracks(p, fs, r, c)
  BY <1>2 DEF Tracked
<1>4. ASSUME NEW f \in 1 .. Len(fs)
      PROVE  p[f] \in 1 .. Len(r) /\ p[f] <= Len(r) /\ Follows(fs[f], r[p[f]])
  <2>1. ~ LeftBehind(fs[f], r, c)
    <3>1. r[Len(r)].fn \in Instrumented => ~ Landing(r[Len(r)].at)
      BY <1>1, <1>2, StackFields DEF UpToDate, Running, Current
    <3>2. QED
      BY <3>1 DEF LeftBehind
  <2>2. p[f] \in Nat \ {0}
    BY <1>3 DEF Tracks, Places
  <2>3. ~ (p[f] > Len(r))
    BY <1>3, <2>1 DEF Tracks
  <2>4. p[f] \in 1 .. Len(r) /\ p[f] <= Len(r)
    BY <1>2, <2>2, <2>3
  <2>5. QED
    BY <1>3, <2>4 DEF Tracks
<1>5. \A f \in 1 .. Len(fs) : p[f] <= Len(r)
  BY <1>4
<1>6. ASSUME NEW k \in DOMAIN real, real[k].fn \in Instrumented
      PROVE  /\ FrameOf(k) > 0 => FrameOf(k) \in 1 .. Len(fs) /\ p[FrameOf(k)] = k
             /\ \A f \in 1 .. Len(fs) : p[f] = k => f = FrameOf(k)
  <2>1. PICK g : g = Len(fs) + 1 - Cardinality(Above(r, k))
    OBVIOUS
  <2>2. FrameOf(k) = g
    BY <1>1, <2>1 DEF FrameOf, Above
  <2>3. k \in 1 .. Len(r) /\ r[k].fn \in Instrumented
    BY <1>1, <1>2, <1>6
  <2>4. /\ g > 0 => g \in 1 .. Len(fs) /\ p[g] = k
        /\ \A f \in 1 .. Len(fs) : p[f] = k => f = g
    BY <1>2, <1>3, <1>5, <2>1, <2>3, FramesPlaced
  <2>5. QED
    BY <2>2, <2>4
<1>7. \A k \in Framed : FrameOf(k) \in 1 .. Len(fs) /\ p[FrameOf(k)] = k
  BY <1>6 DEF Framed
<1>8. \A f \in 1 .. Len(fs) : \E k \in Framed : FrameOf(k) = f
  <2>1. ASSUME NEW f \in 1 .. Len(fs) PROVE \E k \in Framed : FrameOf(k) = f
    <3>1. PICK k : k = p[f]
      OBVIOUS
    <3>2. k \in DOMAIN real /\ real[k].fn \in Instrumented
      BY <1>1, <1>2, <1>4, <3>1 DEF Follows
    <3>3. f = FrameOf(k)
      BY <1>6, <3>1, <3>2
    <3>4. k \in Framed
      BY <3>2, <3>3 DEF Framed
    <3>5. QED
      BY <3>3, <3>4
  <2>2. QED
    BY <2>1
<1>9. {FrameOf(k) : k \in Framed} = DOMAIN frames
  BY <1>1, <1>2, <1>7, <1>8
<1>10. \A k \in Framed : Follows(frames[FrameOf(k)], real[k])
  BY <1>1, <1>4, <1>7
<1>11. QED
  BY <1>9, <1>10 DEF FramesMatch

(* The arguments of a function are found, from the program's calls and, if  *)
(* its callbacks fit, from uninstrumented code's.                           *)
LEMMA ArgumentsFound ==
  ASSUME CallbacksFit, NEW n \in Nat, NEW r, StackOK(r, n), r # <<>>,
         NEW fs \in Seq(Frames(n)), Len(fs) \in Nat \ {0}, NEW c, Tracked(fs, r, c), NEW f \in Instrumented,
         \/ /\ c = "call" /\ Last(r).fn \in Instrumented /\ f \in Code[Last(r).at].callees
         \/ c # "call" /\ Last(r).fn \in External
  PROVE  Last(fs).callStack = 0 \/ NumParams[f] <= Last(fs).callStack
<1>1. PICK p : Tracks(p, fs, r, c)
  BY DEF Tracked
<1>2. PICK l \in Nat \ {0}, k \in Nat \ {0} : l = Len(fs) /\ k = Len(r) /\ Last(r) = r[k]
  BY StackFields
<1>3. l \in 1 .. l /\ k \in 1 .. k /\ Last(fs) = fs[l]
  BY <1>2 DEF Last
<1>4. CASE c = "call"
  <2>1. r[k].fn \in Instrumented /\ f \in Code[r[k].at].callees
    BY <1>2, <1>4
  <2>2. p[l] \in Nat \ {0} /\ ~ (p[l] > k)
    <3>1. ~ LeftBehind(fs[l], r, c)
      BY <1>4 DEF LeftBehind
    <3>2. QED
      BY <1>1, <1>2, <1>3, <3>1 DEF Tracks, Places
  <2>3. Located(p, l, r, k)
    BY <1>1, <1>2, <1>3 DEF Tracks
  <2>4. PICK g \in 1 .. l : p[g] = k
    <3>1. ~ (k < p[l])
      BY <2>2
    <3>2. QED
      BY <1>3, <2>1, <2>3, <3>1 DEF Located
  <2>5. g = l
    <3>1. ASSUME g # l PROVE FALSE
      <4>1. g < l
        BY <1>2, <3>1
      <4>2. p[g] < p[l]
        BY <1>1, <1>2, <1>3, <4>1 DEF Tracks, Places
      <4>3. QED
        BY <2>2, <2>4, <4>2
    <3>2. QED
      BY <3>1
  <2>6. InCall(p[l], r, c)
    BY <1>2, <1>4, <2>4, <2>5 DEF InCall
  <2>7. Pending(fs[l], r[k])
    BY <1>1, <1>2, <1>3, <2>4, <2>5, <2>6 DEF Tracks, AtCall
  <2>8. r[k].at \in Inst
    BY <1>2, <1>3, <2>1, StackFields DEF StandsAt
  <2>9. NumParams[f] <= Len(Code[r[k].at].uses)
    BY <2>1, <2>8, ParamsAssumption
  <2>10. QED
    BY <1>3, <2>7, <2>9 DEF Pending
<1>5. CASE c # "call" /\ r[k].fn \in External
  <2>1. /\ p[l] \in Nat /\ p[l] < k /\ p[l] > 0
        /\ Follows(fs[l], r[p[l]]) /\ AtCall(fs[l], r, p[l])
    BY <1>1, <1>2, <1>3, <1>5, AboveFallen
  <2>2. PICK m \in Nat \ {0}, m1 \in Nat : m = p[l] /\ m1 = m + 1
    BY <2>1
  <2>3. m \in 1 .. Len(r) /\ m < Len(r) /\ m1 \in 1 .. Len(r) /\ m < m1
    BY <1>2, <2>1, <2>2
  <2>4. Pending(fs[l], r[m]) /\ r[m].fn \in Instrumented
    BY <2>1, <2>2 DEF AtCall, Follows
  <2>5. r[m1].fn \notin Instrumented
    <3>1. \A g \in 1 .. Len(fs) : g > l => m1 < p[g]
      BY <1>2
    <3>2. l \in 1 .. Len(fs) /\ p[l] < m1 /\ m1 \in 1 .. Len(r) /\ m1 \in Nat /\ Len(fs) \in Nat
      BY <1>2, <1>3, <2>2, <2>3
    <3>3. QED
      BY ONLY <1>1, <3>1, <3>2, NothingBetween
  <2>6. r[m1].fn \in External /\ r[m1].fn \in Code[r[m].at].callees /\ r[m].at \in Inst
    <3>1. Calls(r[m], r[m1]) /\ StandsAt(r[m]) /\ r[m1] \in Activations(n)
      BY <2>2, <2>3, StackFields DEF StackOK
    <3>2. QED
      BY <2>4, <2>5, <3>1, ActivationFields DEF Calls, StandsAt
  <2>7. Code[r[m].at].uses # <<>> => NumParams[f] <= Len(Code[r[m].at].uses)
    BY <2>6 DEF CallbacksFit
  <2>8. Code[r[m].at].uses = <<>> => Len(Code[r[m].at].uses) = 0
    BY EmptySeq
  <2>9. QED
    BY <1>3, <2>4, <2>7, <2>8 DEF Pending
<1>6. QED
  BY <1>2, <1>4, <1>5

LEMMA NothingAborts ==
  ASSUME CallbacksFit, GraphInv, ~aborted, [Next]_vars
  PROVE  ~aborted'
<1>1. ProgramInv /\ TraceInv /\ FramesInv
  BY DEF GraphInv
<1>2. CASE UNCHANGED vars
  BY <1>2 DEF vars, graph
<1>3. CASE Serialize
  BY <1>3 DEF Serialize, CommitOneDynamicInst
<1>4. CASE LoadOne
  <2>0. LoadOneDynamicInst(Accesses)
    BY <1>4 DEF LoadOne
  <2>1. CASE TracePhi
    BY <2>1 DEF TracePhi, Reads, WhenTracing, ParsePhi, graph
  <2>2. CASE TraceOperation \/ TraceCall \/ TraceReturn
    BY <2>2 DEF TraceOperation, TraceCall, TraceReturn, Reads, WhenTracing, ParseCurrent, ParseInst, graph
  <2>3. CASE TraceLoad(Accesses) \/ TraceStore(Accesses) \/ TraceBranch
    BY <2>3 DEF TraceLoad, TraceStore, TraceBranch, Reads, WhenTracing, ParseCurrent, ParseInst, graph
  <2>4. CASE Untraced
    BY <2>4 DEF Untraced, graph
  <2>5. CASE TraceEnter
    <3>1. PICK f \in Instrumented : Enter(f) /\ WhenTracing(ParseFunctionEnter(f))
      BY <2>5 DEF TraceEnter, Reads
    <3>2. CASE tracing # "on"
      BY <3>1, <3>2 DEF WhenTracing, graph
    <3>3. CASE tracing = "on"
      <4>1. ParseFunctionEnter(f)
        BY <3>1, <3>3 DEF WhenTracing
      <4>2. CASE frames = <<>>
        BY <4>1, <4>2 DEF ParseFunctionEnter
      <4>3. CASE frames # <<>>
        <5>1. PICK n, r, fs, c : n = currentId /\ n = Len(seen) /\ r = real /\ fs = frames /\ c = pc
          BY <1>1 DEF TraceInv
        <5>2. /\ n \in Nat /\ StackOK(r, n) /\ fs \in Seq(Frames(n)) /\ Tracked(fs, r, c)
          BY <1>1, <3>3, <5>1, TraceFields DEF ProgramInv, TraceInv, FramesInv
        <5>3. Len(fs) \in Nat \ {0}
          BY <4>3, <5>1, <5>2, LenProperties, EmptySeq
        <5>4. /\ r # <<>>
              /\ \/ /\ c = "call" /\ Last(r).fn \in Instrumented /\ f \in Code[Last(r).at].callees
                 \/ c # "call" /\ Last(r).fn \in External
          <6>1. \/ pc = "call" /\ f \in Code[Current].callees
                \/ pc = "run" /\ real # <<>> /\ Running.fn \in External
            BY <3>1 DEF Enter
          <6>2. pc = "call" => real # <<>> /\ Running.fn \in Instrumented
            BY <1>1 DEF ProgramInv
          <6>3. QED
            BY <5>1, <6>1, <6>2 DEF Running, Current
        <5>5. Last(fs).callStack = 0 \/ NumParams[f] <= Last(fs).callStack
          BY <5>2, <5>3, <5>4, ArgumentsFound
        <5>6. NumParams[f] \in Nat /\ Last(fs).callStack \in Nat
          <6>1. Last(fs) \in Frames(n)
            BY <5>2, <5>3, ElementOfSeq DEF Last
          <6>2. QED
            BY <6>1, ParamsAssumption DEF Frames
        <5>7. ~ (Last(fs).callStack # 0 /\ NumParams[f] > Last(fs).callStack)
          BY <5>5, <5>6
        <5>8. QED
          BY <4>1, <5>1, <5>7 DEF ParseFunctionEnter
      <4>4. QED
        BY <4>2, <4>3
    <3>4. QED
      BY <3>2, <3>3
  <2>6. QED
    BY <2>0, <2>1, <2>2, <2>3, <2>4, <2>5 DEF LoadOneDynamicInst
<1>5. QED
  BY <1>2, <1>3, <1>4 DEF Next

(* For every program whose callbacks fit: no assertion of the data graph    *)
(* fails, and its frames are the innermost activations of the program       *)
(* (DataGraph.cpp:735-736, 764-809).                                        *)
THEOREM FramesAlwaysExact ==
  ASSUME CallbacksFit
  PROVE  Spec => []FramesExact
<1>1. Init => ~aborted
  BY DEF Init, GraphInit
<1>2. GraphInv /\ ~aborted /\ [Next]_vars => ~aborted'
  BY NothingAborts
<1>3. GraphInv /\ ~aborted => FramesExact
  BY FramesTell DEF FramesExact, FramesMatch, Follows
<1>4. QED
  BY <1>1, <1>2, <1>3, GraphAlways, PTL DEF Spec

(* And if phis are apart and results traced, the values in the frames are   *)
(* those of the activations (DataGraph.h:230).                              *)
THEOREM CallsAlwaysFollowed ==
  ASSUME CallbacksFit, PhisApart, ResultsTraced
  PROVE  Spec => []CallsFollowed
<1>1. Init => ~aborted
  BY DEF Init, GraphInit
<1>2. GraphInv /\ ~aborted /\ [Next]_vars => ~aborted'
  BY NothingAborts
<1>3. GraphInv /\ ~aborted => FramesExact
  BY FramesTell DEF FramesExact, FramesMatch, Follows
<1>4. GraphInv /\ ~aborted => EnvExact
  BY FramesTell DEF EnvExact, FramesMatch, Follows, KnowsValues
<1>5. QED
  BY <1>1, <1>2, <1>3, <1>4, GraphAlways, PTL DEF Spec, CallsFollowed

-----------------------------------------------------------------------------
(* Types *)

(* The window is filled up to one more than it holds.                       *)
WindowInv == Len(list) <= Window + 1

LEMMA WindowKept ==
  ASSUME ProgramInv, TraceInv, WindowInv, [Next]_vars PROVE WindowInv'
<1>0. IsSeq(list) /\ Len(list) \in Nat /\ currentId \in Nat /\ Window \in Nat
  BY TraceFields, WindowAssumption DEF TraceInv
<1>1. CASE \E access \in Accesses \cup {NoAccess} : ReadOne(access)
  <2>1. PICK access \in Accesses \cup {NoAccess} : ReadOne(access)
    BY <1>1
  <2>2. PICK e : list' = Append(list, e) /\ currentId' = currentId + 1 /\ tracing = "on"
    BY <2>1, EntryRead DEF ReadOne
  <2>3. currentId' # currentId
    BY <1>0, <2>2
  <2>4. LoadOne
    BY <2>3 DEF Next, Serialize, CommitOneDynamicInst, vars, graph
  <2>5. Len(list) <= Window
    BY <2>2, <2>4 DEF LoadOne, CanLoad
  <2>6. PICK s, t : s = list /\ t = Append(s, e)
    OBVIOUS
  <2>7. Len(t) = Len(s) + 1
    BY <1>0, <2>6, AppendFields
  <2>8. list' = t
    BY <2>2, <2>6
  <2>9. Len(list') = Len(list) + 1
    BY <2>6, <2>7, <2>8
  <2>10. QED
    BY <1>0, <2>5, <2>9 DEF WindowInv
<1>2. CASE Skip
  BY <1>2 DEF Skip, WindowInv
<1>3. CASE Serialize
  <2>1. list' = Tail(list)
    BY <1>3 DEF Serialize, CommitOneDynamicInst
  <2>2. PICK s : s = list
    OBVIOUS
  <2>3. s # <<>>
    <3>1. Len(list) > Window => list # <<>>
      BY <1>0, SeqFields
    <3>2. QED
      BY <1>3, <2>2, <3>1 DEF Serialize
  <2>4. PICK S : s \in Seq(S)
    BY <1>0, <2>2 DEF IsSeq
  <2>5. Len(Tail(s)) = Len(s) - 1
    BY ONLY <2>3, <2>4, HeadTailProperties
  <2>6. QED
    BY <1>0, <2>1, <2>2, <2>5 DEF WindowInv
<1>4. QED
  BY <1>1, <1>2, <1>3, ReaderSteps

(* What a map remembers of the first n entries has their ids.               *)
LEMMA MapType ==
  ASSUME NEW n \in Nat, NEW m, NEW t, NEW op, MapOK(m, AccessesOf(t, n, op))
  PROVE  /\ m \in [log : Seq([addr : Address, id : 1 .. n]), map : [Address -> 0 .. n]]
         /\ Indexed(m)
<1>1. m \in AccessMap /\ Indexed(m) /\ Remembers(m, AccessesOf(t, n, op))
  BY DEF MapOK
<1>2. PICK log, map : m = [log |-> log, map |-> map]
  BY <1>1 DEF AccessMap
<1>3. m.log = log /\ m.map = map
  BY <1>2
<1>4. log \in Seq(LogEntry) /\ map \in [Address -> Nat]
  BY <1>1, <1>3 DEF AccessMap, LogEntry
<1>5. DOMAIN log = 1 .. Len(log) /\ Len(log) \in Nat
  BY <1>4, LenProperties
<1>6. PICK E : E = [addr : Address, id : 1 .. n]
  OBVIOUS
<1>7. \A k \in 1 .. Len(log) : log[k].id \in 1 .. n /\ log[k] \in E
  <2>1. ASSUME NEW k \in 1 .. Len(log) PROVE log[k].id \in 1 .. n /\ log[k] \in E
    <3>1. log[k] \in AccessesOf(t, n, op)
      BY <1>1, <1>3, <1>5 DEF Remembers
    <3>2. log[k] \in LogEntry /\ log[k].id \in 1 .. n
      BY <3>1 DEF AccessesOf
    <3>3. QED
      BY <1>6, <3>2 DEF LogEntry
  <2>2. QED
    BY <2>1
<1>8. log \in Seq(E)
  <2>1. log = [k \in 1 .. Len(log) |-> log[k]]
    BY <1>4, <1>5
  <2>2. [k \in 1 .. Len(log) |-> log[k]] \in Seq(E)
    BY ONLY <1>5, <1>7, SeqDef
  <2>3. QED
    BY <2>1, <2>2
<1>9. \A a \in Address : map[a] \in 0 .. n
  <2>1. ASSUME NEW a \in Address PROVE map[a] \in 0 .. n
    <3>1. CASE map[a] = 0
      BY <3>1
    <3>2. CASE map[a] # 0
      <4>1. Newest(log, a, map[a])
        BY <1>1, <1>3, <3>2 DEF Indexed, InvalidId
      <4>2. PICK k \in DOMAIN log : log[k] = [addr |-> a, id |-> map[a]]
        BY <4>1 DEF Newest
      <4>3. log[k].id = map[a] /\ log[k].id \in 1 .. n
        BY <1>5, <1>7, <4>2
      <4>4. QED
        BY <4>3
    <3>3. QED
      BY <3>1, <3>2
  <2>2. QED
    BY <2>1
<1>10. map \in [Address -> 0 .. n]
  BY <1>4, <1>9
<1>11. QED
  BY <1>1, <1>2, <1>6, <1>8, <1>10

LEMMA TypesTell == GraphInv /\ MapInv /\ WindowInv => TypeOK
<1> SUFFICES ASSUME GraphInv, MapInv, WindowInv PROVE TypeOK
  OBVIOUS
<1>0. ProgramInv /\ TraceInv /\ FramesInv /\ ControlInv
  BY DEF GraphInv
<1>1. currentId \in Nat
  BY <1>0, TraceFields
<1>2. \A k \in DOMAIN frames :
        /\ frames[k].fn \in Instrumented
        /\ frames[k].dep \in [Inst -> SUBSET (1 .. currentId)]
        /\ frames[k].env \in [Inst -> {NoValue} \cup 0 .. currentId]
        /\ frames[k].prevCallInst \in {0} \cup Inst
  <2>1. frames \in Seq(Frames(currentId))
    BY <1>0 DEF FramesInv
  <2>2. \A k \in DOMAIN frames : frames[k] \in Frames(currentId)
    BY <2>1, LenProperties, ElementOfSeq
  <2>3. QED
    BY <2>2 DEF Frames
<1>3. currentId \in 0 .. MaxTime
  <2>1. /\ currentId <= Len(seen) /\ Len(seen) <= MaxTime /\ Len(seen) \in Nat
    BY <1>0, SeqFields DEF TraceInv, ProgramInv
  <2>2. QED
    BY <1>1, <2>1, BoundAssumption
<1>4. prevControlInstId \in 0 .. currentId
  BY <1>0 DEF ControlInv
<1>5. /\ loadMap \in [log : Seq([addr : Address, id : 1 .. currentId]),
                      map : [Address -> 0 .. currentId]]
      /\ Indexed(loadMap)
  <2>1. PICK n \in Nat, m \in {loadMap}, t \in {All} : n = currentId
    BY <1>1
  <2>2. MapOK(m, AccessesOf(t, n, "load"))
    BY <2>1 DEF MapInv
  <2>3. /\ m \in [log : Seq([addr : Address, id : 1 .. n]), map : [Address -> 0 .. n]]
        /\ Indexed(m)
    BY ONLY n \in Nat, <2>2, MapType
  <2>4. QED
    BY <2>1, <2>3
<1>6. /\ storeMap \in [log : Seq([addr : Address, id : 1 .. currentId]),
                       map : [Address -> 0 .. currentId]]
      /\ Indexed(storeMap)
  <2>1. PICK n \in Nat, m \in {storeMap}, t \in {All} : n = currentId
    BY <1>1
  <2>2. MapOK(m, AccessesOf(t, n, "store"))
    BY <2>1 DEF MapInv
  <2>3. /\ m \in [log : Seq([addr : Address, id : 1 .. n]), map : [Address -> 0 .. n]]
        /\ Indexed(m)
    BY ONLY n \in Nat, <2>2, MapType
  <2>4. QED
    BY <2>1, <2>3
<1>7. [k \in DOMAIN All |-> All[k].id] = [k \in 1 .. currentId |-> k]
  <2>1. DOMAIN All = 1 .. currentId
    BY <1>0, TraceFields
  <2>2. \A k \in 1 .. currentId : All[k].id = k
    BY <1>0 DEF TraceInv, EntryOK
  <2>3. QED
    BY <2>1, <2>2
<1>8. QED
  BY <1>2, <1>3, <1>4, <1>5, <1>6, <1>7 DEF TypeOK, WindowInv

(* Whatever the program does: the maps stay indices of their logs, the list *)
(* within the window, and the ids count the instructions of the trace       *)
(* (DataGraph.cpp:22-82, Replay.cpp:658-705).                               *)
THEOREM TypeCorrect == Spec => []TypeOK
<1>1. Init => GraphInv /\ MapInv /\ WindowInv
  <2>1. Init => WindowInv
    <3>1. Init => list = <<>>
      BY DEF Init, GraphInit
    <3>2. Len(<<>>) = 0
      OBVIOUS
    <3>3. QED
      BY <3>1, <3>2, WindowAssumption DEF WindowInv
  <2>2. QED
    BY <2>1, MapInitOK, ProgramInitOK, TraceInitOK, FramesInitOK, ControlInitOK, EntriesInitOK
       DEF Init, GraphInv
<1>2. GraphInv /\ MapInv /\ WindowInv /\ [Next]_vars => (GraphInv /\ MapInv /\ WindowInv)'
  <2>1. GraphInv /\ [Next]_vars => GraphInv'
    BY ProgramKept, TraceKept, FramesKept, ControlKept, EntriesKept DEF GraphInv
  <2>2. QED
    BY <2>1, MapKept, WindowKept DEF GraphInv
<1>3. QED
  BY <1>1, <1>2, TypesTell, PTL DEF Spec

=============================================================================
