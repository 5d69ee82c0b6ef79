---------------------------- MODULE ClonedProgram ----------------------------
(***************************************************************************)
(* The clone of the program that StreamExecutionTransformer rewrites.  A   *)
(* clone x is a record                                                     *)
(*   inst     the instructions, a sequence: those of the region under      *)
(*            their own number, then every inserted one, as                *)
(*            [op, bb, args, from, ty, s], with s the stream or loop that  *)
(*            an inserted one names (0: a reserved id)                     *)
(*   code     the order of the instructions in each block                  *)
(*   bb       the blocks, those of the region first: [loop, succ]          *)
(*   val      ClonedValueMap, which follows a value that is replaced       *)
(*   removed  PendingRemovedInsts                                          *)
(*   gone     the instructions that are erased                             *)
(* The remaining components are those of the transformer, see              *)
(* StreamExecution.                                                        *)
(***************************************************************************)
EXTENDS StaticMemStream

Undef == 9999
Terminators == {"br", "ret"}
CloneModule(r) ==
  [inst |-> [i \in DOMAIN r.inst |->
               [op |-> Op(r, i), bb |-> r.inst[i].bb, args |-> r.inst[i].args,
                from |-> r.inst[i].from, ty |-> r.inst[i].ty, s |-> 0]],
   code |-> [b \in DOMAIN r.bb |-> Ascending({i \in DOMAIN r.inst : r.inst[i].bb = b})],
   bb |-> r.bb, val |-> [i \in DOMAIN r.inst |-> i], removed |-> {}, gone |-> {},
   load |-> <<>>, func |-> {}, deps |-> {}, merged |-> {}, noCore |-> {},
   exit |-> {}, config |-> <<>>, ends |-> <<>>, bound |-> {}, nest |-> {},
   elim |-> {}, elimBB |-> {}, elimS |-> {}, bad |-> {}]

Cloned(x, v) == IF v \in DOMAIN x.val THEN x.val[v] ELSE v
UsersOf(x, v) == {i \in DOMAIN x.inst \ x.gone : v \in Range(x.inst[i].args)}
\* An assertion of the code that does not hold is recorded.
Checked(x, holds, what) == IF holds THEN x ELSE [x EXCEPT !.bad = @ \cup {what}]
Pending(x, set) == [x EXCEPT !.removed = @ \cup set]

(***************************************************************************)
(* Insertion and replacement.  The inserted instruction is the last one.   *)
(***************************************************************************)
IndexOf(seq, e) == CHOOSE k \in DOMAIN seq : seq[k] = e
Insert(x, b, k, op, args, s) ==
  [x EXCEPT !.inst = Append(@, [op |-> op, bb |-> b, args |-> args, from |-> <<>>, ty |-> 8, s |-> s]),
            !.code[b] = InsertAt(@, k, Len(x.inst) + 1)]
LastInst(x) == Len(x.inst)
InsertBefore(x, i, op, args, s) ==
  LET b == x.inst[i].bb IN Insert(x, b, IndexOf(x.code[b], i), op, args, s)
InsertAtEnd(x, b, op, args, s) ==
  LET code == x.code[b]
      tail == code # <<>> /\ x.inst[Last(code)].op \in Terminators
  IN Insert(x, b, IF tail THEN Len(code) ELSE Len(code) + 1, op, args, s)
FirstNonPHI(x, b) == Cardinality({i \in Range(x.code[b]) : x.inst[i].op = "phi"}) + 1
InsertFirst(x, b, op, args, s) == Insert(x, b, FirstNonPHI(x, b), op, args, s)
ReplaceIn(seq, old, new) == [k \in DOMAIN seq |-> IF seq[k] = old THEN new ELSE seq[k]]
ReplaceUsesIn(x, users, old, new) ==
  [x EXCEPT !.inst = [i \in DOMAIN @ |->
     IF i \in users THEN [@[i] EXCEPT !.args = ReplaceIn(@, old, new)] ELSE @[i]]]
ReplaceAllUses(x, old, new) ==
  [ReplaceUsesIn(x, DOMAIN x.inst, old, new) EXCEPT
     !.val = [v \in DOMAIN @ |-> IF @[v] = old THEN new ELSE @[v]]]

(***************************************************************************)
(* The control flow of the clone.                                          *)
(***************************************************************************)
Entry == 1
SuccOf(x, b) == Range(x.bb[b].succ)
PredOf(x, b) == {c \in DOMAIN x.bb : b \in SuccOf(x, c)}
Reachable(x, from, without) ==
  Closure(from \ without, LAMBDA b : SuccOf(x, b) \ without, Len(x.bb))
LiveBlocks(x) == Reachable(x, {Entry}, {})
Dominates(x, a, b) == b \notin Reachable(x, {Entry}, {a})
LoopBlocks(r, x, l) == {b \in DOMAIN x.bb \ x.elimBB : LoopContains(r, l, x.bb[b].loop)}
ExitBlocks(r, x, l) == UNION {SuccOf(x, b) : b \in LoopBlocks(r, x, l)} \ LoopBlocks(r, x, l)
\* A new block on the edges from preds to b.
SplitEdges(x, preds, b, loop) ==
  LET n == Len(x.bb) + 1
      to(seq) == ReplaceIn(seq, b, n)
      come(i) == IF i.op = "phi" /\ i.bb = b
                 THEN [i EXCEPT !.from = [k \in DOMAIN @ |-> IF @[k] \in preds THEN n ELSE @[k]]] ELSE i
  IN [x EXCEPT !.bb = Append([c \in DOMAIN @ |-> IF c \in preds THEN [@[c] EXCEPT !.succ = to(@)] ELSE @[c]],
                             [loop |-> loop, succ |-> <<b>>]),
               !.code = Append(@, <<>>),
               !.inst = [i \in DOMAIN @ |-> come(@[i])]]
OutsidePreds(r, x, l) == PredOf(x, r.header[l]) \ LoopBlocks(r, x, l)
HasPreheader(r, x, l) ==
  \E b \in OutsidePreds(r, x, l) : OutsidePreds(r, x, l) = {b} /\ Len(x.bb[b].succ) = 1
Preheader(r, x, l) == CHOOSE b \in OutsidePreds(r, x, l) : TRUE
GetOrCreatePreheader(r, x, l) ==
  IF HasPreheader(r, x, l) THEN x
  ELSE SplitEdges(x, OutsidePreds(r, x, l), r.header[l], r.parent[l])
FormDedicatedExitBlocks(r, x, l) ==
  LET shared == {b \in ExitBlocks(r, x, l) : ~(PredOf(x, b) \subseteq LoopBlocks(r, x, l))}
  IN FoldLeft(LAMBDA y, b : SplitEdges(y, PredOf(y, b) \cap LoopBlocks(r, y, l), b, y.bb[b].loop),
              x, Ascending(shared))

(***************************************************************************)
(* Clean up: instructions that wait to be removed go once nobody uses      *)
(* them, then everything without a use, an effect or a way to it.          *)
(***************************************************************************)
\* Mutant: one round only.
RemovePendingInsts_Once(x) ==
  LET y == [x EXCEPT !.gone = @ \cup {i \in x.removed : UsersOf(x, i) = {}}]
  IN Checked(y, x.removed \subseteq y.gone, "Can not fully remove PendingRemovedInsts")
RemovePendingInsts(x) ==
  LET one(y) == [y EXCEPT !.gone = @ \cup {i \in y.removed : UsersOf(y, i) = {}}]
      rounds[n \in 0 .. Cardinality(x.removed)] == IF n = 0 THEN x ELSE one(rounds[n - 1])
      last == rounds[Cardinality(x.removed)]
  IN Checked(last, x.removed \subseteq last.gone, "Can not fully remove PendingRemovedInsts")
HasEffect(i) ==
  i.op \in {"br", "ret", "store", "rmw", "cmpxchg", "call", "ssp.config", "ssp.input", "ssp.ready",
            "ssp.end", "ssp.load", "ssp.store", "ssp.atomic", "ssp.step",
            "ssp.step_amnt"}
EliminateDeadCode(x) ==
  LET live == LiveBlocks(x)
      swept == [x EXCEPT !.gone = @ \cup {i \in DOMAIN x.inst : x.inst[i].bb \notin live}]
      one(y) == [y EXCEPT !.gone = @ \cup {i \in DOMAIN y.inst : ~HasEffect(y.inst[i]) /\ UsersOf(y, i) = {}}]
      rounds[n \in 0 .. Len(x.inst)] == IF n = 0 THEN swept ELSE one(rounds[n - 1])
  IN rounds[Len(x.inst)]
===============================================================================
