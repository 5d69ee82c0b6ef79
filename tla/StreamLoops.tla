----------------------------- MODULE StreamLoops -----------------------------
(***************************************************************************)
(* What the transformer does to whole loops of the clone once every loop   *)
(* is configured: StaticNestStreamBuilder lets the streams of an outer     *)
(* loop configure those of an inner one, StreamLoopEliminator takes out a  *)
(* loop in which the core has nothing left to do, and the clean up finds   *)
(* the streams whose values the core no longer reads.                      *)
(*                                                                         *)
(* sorted[l] are the streams that loop l configures.                       *)
(***************************************************************************)
EXTENDS StreamExecution

IsClonedInst(x, v) == v \in DOMAIN x.inst
ClonedIn(r, x, l, v) == IsClonedInst(x, v) /\ x.inst[v].bb \in LoopBlocks(r, x, l)

(***************************************************************************)
(* Nesting.  The configuration of the inner loop becomes a function of the *)
(* outer loop's streams (NestStreamConfigureDataGraph).                    *)
(***************************************************************************)
ConfigInsts(x, b) ==
  {i \in Range(x.code[b]) \ x.gone : x.inst[i].op \in {"ssp.config", "ssp.input", "ssp.ready"}}
\* An input is a value from outside the outer loop, a phi, a load or a call.
NestInputs(r, x, outer, b) ==
  LET ends(v) == \/ ~ClonedIn(r, x, outer, v)
                 \/ x.inst[v].op \in {"phi", "load", "call", "ssp.load", "ssp.atomic"}
      args == UNION {Range(x.inst[i].args) : i \in ConfigInsts(x, b)}
      all  == Closure(args, LAMBDA v : IF ends(v) THEN {} ELSE Range(x.inst[v].args), Len(x.inst))
  IN {v \in all : ends(v) /\ ~IsConst(v)}
NestGraphValid(r, x, outer, in) ==
  \A v \in in : ClonedIn(r, x, outer, v) => x.inst[v].op \in {"phi", "ssp.load"}
\* Sums of other inputs are computed by the function; then all sums are, if
\* that leaves fewer inputs.
HoistInputToCompute(r, x, outer, in) ==
  LET is(v, ops) == IsClonedInst(x, v) /\ x.inst[v].op \in ops
      sum(v, set) == /\ is(v, {"add", "shl", "expand"}) /\ ~ClonedIn(r, x, outer, v)
                     /\ \A w \in Range(x.inst[v].args) : w \in set \/ IsConst(w)
      hoist[n \in 0 .. Cardinality(in)] ==
        IF n = 0 THEN in ELSE LET set == hoist[n - 1] IN {v \in set : ~sum(v, set)}
      some == hoist[Cardinality(in)]
      more(v) == is(v, {"add", "shl", "expand", "gep", "bitcast"})
      all == Closure(some, LAMBDA v : IF more(v) THEN Range(x.inst[v].args) ELSE {}, Len(x.inst))
      least == {v \in all : ~more(v) /\ ~IsConst(v)}
  IN IF Cardinality(least) < Cardinality(some) THEN least ELSE some

\* The outer loop's stream that has the value of an input.
NestInputStream(A, x, outer, sorted, v) ==
  LET s == IF x.inst[v].op = "phi" THEN ChosenByInst(A, v) ELSE x.inst[v].s
      found == IF x.inst[v].op = "phi" THEN s # NoStream /\ A.S[s].cfg = outer ELSE s \in Range(sorted[outer])
  IN IF found THEN s ELSE NoStream

\* A branch of the outer loop that decides whether the inner one is entered.
NestPredicates(A, outer, inner) ==
  LET r == A.r
      graph(b) == BranchGraph(r, outer, b, StreamInsts(A))
      decides(p) == r.header[inner] \in {LoopHeadPredicate(r, p, p.true), LoopHeadPredicate(r, p, p.false)}
      served(p) == \A v \in InLoopInputs(r, outer, p.g) :
                     LET s == ChosenWithPlaceholder(A, v) IN s # NoStream /\ A.S[s].cfg = outer
  IN {p \in {graph(b) : b \in {c \in DOMAIN r.bb : /\ LoopContains(r, outer, r.bb[c].loop)
                                                    /\ PostDominates(r, c, r.header[outer])
                                                    /\ Conditional(r, c)}} :
        p.valid /\ decides(p) /\ served(p)}

\* Mutant: a loop behind a branch is configured in every iteration.
NestReached_Always(A, outer, inner, predicates) == TRUE
NestReached(A, outer, inner, predicates) ==
  predicates # {} \/ PostDominates(A.r, A.r.header[inner], A.r.header[outer])

CanStreamsBeNested(A, x, outer, inner, sorted) ==
  LET in0 == NestInputs(A.r, x, outer, x.config[inner])
      in == HoistInputToCompute(A.r, x, outer, in0)
      fromLoop == {v \in in : ClonedIn(A.r, x, outer, v)}
  IN /\ sorted[inner] # <<>>
     /\ NestGraphValid(A.r, x, outer, in0)
     /\ \A v \in fromLoop : NestInputStream(A, x, outer, sorted, v) # NoStream
     /\ fromLoop # {} /\ Cardinality(in) <= 15
     /\ NestReached(A, outer, inner, NestPredicates(A, outer, inner))

NestRegionInto(A, x, outer, inner) ==
  LET b == x.config[inner]
      in == HoistInputToCompute(A.r, x, outer, NestInputs(A.r, x, outer, b))
      predicates == NestPredicates(A, outer, inner)
      p == CHOOSE q \in predicates : \A o \in predicates : q.bb <= o.bb
      inputs == Ascending({v \in in : ~ClonedIn(A.r, x, outer, v)})
                  \o (IF predicates = {} THEN <<>>
                      ELSE Ascending({Cloned(x, v) : v \in p.g.inputs \ InLoopInputs(A.r, outer, p.g)}))
      ready == {i \in Range(x.code[x.config[outer]]) : x.inst[i].op = "ssp.ready"}
      x1 == Checked(Pending(x, ConfigInsts(x, b)), ready # {}, "Failed to find StreamReady for OuterLoop")
      x2 == Checked(x1, ~\E n \in x.nest : n.inner = inner, "Region already nested")
      x3 == FoldLeft(LAMBDA y, v : InsertBefore(y, CHOOSE i \in ready : TRUE, "ssp.input", <<v>>, 0), x2, inputs)
  IN [x3 EXCEPT !.nest = @ \cup {[inner |-> inner, outer |-> outer,
                                   pred |-> IF predicates = {} THEN 0 ELSE p.bb,
                                   ret |-> predicates # {} /\
                                             LoopHeadPredicate(A.r, p, p.true) = A.r.header[inner]]}]

\* The outermost loop is tried first.
BuildNestStreamsForLoop(A, x, inner, sorted) ==
  LET fits == {o \in Enclosing(A.r)[inner] \ {inner} : CanStreamsBeNested(A, x, o, inner, sorted)}
  IN IF sorted[inner] = <<>> \/ fits = {} THEN x
     ELSE NestRegionInto(A, x, CHOOSE o \in fits : \A l \in fits : LoopContains(A.r, o, l), inner)

(***************************************************************************)
(* Elimination.                                                            *)
(***************************************************************************)
LoopStays(r, x, l) == r.header[l] \in LiveBlocks(x)
SupportedCall(op) == op \in {"ssp.load", "ssp.step", "ssp.atomic", "ssp.store"}
IsCall(op) == op \in {"call", "ssp.config", "ssp.input", "ssp.ready", "ssp.end", "ssp.load", "ssp.store",
                      "ssp.atomic", "ssp.step", "ssp.step_amnt"}
\* Mutant: values that are read after the loop are not looked for.
NoOutsideUser_Never(r, x, l, i) == TRUE
NoOutsideUser(r, x, l, i) ==
  \A u \in UsersOf(x, i) : x.inst[u].bb \in LoopBlocks(r, x, l) \cup x.elimBB
CanLoopBeEliminated(r, x, l) ==
  LET insts == {i \in DOMAIN x.inst \ (x.gone \cup x.removed) : x.inst[i].bb \in LoopBlocks(r, x, l)}
  IN /\ \A i \in insts : /\ NoOutsideUser(r, x, l, i)
                         /\ IsCall(x.inst[i].op) => SupportedCall(x.inst[i].op)
                         /\ x.inst[i].op # "store"
     /\ (\E n \in x.bound : n.loop = l) \/ TripCountInvariant(r, l, l)
     /\ HasPreheader(r, x, l)
     /\ Cardinality(ExitBlocks(r, x, l)) = 1
\* The preheader goes straight to the exit.
EliminateLoop(A, x, l) ==
  LET r    == A.r
      pre  == Preheader(r, x, l)
      exit == CHOOSE b \in ExitBlocks(r, x, l) : TRUE
      head == r.header[l]
      without(i) == LET keep == SelectSeq([k \in DOMAIN i.args |-> k], LAMBDA k : i.from[k] # pre)
                    IN [i EXCEPT !.args = [k \in DOMAIN keep |-> i.args[keep[k]]],
                                 !.from = [k \in DOMAIN keep |-> i.from[keep[k]]]]
      streams == {ChosenByInst(A, i) : i \in {j \in DOMAIN r.inst : InLoop(r, l, j)}} \ {NoStream}
      nested == \E n \in x.nest : n.inner = l
      y == [x EXCEPT !.bb[pre].succ = <<exit>>,
                     !.inst = [i \in DOMAIN @ |-> IF @[i].op = "phi" /\ @[i].bb = head
                                                  THEN without(@[i]) ELSE @[i]],
                     !.exit = {e \in @ : e.bb \notin LoopBlocks(r, x, l)},
                     !.elim = @ \cup {l}, !.elimBB = @ \cup LoopBlocks(r, x, l),
                     !.elimS = @ \cup streams]
  IN IF nested THEN Pending(y, x.ends[l]) ELSE y
TryEliminateLoop(A, x, l) ==
  IF LoopStays(A.r, x, l) /\ CanLoopBeEliminated(A.r, x, l) THEN EliminateLoop(A, x, l) ELSE x

(***************************************************************************)
(* Streams without a core user.                                            *)
(***************************************************************************)
\* Cleared are the streams of eliminated loops and those whose StreamLoad has
\* no use; it is erased.
ClearStreamLoads(x) ==
  LET unused == {s \in DOMAIN x.load \ x.elimS : UsersOf(x, x.load[s]) = {}}
  IN [x EXCEPT !.gone = @ \cup {x.load[s] : s \in unused},
               !.load = [s \in DOMAIN @ |-> IF s \in unused \cup x.elimS THEN 0 ELSE @[s]]]
NoCoreUserSeeds(A, x) ==
  {s \in DOMAIN x.load : x.load[s] = 0 /\ ChosenDependents(A, s) \subseteq x.noCore}
BackDependentsAllow(A, x, s) == {d \in ChosenBackDependents(A, s) : A.S[d].isIV} \subseteq x.noCore
\* The dependents of the base stream are looked at, but the continue in
\* that loop goes on with the next of them: the stream is taken in any case.
\* Mutant: a base stream that the core still reads is taken, too.
NoCoreUserBases_Read(A, x, s) == {b \in A.S[s].base : A.S[b].chosen /\ IsLoad(A.r, A.S[b].inst)}
NoCoreUserBases(A, x, s) ==
  {b \in A.S[s].base : A.S[b].chosen /\ IsLoad(A.r, A.S[b].inst) /\ x.load[b] = 0}
===============================================================================
