----------------------------- MODULE RegionShapes -----------------------------
(***************************************************************************)
(* Small regions for the model checker, as LoopRegion describes them.      *)
(***************************************************************************)
EXTENDS Integers, Sequences

\* for (i) { for (j, s) { x = A[j], y = A[j + 1]; if (..) mem; s' } D[i] = s }
I(op, bb, args) == [op |-> op, bb |-> bb, args |-> args, from |-> <<>>, ty |-> 4, user |-> {}]
Phi(bb, args, from) == [I("phi", bb, args) EXCEPT !.from = from]
Block(l, succ) == [loop |-> l, succ |-> succ]
Step(kind, body) ==
  CASE kind = "reduce" -> I("add", 5, <<3, 5>>)
    [] kind = "chase"  -> I("load", 5, <<3>>)
    [] kind = "const"  -> I("add", 5, <<3, -7>>)
    [] kind = "prev"   -> I("load", IF body = 3 THEN 3 ELSE 5, <<4>>)
    [] kind = "tern"   -> I("add", 5, <<8, 3>>)
Nest(p) ==
  LET body == IF p.cond = 0 THEN 3 ELSE 4 IN
  [parent |-> <<0, 1>>, header |-> <<2, 3>>, trip |-> <<{1}, IF p.fixed THEN {1, 2} ELSE {2}>>,
   bb |-> << Block(0, <<2>>), Block(1, <<3>>), Block(2, IF p.cond = 0 THEN <<4>> ELSE <<4, 5>>),
             Block(2, <<5>>), Block(2, <<3, 6>>), Block(1, <<2, 7>>), Block(0, <<>>) >>,
   inst |-> <<
     Phi(2, <<1000, 18>>, <<1, 6>>), Phi(3, <<1000, 12>>, <<2, 5>>), Phi(3, <<1000, 13>>, <<2, 5>>),
     I("add", 3, <<-1, 2>>), [I("load", 3, <<4>>) EXCEPT !.user = p.user \ {"no-stream"}], I("add", 3, <<4, 1004>>), I("load", 3, <<6>>),
     IF p.step = "tern" THEN I("zext", 3, <<7>>) ELSE [I("mul", 3, <<5, 7>>) EXCEPT !.ty = 2],
     IF p.cond = 0 THEN I("mul", 3, <<5, 5>>) ELSE I("br", 3, <<p.cond>>),
     I("add", body, <<-2, p.addr>>),
     IF p.mem = "store" THEN I("store", body, <<p.val, IF p.addr = 4 THEN 4 ELSE 10>>)
     ELSE IF p.mem = "rmw" THEN I("rmw", body, <<10, p.val>>)
     ELSE I("cmpxchg", body, <<10, 1000, p.val>>),
     I("add", 5, <<2, 1001>>),
     [Step(p.step, body) EXCEPT !.user = p.user \cap {"no-stream"}], I("icmp", 5, <<12, -3>>), I("br", 5, <<14>>),
     I("add", 6, <<-4, 1>>), I("store", 6, <<13, 16>>), I("add", 6, <<1, 1001>>),
     I("icmp", 6, <<18, -5>>), I("br", 6, <<19>>), I("ret", 7, <<13>>) >>,
   epilogue |-> {}, opt |-> p.opt]

\* for (i) { b = B[i]; if (b > 0 or always) { body } }
\* The body is numbered from 6 on, 1 is i, 2 the address of B[i], 3 b.
Flat(body, cond, opt) ==
  LET n == 5 + Len(body) IN
  [parent |-> <<0>>, header |-> <<2>>, trip |-> <<{1}>>,
   bb |-> << Block(0, <<2>>), Block(1, IF cond THEN <<3, 4>> ELSE <<3>>), Block(1, <<4>>),
             Block(1, <<2, 5>>), Block(0, <<>>) >>,
   inst |-> << Phi(2, <<1000, n + 1>>, <<1, 4>>), I("add", 2, <<-1, 1>>), I("load", 2, <<2>>),
               I("icmp", 2, <<3, 1000>>), IF cond THEN I("br", 2, <<4>>) ELSE I("icmp", 2, <<1, 1000>>) >>
             \o [k \in DOMAIN body |-> I(body[k][1], 3, body[k][2])]
             \o << I("add", 4, <<1, 1001>>), I("icmp", 4, <<n + 1, -9>>), I("br", 4, <<n + 2>>), I("ret", 5, <<>>) >>,
   epilogue |-> {}, opt |-> opt]
\* for (i) { x = A[i], y = A[i + 1]; body }
\* The body is numbered from 6 on, 1 is i, 3 x and 5 y.
Wide == {"insertelement", "shufflevector"}
Stencil(body, opt) ==
  LET n == 5 + Len(body)
      vector == \E k \in DOMAIN body : body[k][1] \in Wide IN
  [parent |-> <<0>>, header |-> <<2>>, trip |-> <<{1}>>,
   bb |-> << Block(0, <<2>>), Block(1, <<2, 3>>), Block(0, <<>>) >>,
   inst |-> << Phi(2, <<1000, n + 1>>, <<1, 2>>), I("add", 2, <<-1, 1>>),
               [I("load", 2, <<2>>) EXCEPT !.ty = IF vector THEN 8 ELSE 4],
               I("add", 2, <<2, 1004>>), I("load", 2, <<4>>) >>
             \o [k \in DOMAIN body |-> [I(body[k][1], 2, body[k][2]) EXCEPT !.ty = IF vector THEN 16 ELSE 4]]
             \o << I("add", 2, <<1, 1001>>), I("icmp", 2, <<n + 1, -9>>), I("br", 2, <<n + 2>>), I("ret", 3, <<>>) >>,
   epilogue |-> {}, opt |-> opt]
\* for (i, j) { if (B[i] > 0) { x = X[j]; j++; if (x > 0) use(Y[x] or x) } }
Filter(dep, opt) ==
  [parent |-> <<0>>, header |-> <<2>>, trip |-> <<{1}>>,
   bb |-> << Block(0, <<2>>), Block(1, <<3, 5>>), Block(1, <<4, 5>>), Block(1, <<5>>),
             Block(1, <<2, 6>>), Block(0, <<>>) >>,
   inst |-> << Phi(2, <<1000, 17>>, <<1, 5>>), Phi(2, <<1000, 16>>, <<1, 5>>),
               I("add", 2, <<-1, 1>>), I("load", 2, <<3>>), I("icmp", 2, <<4, 1000>>), I("br", 2, <<5>>),
               I("add", 3, <<-2, 2>>), I("load", 3, <<7>>), I("add", 3, <<2, 1001>>),
               I("icmp", 3, <<8, 1000>>), I("br", 3, <<10>>),
               I("add", 4, <<-3, 8>>), I(IF dep THEN "load" ELSE "mul", 4, <<12>>), I("call", 4, <<13>>), I("br", 4, <<>>),
               Phi(5, <<2, 9, 9>>, <<2, 3, 4>>), I("add", 5, <<1, 1001>>),
               I("icmp", 5, <<17, -9>>), I("br", 5, <<18>>), I("ret", 6, <<>>) >>,
   epilogue |-> {}, opt |-> opt]
\* for (i) { lo = O[i], hi = O[i + 1] or *f(i); if (lo < hi, lo > 7 or always)
\*             { for (j = lo, s = 0; j < hi or while C[j] != 0; j++) { x = C[j]; if (..) y = V[x]; s += x or y }
\*               R[i] = s } }
Csr(p) ==
  LET bb(b) == IF p.sum \in {"x", "y"} /\ ~p.cond THEN 6 ELSE b IN
  [parent |-> <<0, 1>>, header |-> <<2, 4>>,
   trip |-> <<{1}, CASE p.bound = "count" -> {2} [] p.bound = "data" -> {}>>,
   bb |-> << Block(0, <<2>>), Block(1, IF p.pred THEN <<3, 8>> ELSE <<3>>), Block(1, <<4>>),
             Block(2, IF p.cond THEN <<5, 6>> ELSE <<5>>), Block(2, <<6>>), Block(2, <<4, 7>>),
             Block(1, <<8>>), Block(1, <<2, 9>>), Block(0, <<>>) >>,
   inst |-> <<
     Phi(2, <<1000, 21>>, <<1, 8>>), I("add", 2, <<-1, 1>>), I("load", 2, <<2>>), IF p.sum = "y" THEN I("call", 2, <<1>>) ELSE I("add", 2, <<2, 1004>>),
     I("load", 2, <<4>>), I("icmp", 2, <<3, IF p.sum = "none" THEN 1007 ELSE 5>>), IF p.pred THEN I("br", 2, <<6>>) ELSE I("mul", 2, <<1, 1>>),
     Phi(4, <<3, 15>>, <<3, 6>>), Phi(4, <<1000, 16>>, <<3, 6>>),
     I("add", bb(4), <<-2, 8>>), I("load", bb(4), <<10>>), IF p.cond THEN I("br", 4, <<11>>) ELSE I("mul", bb(4), <<8, 8>>),
     I("add", bb(5), <<-3, 11>>), IF p.mem = "load" THEN I("load", bb(5), <<13>>) ELSE I("store", bb(5), <<-6, 13>>),
     I("add", 6, <<8, 1001>>),
     IF p.sum = "none" THEN I("add", 6, <<9, 1001>>) ELSE I("add", 6, <<9, IF p.sum = "y" THEN 14 ELSE 11>>),
     I("icmp", 6, IF p.bound = "count" THEN <<15, 5>> ELSE <<11, 1000>>), I("br", 6, <<17>>),
     I("add", 7, <<-4, 1>>), I("store", 7, <<16, 19>>),
     I("add", 8, <<1, 1001>>), I("icmp", 8, <<21, -5>>), I("br", 8, <<22>>), I("ret", 9, <<>>) >>,
   epilogue |-> {}, opt |-> p.opt]
\* for (i) { n = N[i]; for (j < 4) { for (k = n; A[k] != 0; k++) use(A[k]) } }
Triple(opt) ==
  [parent |-> <<0, 1, 2>>, header |-> <<2, 3, 4>>, trip |-> <<{1}, {1, 2}, {}>>,
   bb |-> << Block(0, <<2>>), Block(1, <<3>>), Block(2, <<4>>), Block(3, <<4, 5>>),
             Block(2, <<3, 6>>), Block(1, <<2, 7>>), Block(0, <<>>) >>,
   inst |-> << Phi(2, <<1000, 15>>, <<1, 6>>), I("add", 2, <<-1, 1>>), I("load", 2, <<2>>),
               Phi(3, <<1000, 12>>, <<2, 5>>), Phi(4, <<3, 8>>, <<3, 4>>),
               I("add", 4, <<-2, 5>>), I("load", 4, <<6>>), I("add", 4, <<5, 1001>>), I("call", 4, <<7>>),
               I("icmp", 4, <<7, 1000>>), I("br", 4, <<10>>),
               I("add", 5, <<4, 1001>>), I("icmp", 5, <<12, 1004>>), I("br", 5, <<13>>),
               I("add", 6, <<1, 1001>>), I("icmp", 6, <<15, -5>>), I("br", 6, <<16>>), I("ret", 7, <<>>) >>,
   epilogue |-> {}, opt |-> opt]
===============================================================================
