---------------------------- MODULE MCLoopPasses ----------------------------
(* Instances of LoopPasses for TLC. *)
EXTENDS LoopPasses, TLC

I(op, bb, uses, to, callees) ==
  [op |-> op, fn |-> "main", bb |-> bb, uses |-> uses, to |-> to, callees |-> callees]

(* Three loops: N calls a library, O takes a root, and S walks over arrays. *)
NestCode == <<
  I("br", "entry", <<>>, <<"n">>, {}),
  I("call", "n", <<>>, <<>>, {"lib"}),
  I("br", "n", <<>>, <<"o", "exit">>, {}),
  I("phi", "o", <<>>, <<>>, {}),
  I("op", "o", <<4>>, <<>>, {}),
  I("call", "o", <<5>>, <<>>, {"sqrt"}),
  I("br", "o", <<>>, <<"s", "n">>, {}),
  I("phi", "s", <<>>, <<>>, {}),
  I("load", "s", <<8, 5>>, <<>>, {}),
  I("br", "s", <<9>>, <<"t", "o">>, {}),
  I("store", "t", <<9, 8>>, <<>>, {}),
  I("load", "t", <<8, 5>>, <<>>, {}),
  I("op", "t", <<8>>, <<>>, {}),
  I("br", "t", <<13>>, <<"s", "o">>, {}),
  I("ret", "exit", <<>>, <<>>, {}) >>

NestIncoming ==
  4 :> [n |-> 0, s |-> 9, t |-> 12] @@ 8 :> [o |-> 0, t |-> 13]

NestFrontier ==
  [entry |-> {}, n |-> {"n"}, o |-> {"o", "n"}, s |-> {"o", "t"}, t |-> {"s"}, exit |-> {}]

NestLoopOf == [entry |-> NoLoop, n |-> "N", o |-> "O", s |-> "S", t |-> "S", exit |-> NoLoop]
NestParent == [N |-> NoLoop, O |-> "N", S |-> "O"]
NestHeader == [N |-> "n", O |-> "o", S |-> "s"]
NestParams == [main |-> 0]

Memory == 1 .. 12

(* Walks up, down, in place, in steps, and an irregular one. *)
Walk(size, walk) == [size |-> size, affine |-> TRUE, walk |-> walk]
Up(a) == Walk(1, [k \in 1 .. 9 |-> a + k - 1])
Down(a) == Walk(1, [k \in 1 .. 9 |-> a - k + 1])
Still(a) == Walk(1, [k \in 1 .. 9 |-> a])
Steps(a) == Walk(1, [k \in 1 .. 9 |-> a + 2 * k - 2])
Pairs(a) == Walk(2, [k \in 1 .. 9 |-> a + 2 * k - 2])
Rough == [size |-> 1, affine |-> FALSE, walk |-> <<8, 7, 1, 5, 4, 1, 2, 1, 3>>]

Of(load, store, late) == 9 :> load @@ 11 :> store @@ 12 :> late

(* In turn: each iteration reads what the one before has written; loads are *)
(* scattered and stores fall; nothing is regular; and what one group writes, *)
(* two bytes at a time, the next one reads.                                 *)
MCPatterns == {
  Of(Up(2), Up(3), Up(3)),
  Of(Still(3), Down(9), Steps(1)),
  Of(Down(9), Up(3), Rough),
  Of(Up(2), Pairs(5), Up(1)) }
=============================================================================
