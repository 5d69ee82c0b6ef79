------------------------------ MODULE MCReplay ------------------------------
(* Instances of Replay for TLC. *)
EXTENDS Replay, TLC

I(op, fn, bb, uses, to, callees) ==
  [op |-> op, fn |-> fn, bb |-> bb, uses |-> uses, to |-> to, callees |-> callees]

(* main loops: it calls g in a block of its own, and adds the result to the *)
(* numbers of this iteration and the last; two branches lead back.  g loads *)
(* and may store and call a library, which may call g or main, or throw.    *)
LoopCode == <<
  I("op", "main", "entry", <<0>>, <<>>, {}),
  I("br", "main", "entry", <<>>, <<"loop">>, {}),
  I("phi", "main", "loop", <<>>, <<>>, {}),
  I("phi", "main", "loop", <<>>, <<>>, {}),
  I("invoke", "main", "loop", <<3>>, <<"next", "catch">>, {"g"}),
  I("op", "main", "next", <<3, 4, 5>>, <<>>, {}),
  I("br", "main", "next", <<>>, <<"loop", "more">>, {}),
  I("br", "main", "more", <<>>, <<"loop", "exit">>, {}),
  I("landingpad", "main", "catch", <<>>, <<>>, {}),
  I("ret", "main", "catch", <<4>>, <<>>, {}),
  I("ret", "main", "exit", <<6>>, <<>>, {}),
  I("load", "g", "top", <<0>>, <<>>, {}),
  I("br", "g", "top", <<>>, <<"lib", "done">>, {}),
  I("store", "g", "lib", <<12, 0>>, <<>>, {}),
  I("call", "g", "lib", <<12, 0>>, <<>>, {"ext"}),
  I("br", "g", "lib", <<>>, <<"done">>, {}),
  I("phi", "g", "done", <<>>, <<>>, {}),
  I("ret", "g", "done", <<17>>, <<>>, {}) >>

LoopIncoming ==
  3 :> [entry |-> 0, next |-> 4, more |-> 4] @@ 4 :> [entry |-> 0, next |-> 6, more |-> 6]
  @@ 17 :> [top |-> 12, lib |-> 0]

LoopFrontier ==
  [entry |-> {}, loop |-> {"next", "more"}, next |-> {"loop"}, more |-> {"next"},
   catch |-> {"loop"}, exit |-> {"more"}, top |-> {}, lib |-> {"top"}, done |-> {}]

LoopOfBlock == [b \in DOMAIN LoopFrontier |->
  IF b \in {"loop", "next", "more"} THEN "loop" ELSE NoLoop]
OneLoop == [loop |-> NoLoop]
OneHeader == [loop |-> "loop"]

LoopParams == [main |-> 0, g |-> 1]

(* A loop that swaps two numbers in every iteration. *)
SwapCode == <<
  I("op", "main", "entry", <<0>>, <<>>, {}),
  I("op", "main", "entry", <<0>>, <<>>, {}),
  I("br", "main", "entry", <<>>, <<"loop">>, {}),
  I("phi", "main", "loop", <<>>, <<>>, {}),
  I("phi", "main", "loop", <<>>, <<>>, {}),
  I("op", "main", "loop", <<4, 5>>, <<>>, {}),
  I("op", "main", "loop", <<5>>, <<>>, {}),
  I("br", "main", "loop", <<>>, <<"loop", "exit">>, {}),
  I("ret", "main", "exit", <<6>>, <<>>, {}) >>

SwapIncoming == 4 :> [entry |-> 1, loop |-> 5] @@ 5 :> [entry |-> 2, loop |-> 4]

SwapFrontier == [entry |-> {}, loop |-> {"loop"}, exit |-> {}]

SwapLoopOf == [b \in DOMAIN SwapFrontier |-> IF b = "loop" THEN "loop" ELSE NoLoop]

SwapParams == [main |-> 0]

ThreeAccesses == {[addr |-> 1, size |-> 1], [addr |-> 2, size |-> 1], [addr |-> 1, size |-> 2]}

(* The loop has what the proofs ask of a program. *)
ASSUME LoopAssumption == Code = LoopCode => PhisApart /\ ResultsTraced /\ CallbacksFit

=============================================================================
