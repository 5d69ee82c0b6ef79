--------------------------- MODULE MCStreamExecution ---------------------------
EXTENDS StreamExecutionTransformer, RegionShapes

All == {"reduce", "incomplete-reduction", "cond-step", "store", "upgrade", "value", "fuse", "outer",
        "value-inner", "nest", "loop-bound", "eliminate", "merge", "merge-ind"}
Plain == All \ {"incomplete-reduction", "fuse", "outer", "nest", "eliminate", "merge", "merge-ind", "upgrade"}
Bodies == { << >>,
  <<<<"store", <<-8, 2>>>>>>,
  <<<<"add", <<3, -8>>>>, <<"store", <<6, 2>>>>>>,
  <<<<"add", <<-2, 3>>>>, <<"rmw", <<6, -8>>>>>>,
  <<<<"add", <<-2, 3>>>>, <<"rmw", <<6, -8>>>>, <<"call", <<7>>>>>>,
  <<<<"rmw", <<-2, -8>>>>>>,
  <<<<"add", <<-2, 3>>>>, <<"load", <<6>>>>, <<"add", <<7, 1001>>>>, <<"store", <<8, 6>>>>>>,
  <<<<"add", <<-2, 3>>>>, <<"load", <<6>>>>, <<"add", <<-4, 1>>>>, <<"store", <<7, 8>>>>>>,
  <<<<"add", <<-2, 3>>>>, <<"load", <<6>>>>, <<"call", <<7>>>>>> }
Stencils == {
  <<<<"mul", <<3, 5>>>>, <<"call", <<6>>>>>>,
  <<<<"mul", <<3, 5>>>>, <<"add", <<-2, 1>>>>, <<"store", <<6, 7>>>>>>,
  <<<<"insertelement", <<1000, 3>>>>, <<"shufflevector", <<6>>>>, <<"call", <<7>>>>>> }
Csrs(pred, cond, bound, mem, sum, opt) ==
  {Csr(p) : p \in [pred : pred, cond : cond, bound : bound, mem : mem, sum : sum, opt : opt]}
\* The outer loop uses the value before the last step.
UseBefore(r) == [r EXCEPT !.inst[17] = I("call", 6, <<3>>), !.inst[21] = I("ret", 7, <<3>>)]
TransformRegions ==
  {Flat(b, c, o) : b \in Bodies, c \in BOOLEAN, o \in {All, Plain}}
    \cup {Stencil(b, o) : b \in Stencils, o \in {All, Plain}}
    \cup {Filter(FALSE, All), Filter(FALSE, Plain)}
    \cup {UseBefore(Nest([fixed |-> f, cond |-> 0, step |-> s, addr |-> 4, mem |-> "store", val |-> 8,
                          user |-> {}, opt |-> All])) : f \in BOOLEAN, s \in {"reduce", "chase"}}
    \cup Csrs(BOOLEAN, {FALSE}, {"count", "data"}, {"load"}, {"none", "x", "y"}, {All, Plain})
    \cup Csrs(BOOLEAN, {TRUE}, {"count", "data"}, {"load", "store"}, {"none", "x"}, {All})
    \cup {Nest(p) : p \in
       [fixed : BOOLEAN, cond : {0, 8}, step : {"reduce", "chase", "tern"}, addr : {2, 4, 5},
        mem : {"store", "rmw"}, val : {8}, user : {{}}, opt : {All}]}
(* Nests for the analysis: every way to step a variable, with the options   *)
(* that fuse operations and look at outer loops, or without.                *)
Analyse == {"reduce", "incomplete-reduction", "cond-step", "store", "upgrade", "value", "fuse", "outer", "value-inner"}
Inner == Analyse \ {"outer", "fuse"}
AllSteps == {"reduce", "chase", "const", "prev", "tern"}
Params(fixed, cond, step, addr, mem, val, user, opt) ==
  [fixed : fixed, cond : cond, step : step, addr : addr, mem : mem, val : val, user : user, opt : opt]
AnalysisRegions ==
  {Nest(p) : p \in
     Params({TRUE}, {0, 5, 8}, AllSteps, {2, 3, 4, 5}, {"store", "rmw"}, {8}, {{}}, {Analyse})
       \cup Params({TRUE}, {0, 8}, {"reduce", "chase"}, {4, 5}, {"cmpxchg"}, {8}, {{}}, {Analyse})
       \cup Params({FALSE}, {0, 8}, {"reduce", "chase"}, {2, 4}, {"store"}, {8, 3}, {{}}, {Analyse})
       \cup Params({TRUE}, {0, 2}, {"chase"}, {2, 3, 5}, {"store"}, {8}, {{"no-stream"}}, {Analyse, Inner})
       \cup Params({TRUE}, {0, 5}, {"reduce", "chase", "tern"}, {2, 5}, {"rmw"}, {8, -8}, {{}}, {Inner})
       \cup Params({TRUE}, {0, 8}, {"const", "chase"}, {2, 4}, {"store"}, {8}, {{"nest=1"}, {"nest=2"}}, {Analyse})}
    \cup Csrs({FALSE}, {FALSE}, {"count", "data"}, {"load"}, {"x", "y"}, {Analyse})
MCRegions == AnalysisRegions \cup TransformRegions
NestRegions == {Triple(All)}
===============================================================================
