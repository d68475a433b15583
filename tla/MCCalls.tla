------------------------------- MODULE MCCalls -------------------------------
(* A function f(x) with a local x, a name being bound twice, and programs  *)
(* that do, each, some of what there is to do: evaluate and negate within  *)
(* calls of calls; trap errors, and trap them twice; go on after errors    *)
(* within brackets; pass two values through two calls; call trace          *)
(* functions within evaluations.                                           *)
EXTENDS Calls

CONSTANTS s, c, e

Parameters == [f |-> <<"x">>]
LocalNames == [f |-> <<"x">>]

Plain == [values |-> {Null}, exprs |-> {}, traps |-> {}, kverl |-> 1, trace |-> FALSE,
          brackets |-> 0, level |-> 1, stack |-> 17]
Nesting  == [Plain EXCEPT !.exprs = {e}, !.brackets = 1, !.level = 2, !.stack = 22]
Trapping == [Plain EXCEPT !.exprs = {e}, !.traps = {s, c}, !.kverl = 2]
Continuing == [Plain EXCEPT !.traps = {s}, !.brackets = 1, !.stack = 14]
Naming   == [Plain EXCEPT !.values = {Null, "1"}, !.kverl = 0, !.level = 2, !.stack = 22]
Tracing  == [Plain EXCEPT !.exprs = {e}, !.traps = {s}, !.trace = TRUE, !.stack = 28]
All == {Nesting, Trapping, Continuing, Naming, Tracing}

(* The state constraints: the runs of the properties look no further than  *)
(* the first of faults, each of the others at one of them.                 *)
NoFault           == faults = {}
OnlyUnconvertible == faults \subseteq {"unconvertible"}
OnlyBody          == faults \subseteq {"body"}
OnlyEntry         == faults \subseteq {"entry"}
OnlyOffset        == faults \subseteq {"offset"}
OnlyTrace         == faults \subseteq {"trace"}

PlainOnly      == {Plain}
TrappingOnly   == {Trapping}
TracingOnly    == {Tracing}
=============================================================================
