------------------------------- MODULE MCPattern -------------------------------
(***************************************************************************)
(* Small patterns of every kind, alone, one after another, one inside      *)
(* another and as alternatives, matched with short strings.                *)
(***************************************************************************)
EXTENDS PatternMatch, PatternMeaning

Str(s) == [op |-> "str", s |-> s]
Plain(code) == [op |-> "none", code |-> code]
Number(code, n) == [op |-> "int", code |-> code, n |-> n]
Chars(code, cs) == [op |-> "chars", code |-> code, cs |-> cs]
Cat(l, r) == [op |-> "cat", l |-> l, r |-> r]
Alt(l, r) == [op |-> "alt", l |-> l, r |-> r]
Variable(code, v) == [op |-> "var", code |-> code, v |-> v]
Ima(l, v) == [op |-> "ima", l |-> l, v |-> v]
Pas(l, v) == [op |-> "pas", l |-> l, v |-> v]
Arbno(l) == [op |-> "arbno", l |-> l]
Fence(l) == [op |-> "fence", l |-> l]

a == Str(<<"a">>)
b == Str(<<"b">>)
Arb == Plain("p_arb")

Scanning == <<
    Str(<<>>), Str(<<"a", "b">>), Number("p_len", 2), Number("p_tab", 1), Number("p_rtb", 1),
    Number("p_pos", 1), Number("p_rps", 1), Number("p_pos", 5), Number("p_rps", 5),
    Chars("p_any", {"a"}), Chars("p_nay", {"a"}), Chars("p_spn", {"a"}),
    Chars("p_brk", {"b"}), [op |-> "bkx", code |-> "bkx", cs |-> {"b"}],
    Plain("p_rem"), Arb, Plain("p_bal"), Plain("p_fal")>>

Controls == <<
    Plain("p_abo"), Plain("p_fen"), Variable("p_cas", "v"), Variable("p_cas", "f"),
    Variable("p_exa", "P"), Variable("p_exa", "S"), Variable("p_exa", "none")>>

Basic == <<
    a, Str(<<>>), Arb, Alt(a, Str(<<"a", "b">>)), Alt(a, Str(<<>>)),
    Plain("p_fen"), Variable("p_exa", "P")>>

(* op(p, q) for all p of ps and q of qs                                    *)
All2(op(_, _), ps, qs) ==
    [i \in 1 .. Len(ps) * Len(qs) |->
        op(ps[1 + (i - 1) \div Len(qs)], qs[1 + ((i - 1) % Len(qs))])] \o <<>>

Wrap(p, how) ==
    CASE how = 1 -> Ima(p, "v") [] how = 2 -> Ima(p, "f") [] how = 3 -> Pas(p, "v")
      [] how = 4 -> Pas(p, "f") [] how = 5 -> Arbno(p)    [] how = 6 -> Fence(p)

Wrapped(ps) == All2(Wrap, ps, <<1, 2, 3, 4, 5, 6>>)

Level1 == Scanning \o Controls \o Wrapped(Basic)

AltAfterFail(p, q) == Alt(Cat(p, Plain("p_fal")), q)

LeftRecursive == Variable("p_exa", "L")

MCExpressions ==
    <<LeftRecursive, Cat(Plain("p_suc"), b)>> \o Level1
    \o All2(Cat, Level1, <<b, Arb, Plain("p_fal")>>)
    \o All2(Cat, Wrapped(Basic), Wrapped(Basic))
    \o All2(AltAfterFail, Wrapped(Basic), Wrapped(<<b, Arb>>))
    \o Wrapped(All2(Cat, Wrapped(Basic), <<b, Arb>>))
    \o All2(Cat, Wrapped(Wrapped(Basic)), <<b>>)

MCPatterns == DOMAIN MCExpressions
Endless == 2

(* P = 'a' *P | ARB $ w, L = *L 'a', Q = POS(1) 'b' and S = 'a'.           *)
P == Alt(Cat(a, Variable("p_exa", "P")), Ima(Arb, "w"))
PGraph == GraphOf(P)
LGraph == Copy(GraphOf(Cat(LeftRecursive, a)), Len(PGraph.nodes), ndnth)
QGraph == Copy(GraphOf(Cat(Number("p_pos", 1), b)), Len(PGraph.nodes) + Len(LGraph.nodes), ndnth)
MCVarNodes == PGraph.nodes \o LGraph.nodes \o QGraph.nodes
MCPatternVars == [P |-> NodeAt(6), L |-> NodeAt(8), Q |-> NodeAt(10)]

ASSUME MCPatternVars = [P |-> PGraph.first, L |-> LGraph.first, Q |-> QGraph.first]

MCStringVars == [S |-> <<"a">>]
Values == [P |-> P, S |-> a]
Built(p) == Copy(GraphOf(p), Len(MCVarNodes), ndnth)
MCGraph == [p \in MCPatterns |-> Built(MCExpressions[p])]
MCSubjects == {<<"a", "a", "b">>, <<"b", "a">>, <<>>, <<"(", "a", ")", "b">>}

(* The value of Q, matched as it is, and *Q 'a'.                           *)
PosPatterns == {1, 2}
PosGraph == <<[first |-> MCPatternVars.Q, nodes |-> <<>>], Built(Cat(Variable("p_exa", "Q"), a))>>
PosSubjects == {<<"a", "a">>}

(* A match that ends, ends as the search defines it, and has made its      *)
(* assignments in that order, before it failed too.  (Patterns that call   *)
(* themselves before they move on, and some that nest deeply, end with     *)
(* stack overflow instead.)                                                *)
Promise ==
    pc = "program" /\ matches > 0 /\ result # Overflow =>
        [result |-> result, log |-> log]
            = Meaning(MCExpressions[pattern], r_pms, kvanc, Values, NoAssign)

(* Every match ends, but for SUCCEED before what cannot match: ARBNO of a  *)
(* pattern that matches the null string does not loop.                     *)
Ends == pc # "program" /\ pattern # Endless ~> pc = "program"
=============================================================================
