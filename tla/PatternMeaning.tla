---------------------------- MODULE PatternMeaning ----------------------------
(***************************************************************************)
(* What a pattern means: the search, written as one, with nothing but the  *)
(* pattern, the subject and the cursor.  A pattern is a record with its    *)
(* operator; todo is the patterns still to be matched one after another.   *)
(* A search ends with an outcome, and has made immediate assignments, log, *)
(* and noted conditional ones, dots.                                       *)
(***************************************************************************)
EXTENDS PatternNodes, FiniteSets

(* The nodes an expression builds.                                         *)
RECURSIVE GraphOf(_)
GraphOf(p) ==
    CASE p.op = "str" -> IF Len(p.s) = 0 THEN NullPattern
                         ELSE IF Len(p.s) = 1 THEN pbild("p_any", {p.s[1]})
                         ELSE pbild("p_str", p.s)
      [] p.op = "chars" -> pbild(p.code, p.cs)
      [] p.op = "bkx" -> s_bkx(p.cs)
      [] p.op = "int" -> pbild(p.code, p.n)
      [] p.op = "none" -> pbild(p.code, 0)
      [] p.op = "var" -> pbild(p.code, p.v)
      [] p.op = "cat" -> pconc(GraphOf(p.l), GraphOf(p.r))
      [] p.op = "alt" -> o_alt(GraphOf(p.l), GraphOf(p.r))
      [] p.op = "ima" -> o_ima(GraphOf(p.l), p.v)
      [] p.op = "pas" -> o_pas(GraphOf(p.l), p.v)
      [] p.op = "arbno" -> s_abn(GraphOf(p.l))
      [] p.op = "fence" -> s_fnc(GraphOf(p.l))

-----------------------------------------------------------------------------
(* The cursors after c that p may go on from, in the order it tries them,  *)
(* when p does nothing but match characters of s.                          *)
Upward(S, last) == SelectSeq([i \in 1 .. last + 1 |-> i - 1], LAMBDA c : c \in S)

All(s, c, d, cs) == \A i \in c + 1 .. d : s[i] \in cs
None(s, c, d, cs) == \A i \in c + 1 .. d : s[i] \notin cs

Balance(s, c, d) == Cardinality({i \in c + 1 .. d : s[i] = "("})
                    - Cardinality({i \in c + 1 .. d : s[i] = ")"})

Places(p, s, c) ==
    LET len == Len(s)
        code == IF p.op = "str" THEN "str" ELSE p.code
        place(d) ==
            CASE code = "str" -> d = c + Len(p.s) /\ SubSeq(s, c + 1, d) = p.s
              [] code = "p_len" -> d = c + p.n
              [] code = "p_tab" -> d = p.n
              [] code = "p_rtb" -> d = len - p.n
              [] code = "p_rem" -> d = len
              [] code = "p_pos" -> d = c /\ d = p.n
              [] code = "p_rps" -> d = c /\ d = len - p.n
              [] code = "p_any" -> d = c + 1 /\ s[d] \in p.cs
              [] code = "p_nay" -> d = c + 1 /\ s[d] \notin p.cs
              [] code = "p_spn" -> /\ d > c /\ All(s, c, d, p.cs)
                                   /\ d = len \/ s[d + 1] \notin p.cs
              [] code = "p_brk" -> /\ d < len /\ None(s, c, d, p.cs)
                                   /\ s[d + 1] \in p.cs
              [] code = "bkx" -> d < len /\ s[d + 1] \in p.cs
              [] code = "p_arb" -> TRUE
              [] code = "p_bal" -> /\ d > c /\ Balance(s, c, d) = 0
                                   /\ \A e \in c .. d : Balance(s, c, e) >= 0
              [] code = "p_fal" -> FALSE
    IN  Upward({d \in c .. len : place(d)}, len)

-----------------------------------------------------------------------------
Outcome(out, to, dots, log) == [out |-> out, to |-> to, dots |-> dots, log |-> log]

No == Outcome("no", 0, <<>>, <<>>)

(* b, tried after a has failed.                                            *)
Else(a, b) == IF a.out = "no" THEN [b EXCEPT !.log = a.log \o @] ELSE a

With(log, a) == [a EXCEPT !.log = log \o @]

(* values: the patterns and strings variables hold; cannot: the variables  *)
(* that cannot be assigned.                                                *)
RECURSIVE Search(_, _, _, _, _, _)
Search(todo, c, dots, s, values, cannot) ==
    IF todo = <<>> THEN Outcome("yes", c, dots, <<>>)
    ELSE
    LET p == Head(todo)
        rest == Tail(todo)
        go(first, d) == Search(first \o rest, d, dots, s, values, cannot)
        try[i \in Nat] ==     \* the places of p from the ith on
            LET places == Places(p, s, c)
            IN  IF i > Len(places) THEN No ELSE Else(go(<<>>, places[i]), try[i + 1])
        done(op, pattern, v) == [op |-> op, from |-> c, of |-> pattern, v |-> v]
    IN
    CASE p.op = "alt" -> Else(go(<<p.l>>, c), go(<<p.r>>, c))
      [] p.op = "cat" -> go(<<p.l, p.r>>, c)
      [] p.op = "ima" -> go(<<p.l, done("assign", p, p.v)>>, c)
      [] p.op = "assign" ->
            IF p.v \in cannot THEN No ELSE With(<<<<p.v, p.from, c>>>>, go(<<>>, c))
      [] p.op = "pas" -> go(<<p.l, done("note", p, p.v)>>, c)
      [] p.op = "note" ->
            Search(rest, c, Append(dots, <<p.v, p.from, c>>), s, values, cannot)
      [] p.op = "arbno" -> Else(go(<<>>, c), go(<<p.l, done("again", p, "")>>, c))
      [] p.op = "again" -> go(IF c = p.from THEN <<>> ELSE <<p.of>>, c)
      [] p.op = "fence" ->
            LET once == Search(<<p.l>>, c, dots, s, values, cannot)
            IN  IF once.out = "yes"
                THEN With(once.log, Search(rest, once.to, once.dots, s, values, cannot))
                ELSE once
      [] p.op = "var" /\ p.code = "p_cas" ->
            IF p.v \in cannot THEN No ELSE With(<<<<p.v, c, -1>>>>, go(<<>>, c))
      [] p.op = "var" /\ p.code = "p_exa" ->
            IF p.v \in DOMAIN values THEN go(<<values[p.v]>>, c) ELSE No
      [] p.op = "none" /\ p.code = "p_abo" -> Outcome("abort", 0, <<>>, <<>>)
      [] p.op = "none" /\ p.code = "p_fen" ->
            Else(go(<<>>, c), Outcome("abort", 0, <<>>, <<>>))
      [] p.op = "none" /\ p.code = "p_suc" ->
            Else(go(<<>>, c), Outcome("forever", 0, <<>>, <<>>))
      [] OTHER -> try[1]

RECURSIVE From(_, _, _, _, _, _)
From(a, p, s, anchored, values, cannot) ==
    LET here == Search(<<p>>, a, <<>>, s, values, cannot)
        matched == [from |-> a, to |-> here.to, out |-> here.out,
                    dots |-> here.dots, log |-> here.log]
    IN  IF here.out # "no" \/ anchored \/ a = Len(s) THEN matched
        ELSE With(here.log, From(a + 1, p, s, anchored, values, cannot))

(* How a match ends, and all its assignments: the conditional ones, in the *)
(* order their patterns ended, until one fails, and the match with it.     *)
Meaning(p, s, anchored, values, cannot) ==
    LET m == From(0, p, s, anchored, values, cannot)
        bad == {i \in DOMAIN m.dots : m.dots[i][1] \in cannot}
        made == SelectSeq([i \in DOMAIN m.dots |-> <<i, m.dots[i]>>],
                          LAMBDA d : \A i \in bad : d[1] < i)
    IN  IF m.out = "yes"
        THEN [result |-> IF bad = {} THEN <<m.from, m.to>> ELSE <<>>,
              log |-> m.log \o [i \in DOMAIN made |-> made[i][2]]]
        ELSE [result |-> IF m.out = "forever" THEN <<-2>> ELSE <<>>, log |-> m.log]
=============================================================================
