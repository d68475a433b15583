----------------------------- MODULE PatternMatch -----------------------------
(***************************************************************************)
(* The pattern matcher (src/sbl.min: match, the routines p_xxx, succp,     *)
(* failp, flpop, asinp and evalp): a machine that goes from node to node   *)
(* with a cursor, and keeps on the main stack what to do on failure.       *)
(*                                                                         *)
(* An entry of this history stack is a cursor and, above it, the node to   *)
(* go to; a compound pattern saves there the base pmhbs of the level       *)
(* around it, and starts a level of its own.  Words stay in memory when    *)
(* they are popped; those that procedures called by a routine leave beyond *)
(* the stack are left out.  The stack grows from low addresses to high     *)
(* ones here, the other way than in the code.                              *)
(***************************************************************************)
EXTENDS PatternNodes, FiniteSets

CONSTANTS
    Patterns,     \* the patterns that are matched
    Graph,        \* their nodes, built after VarNodes
    Subjects,     \* the strings they are matched with
    PatternVars,  \* variables with a pattern: name -> its first node
    VarNodes,     \* the nodes of these, a sequence
    StringVars,   \* variables with a string: name -> string
    NoAssign,     \* variables whose assignment fails
    Bases,        \* how many words may be on the stack when a match starts
    MaxMatches,   \* bound on the number of matches
    StackSize,    \* words in the stack, up to the check ...
    Slack         \* ... and beyond it

ASSUME PatternAssumption ==
    /\ DOMAIN Graph = Patterns
    /\ \A s \in Subjects : s \in Seq(STRING)
    /\ \A name \in DOMAIN PatternVars : LastDummy - PatternVars[name] \in DOMAIN VarNodes
    /\ \A b \in Bases : b \in Nat \ {0}   \* pmhbs is more than a match type code
    /\ MaxMatches \in Nat /\ StackSize \in Nat /\ Slack \in Nat \ {0}

VARIABLES
    mem, xs,      \* the stack, and how much of it is in use
    pmhbs,        \* base of the level of the history stack
    xr, wb,       \* the node, and the cursor
    nodes,        \* the nodes of variables and of the pattern
    r_pms, pmssl, \* the subject and its length; at the end, the final cursor
    kvanc,        \* is the match anchored?
    pmdfl,        \* are there conditional assignments?
    xt,           \* how far p_nth has looked for them
    pc,           \* "program", "node" at xr, or "dots" in p_nth
    base,         \* history: where the match started on the stack,
    pattern,      \*     its pattern,
    log,          \*     its assignments,
    result,       \*     how it ended: <<from, to>>, Failed or Overflow,
    matches       \*     and how many there were

subject == <<nodes, r_pms, kvanc, base, pattern, matches>>
vars == <<mem, xs, pmhbs, xr, wb, subject, pmssl, pmdfl, xt, pc, log, result>>

Failed == <<>>
Overflow == <<-1>>
StatementMatch == 2   \* the match type code of o_pms

nduna == -2
ndabo == -3
ndarc == -4
ndabb == -5
ndabd == -6
ndexb == -7
ndexc == -8
ndfnb == -9
ndfnd == -10
ndimb == -11
ndimd == -12
ndpab == -13
ndpad == -14

NodeOf(n) == nodes[LastDummy - n]
Pcode(n) == IF n < LastDummy THEN NodeOf(n).pcode ELSE "dummy"
Pthen == NodeOf(xr).pthen
parm1 == NodeOf(xr).parm1

Init ==
    /\ mem = [a \in 1 .. StackSize + Slack |-> 0] /\ xs = 0
    /\ pmhbs = 0 /\ xr = ndnth /\ wb = 0 /\ xt = 0
    /\ nodes = VarNodes /\ r_pms = <<>> /\ pmssl = 0 /\ kvanc = FALSE /\ pmdfl = FALSE
    /\ pc = "program"
    /\ base = 0 /\ pattern = CHOOSE p \in Patterns : TRUE
    /\ log = <<>> /\ result = Failed /\ matches = 0

-----------------------------------------------------------------------------
(* words on a stack that had top of them                                   *)
Written(top, words) ==
    SubSeq(mem, 1, top) \o words \o SubSeq(mem, top + Len(words) + 1, Len(mem))

Stacked(top, words) == mem' = Written(top, words) /\ xs' = top + Len(words)

Push(words) == Stacked(xs, words)

Succp(cursor) == xr' = Pthen /\ wb' = cursor

(* Failp(xs - 2) is flpop.                                                 *)
Failp(top) ==
    /\ xr' = mem[top] /\ wb' = mem[top - 1] /\ xs' = top - 2
    /\ mem' = mem

End(how) ==
    /\ pc' = "program" /\ result' = how
    /\ xs' = base /\ mem' = mem
    /\ pmhbs' = 0 /\ xr' = ndnth /\ wb' = 0 /\ xt' = 0 /\ pmssl' = 0 /\ pmdfl' = FALSE

Exfal == End(Failed) /\ log' = log

At(pcode) == pc = "node" /\ Pcode(xr) = pcode
AtDummy(n) == pc = "node" /\ xr = n

Quiet == UNCHANGED <<subject, pmssl, pmdfl, xt, pc, log, result>>
Flat == Quiet /\ pmhbs' = pmhbs

(* match *)
match(p, s, anchored, b) ==
    /\ pc' = "node"
    /\ Stacked(b, <<StatementMatch, 0>>
                  \o IF anchored THEN <<0, ndabo>> ELSE <<Graph[p].first, nduna>>)
    /\ xr' = Graph[p].first /\ nodes' = VarNodes \o Graph[p].nodes
    /\ pmhbs' = b + 2
    /\ r_pms' = s /\ pmssl' = Len(s) /\ kvanc' = anchored /\ pmdfl' = FALSE
    /\ wb' = 0 /\ xt' = 0
    /\ base' = b /\ pattern' = p /\ log' = <<>> /\ result' = Failed
    /\ matches' = matches + 1

-----------------------------------------------------------------------------
(* Nodes that match characters and leave the stack alone: where the cursor *)
(* may be after them, one place or none.                                   *)
Char(c) == r_pms[c + 1]
Left(c) == c .. pmssl - 1

Earliest(S) == {c \in S : \A d \in S : c <= d}

p_any(c) == {d \in {c + 1} : c # pmssl /\ Char(c) \in parm1}
p_nay(c) == {d \in {c + 1} : c # pmssl /\ Char(c) \notin parm1}
p_brk(c) == Earliest({d \in Left(c) : Char(d) \in parm1})
p_spn(c) == Earliest({d \in Left(c) : Char(d) \notin parm1} \cup {pmssl}) \ {c}
p_len(c) == {d \in {c + parm1} : d <= pmssl}
p_tab(c) == {d \in {parm1} : c <= d /\ d <= pmssl}
p_rtb(c) == {d \in {pmssl - parm1} : d >= 0 /\ d >= c}
pstr1(c, string) ==
    {d \in {c + Len(string)} : d <= pmssl /\ SubSeq(r_pms, c + 1, d) = string}

Scanned(c) ==
    CASE Pcode(xr) = "p_any" -> p_any(c)   [] Pcode(xr) = "p_nay" -> p_nay(c)
      [] Pcode(xr) = "p_brk" -> p_brk(c)   [] Pcode(xr) = "p_spn" -> p_spn(c)
      [] Pcode(xr) = "p_len" -> p_len(c)   [] Pcode(xr) = "p_tab" -> p_tab(c)
      [] Pcode(xr) = "p_rtb" -> p_rtb(c)   [] Pcode(xr) = "p_rem" -> {pmssl}
      [] Pcode(xr) = "p_str" -> pstr1(c, parm1)
      [] Pcode(xr) = "p_bkx" -> {c + 1}    [] Pcode(xr) = "p_fal" -> {}

Scanners == {"p_any", "p_nay", "p_brk", "p_spn", "p_len", "p_tab", "p_rtb", "p_rem",
             "p_str", "p_bkx", "p_fal"}

SuccpOrFailp(cursors) ==
    \/ \E c \in cursors : Succp(c) /\ UNCHANGED <<mem, xs>>
    \/ cursors = {} /\ Failp(xs)

Scan ==
    /\ pc = "node" /\ Pcode(xr) \in Scanners
    /\ SuccpOrFailp(Scanned(wb))
    /\ Flat

(* p_pos and p_rps.  As the first node of an unanchored match they move    *)
(* the cursor, and the anchor, straight to where they match.               *)
FirstNode == mem[pmhbs + 1] = xr /\ mem[pmhbs + 2] = nduna

Wanted == IF Pcode(xr) = "p_pos" THEN parm1 ELSE pmssl - parm1

pos ==
    /\ At("p_pos") \/ At("p_rps")
    /\ CASE wb = Wanted -> Succp(wb) /\ UNCHANGED <<mem, xs>> /\ Flat
         [] wb # Wanted /\ (wb # 0 \/ ~FirstNode) -> Failp(xs) /\ Flat
         [] wb # Wanted /\ wb = 0 /\ FirstNode ->
              IF Wanted > pmssl
              THEN Exfal /\ UNCHANGED subject
              ELSE IF Wanted < 0
              THEN Failp(xs) /\ Flat
              ELSE /\ mem' = [mem EXCEPT ![pmhbs] = Wanted]
                   /\ Succp(Wanted) /\ UNCHANGED xs /\ Flat

(* The anchor moves on by one character.                                   *)
p_una ==
    /\ AtDummy(nduna)
    /\ IF mem[xs] = pmssl
       THEN Exfal /\ UNCHANGED subject
       ELSE /\ Stacked(xs - 1, <<mem[xs] + 1, wb, nduna>>)
            /\ xr' = wb /\ wb' = mem[xs] + 1
            /\ Flat

-----------------------------------------------------------------------------
(* Nodes that leave an alternative on the stack.                           *)
Chk(words) == xs + Len(words) <= StackSize

StackOverflow == End(Overflow) /\ log' = log /\ UNCHANGED subject

p_alt ==
    /\ At("p_alt")
    /\ IF Chk(<<wb, parm1>>)
       THEN Push(<<wb, parm1>>) /\ Succp(wb) /\ Flat
       ELSE StackOverflow

p_arb ==
    /\ At("p_arb")
    /\ Push(<<wb, Pthen, wb, ndarc>>) /\ Succp(wb)
    /\ Flat

p_arc ==
    /\ AtDummy(ndarc)
    /\ IF wb = pmssl
       THEN Failp(xs - 2)
       ELSE Push(<<wb + 1, ndarc>>) /\ xr' = mem[xs] /\ wb' = wb + 1
    /\ Flat

(* The shortest balanced string from c on.                                 *)
Balanced(c) ==
    LET level[d \in c .. pmssl] ==
            IF d = c THEN 0
            ELSE LET before == level[d - 1]
                 IN  CASE Char(d - 1) = "(" -> before + 1
                       [] Char(d - 1) = ")" -> before - 1
                       [] OTHER -> before
        ends == Earliest({d \in c + 1 .. pmssl : level[d] = 0})
    IN  {d \in ends : \A e \in c .. d : level[e] >= 0}

p_bal ==
    /\ At("p_bal")
    /\ \/ \E c \in Balanced(wb) : Push(<<c, xr>>) /\ Succp(c)
       \/ Balanced(wb) = {} /\ Failp(xs)
    /\ Flat

p_suc ==
    /\ At("p_suc")
    /\ Push(<<wb, xr>>) /\ Succp(wb)
    /\ Flat

p_fen ==
    /\ At("p_fen")
    /\ Push(<<wb, ndabo>>) /\ Succp(wb)
    /\ Flat

p_abo == (At("p_abo") \/ AtDummy(ndabo)) /\ Exfal /\ UNCHANGED subject

-----------------------------------------------------------------------------
(* Compound patterns.  A node before the argument stacks the old base and  *)
(* starts a level; one after it goes back to the level around, and leaves  *)
(* a way back into the argument if that has alternatives left.             *)
Inner(words, dummy) ==
    /\ Push(words \o <<pmhbs, dummy>>)
    /\ pmhbs' = xs'
    /\ Quiet

OuterStays == pmhbs   \* mutant: pmhbs is not restored

Outer == mem[pmhbs - 1]

(* Back to the level around.  The size words stacked before the argument   *)
(* are taken off if it has left no alternatives.                           *)
Remains(size, dummy) ==
    IF pmhbs = xs THEN [top |-> xs - size, words |-> <<>>]
    ELSE [top |-> xs, words |-> <<pmhbs, dummy>>]

Leave(size, dummy) ==
    /\ Stacked(Remains(size, dummy).top, Remains(size, dummy).words)
    /\ pmhbs' = Outer

(* Into the argument, or back into it for another alternative.             *)
p_ima == At("p_ima") /\ Inner(<<wb, xr>>, ndimb) /\ Succp(wb)
p_aba == At("p_aba") /\ Inner(<<wb, xr>>, ndabb) /\ Succp(wb)
p_fna == At("p_fna") /\ Inner(<<>>, ndfnb) /\ Succp(wb)

(* p_imd, p_abd, p_exc *)
Reenter ==
    /\ AtDummy(ndimd) \/ AtDummy(ndabd) \/ AtDummy(ndexc)
    /\ pmhbs' = wb /\ Failp(xs)
    /\ Quiet

(* p_imb, p_abb, p_exb: the argument has no alternatives left.             *)
GiveUp ==
    /\ AtDummy(ndimb) \/ AtDummy(ndabb) \/ AtDummy(ndexb)
    /\ pmhbs' = wb /\ Failp(xs - 2)
    /\ Quiet

p_fnb == AtDummy(ndfnb) /\ pmhbs' = wb /\ Failp(xs) /\ Quiet

(* Past all the alternatives of the argument.                              *)
p_fnd == AtDummy(ndfnd) /\ Failp(wb - 2) /\ Flat

p_fnc == At("p_fnc") /\ Leave(2, ndfnd) /\ Succp(wb) /\ Quiet

AgainAlways(from) == TRUE   \* mutant: null strings go round for ever

Again(from) == wb # from

(* ARBNO tries its argument again unless that has matched the null string. *)
p_abc ==
    /\ At("p_abc")
    /\ Leave(4, ndabd)
    /\ wb' = wb
    /\ xr' = IF Again(mem[pmhbs - 3]) THEN Pthen ELSE NodeOf(Pthen).pthen
    /\ Quiet

Assigned(var, from, to) == log' = Append(log, <<var, from, to>>)

p_imc ==
    /\ At("p_imc")
    /\ LET stack == Remains(4, ndimd)
           top == stack.top + Len(stack.words)
       IN  /\ mem' = Written(stack.top, stack.words \o <<wb, xr>>)
           /\ IF parm1 \notin NoAssign
              THEN Succp(wb) /\ xs' = top /\ Assigned(parm1, mem[pmhbs - 3], wb)
              ELSE xr' = mem'[top] /\ wb' = mem'[top - 1] /\ xs' = top - 2 /\ log' = log
    /\ pmhbs' = Outer
    /\ UNCHANGED <<subject, pmssl, pmdfl, xt, pc, result>>

p_cas ==
    /\ At("p_cas")
    /\ IF parm1 \notin NoAssign
       THEN Succp(wb) /\ Assigned(parm1, wb, -1) /\ UNCHANGED <<mem, xs>>
       ELSE Failp(xs) /\ log' = log
    /\ UNCHANGED <<subject, pmhbs, pmssl, pmdfl, xt, pc, result>>

p_paa == At("p_paa") /\ Push(<<wb, ndpab>>) /\ Succp(wb) /\ Flat

p_pac ==
    /\ At("p_pac")
    /\ Push(<<wb, xr, wb, ndpad>>) /\ Succp(wb)
    /\ pmdfl' = TRUE
    /\ UNCHANGED <<subject, pmhbs, pmssl, xt, pc, log, result>>

p_pab == AtDummy(ndpab) /\ Failp(xs) /\ Flat
p_pad == AtDummy(ndpad) /\ Failp(xs - 2) /\ Flat

(* The value of the variable is a pattern, matched in a level of its own,  *)
(* a string, or not there.                                                 *)
p_exa ==
    /\ At("p_exa")
    /\ IF parm1 \in DOMAIN PatternVars
       THEN IF Chk(<<>>)
            THEN Inner(<<wb, xr>>, ndexb) /\ xr' = PatternVars[parm1] /\ wb' = wb
            ELSE StackOverflow
       ELSE /\ SuccpOrFailp(IF parm1 \in DOMAIN StringVars
                            THEN pstr1(wb, StringVars[parm1]) ELSE {})
            /\ Flat

-----------------------------------------------------------------------------
(* The end of a pattern: of one in a variable ...                          *)
EndOfExpression ==
    /\ AtDummy(ndnth)
    /\ mem[pmhbs - 1] > StatementMatch
    /\ Leave(4, ndexc)
    /\ xr' = NodeOf(mem[pmhbs - 2]).pthen /\ wb' = wb
    /\ Quiet

(* ... or of the match.  pmssl gets the final cursor, and if there are     *)
(* conditional assignments, the stack is searched for them from its base.  *)
EndOfMatch ==
    /\ AtDummy(ndnth)
    /\ mem[pmhbs - 1] <= StatementMatch
    /\ IF pmdfl
       THEN /\ pc' = "dots" /\ pmssl' = wb /\ xt' = pmhbs
            /\ UNCHANGED <<subject, mem, xs, pmhbs, xr, wb, pmdfl, log, result>>
       ELSE End(<<mem[pmhbs], wb>>) /\ UNCHANGED <<subject, log>>

AtEntry(entries) == pc = "dots" /\ xt # xs /\ mem[xt + 2] \in entries

Onward ==
    /\ xt' = xt + 2
    /\ UNCHANGED <<subject, pmhbs, xr, wb, pmssl, pmdfl, pc, result>>

(* The first cursor of an assignment is put on the stack ...               *)
DotStarts ==
    /\ AtEntry({ndpab})
    /\ IF Chk(<<mem[xt + 1]>>)
       THEN Push(<<mem[xt + 1]>>) /\ log' = log /\ Onward
       ELSE StackOverflow

(* ... until its last is met.                                              *)
Var == NodeOf(mem[xt]).parm1

DotEnds ==
    /\ AtEntry({ndpad}) /\ Var \notin NoAssign
    /\ Assigned(Var, mem[xs], mem[xt + 1])
    /\ Stacked(xs - 1, <<>>)
    /\ Onward

DotFails == AtEntry({ndpad}) /\ Var \in NoAssign /\ Exfal /\ UNCHANGED subject

OtherEntry == AtEntry(Int \ {ndpab, ndpad}) /\ Onward /\ UNCHANGED <<mem, xs, log>>

EndOfDots ==
    /\ pc = "dots" /\ xt = xs
    /\ End(<<mem[pmhbs], pmssl>>) /\ UNCHANGED <<subject, log>>

-----------------------------------------------------------------------------
Simple == Scan \/ pos \/ p_una \/ p_abo
Alternative == p_alt \/ p_arb \/ p_arc \/ p_bal \/ p_suc \/ p_fen
Compound ==
    \/ p_ima \/ p_imc \/ p_aba \/ p_abc \/ p_fna \/ p_fnb \/ p_fnc \/ p_fnd
    \/ p_paa \/ p_pab \/ p_pac \/ p_pad \/ p_cas \/ p_exa
    \/ Reenter \/ GiveUp \/ EndOfExpression
Nth == EndOfMatch \/ DotStarts \/ DotEnds \/ DotFails \/ OtherEntry \/ EndOfDots

Step == Simple \/ Alternative \/ Compound \/ Nth

Match ==
    /\ pc = "program" /\ matches < MaxMatches
    /\ \E p \in Patterns, s \in Subjects, anchored \in BOOLEAN, b \in Bases :
          match(p, s, anchored, b)

Next == Match \/ Step

Spec == Init /\ [][Next]_vars

FairSpec == Spec /\ WF_vars(Step)

-----------------------------------------------------------------------------
(* The cursor stays in the subject, and the stack in its memory, where     *)
(* what is pushed with no check for overflow has to fit in the slack.      *)
LevelDummies == {ndabb, ndabd, ndexb, ndexc, ndfnb, ndfnd, ndimb, ndimd}

TypeOK ==
    /\ mem \in Seq(Int) /\ Len(mem) = StackSize + Slack
    /\ xs \in 0 .. Len(mem) /\ pmhbs \in 0 .. Len(mem) /\ xr \in Int
    /\ xr \notin LevelDummies \cup {nduna} => wb \in 0 .. Len(r_pms)
    /\ xr \in LevelDummies => wb \in base + 2 .. xs + 2
    /\ pmssl \in 0 .. Len(r_pms)
    /\ {kvanc, pmdfl} \subseteq BOOLEAN
    /\ pc \in {"program", "node", "dots"}

(* Every routine finds pmhbs at the level it is meant for: a routine after *)
(* the argument of a compound pattern at the level its partner started,    *)
(* one that gives up the argument with just that on the stack, one that    *)
(* goes back into it at the level around, and the anchor moves when        *)
(* nothing is left; and the stack is within its memory.                    *)
Started(by) == mem[pmhbs] = by

Around(of) == mem[wb] = of /\ mem[wb - 1] = pmhbs

Nesting ==
  /\ TypeOK
  /\ pc = "node" =>
        /\ xr = nduna => xs = base + 2 /\ pmhbs = xs
        /\ xr \in {ndimb, ndabb, ndexb, ndfnb} => pmhbs = xs + 2
        /\ xr = ndimd => Around(ndimb)
        /\ xr = ndabd => Around(ndabb)
        /\ xr = ndexc => Around(ndexb)
        /\ xr = ndfnd => Around(ndfnb)
        /\ Pcode(xr) = "p_imc" => Started(ndimb)
        /\ Pcode(xr) = "p_abc" => Started(ndabb)
        /\ Pcode(xr) = "p_fnc" => Started(ndfnb)
        /\ xr = ndnth => pmhbs = base + 2 \/ Started(ndexb)

(* p_pos moves the anchor only "if it is the first pattern element,        *)
(* unanchored mode".                                                       *)
OnlyFirst ==
    [][At("p_pos") /\ xr' = Pthen /\ wb' # wb
          => xr = Graph[pattern].first /\ pmhbs = base + 2]_vars
=============================================================================
