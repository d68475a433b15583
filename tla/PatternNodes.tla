----------------------------- MODULE PatternNodes -----------------------------
(***************************************************************************)
(* Patterns as the operators and functions of the language build them      *)
(* (src/sbl.min: pbild, pconc, o_alt, o_cas, o_ima, o_pas, s_abn, s_bkx,   *)
(* s_fnc): graphs of nodes.  A pattern is its first node and all its nodes,*)
(* in the order they are built; the node that ends it, ndnth, is shared.   *)
(*                                                                         *)
(* A node is a negative number, so that it is not mistaken for a cursor or *)
(* for a place in the stack; those down to LastDummy are the nodes of the  *)
(* matcher's own.                                                          *)
(***************************************************************************)
EXTENDS Integers, Sequences

LastDummy == -20

ndnth == -1

NodeAt(i) == LastDummy - i

Node(pcode, pthen, parm1) == [pcode |-> pcode, pthen |-> pthen, parm1 |-> parm1]

NullPattern == [first |-> ndnth, nodes |-> <<>>]

pbild(pcode, parm1) == [first |-> NodeAt(1), nodes |-> <<Node(pcode, ndnth, parm1)>>]

-----------------------------------------------------------------------------
CopySuccessors(g, k, nothen) ==   \* mutant: the alternatives of the old nodes
    LET copy(n) == IF n = ndnth THEN nothen ELSE n - k
    IN  [first |-> copy(g.first),
         nodes |-> [i \in DOMAIN g.nodes |->
                       LET node == g.nodes[i]
                       IN  Node(node.pcode, copy(node.pthen),
                                IF node.pcode = "p_alt" /\ node.parm1 # ndnth
                                THEN node.parm1 - k ELSE node.parm1)]]

(* The nodes of g, built after k others, with another node for ndnth.      *)
Copy(g, k, nothen) ==
    LET copy(n) == IF n = ndnth THEN nothen ELSE n - k
    IN  [first |-> copy(g.first),
         nodes |-> [i \in DOMAIN g.nodes |->
                       LET node == g.nodes[i]
                       IN  Node(node.pcode, copy(node.pthen),
                                IF node.pcode = "p_alt" THEN copy(node.parm1)
                                ELSE node.parm1)]]

(* A node before g.                                                        *)
Before(pcode, parm1, g) ==
    [first |-> NodeAt(Len(g.nodes) + 1),
     nodes |-> Append(g.nodes, Node(pcode, g.first, parm1))]

(* The left pattern is copied, ndnth becoming the right one.               *)
pconc(left, right) ==
    LET copy == Copy(left, Len(right.nodes), right.first)
    IN  [first |-> copy.first, nodes |-> right.nodes \o copy.nodes]

o_alt(left, right) ==
    LET other == Copy(right, Len(left.nodes), ndnth)
    IN  Before("p_alt", other.first,
               [first |-> left.first, nodes |-> left.nodes \o other.nodes])

o_ima(pattern, var) == pconc(Before("p_ima", 0, pattern), pbild("p_imc", var))

o_pas(pattern, var) == pconc(Before("p_paa", 0, pattern), pbild("p_pac", var))

s_abn(pattern) ==
    LET loop == [first |-> NodeAt(2),
                 nodes |-> <<Node("p_alt", ndnth, ndnth), Node("p_abc", NodeAt(1), 0)>>]
        argument == Before("p_aba", 0, pconc(pattern, loop))
    IN  [first |-> NodeAt(1),
         nodes |-> [argument.nodes EXCEPT ![1].parm1 = argument.first]]

s_bkx(chars) ==
    [first |-> NodeAt(1),
     nodes |-> <<Node("p_brk", NodeAt(3), chars), Node("p_bkx", NodeAt(1), 0),
                 Node("p_alt", ndnth, NodeAt(2))>>]

s_fnc(pattern) == Before("p_fna", 0, pconc(pattern, pbild("p_fnc", 0)))
=============================================================================
