------------------------------ MODULE CallStack ------------------------------
(***************************************************************************)
(* What a call of a program defined function promises: the function runs   *)
(* with its arguments bound and its locals null, and a return, by whatever *)
(* way the function came to it, resumes the caller where the call was, all *)
(* the names the call bound having the values they had.                    *)
(***************************************************************************)
EXTENDS Integers, Sequences

CONSTANTS Vars, Values, Null, Functions,
          Params, Locals,       \* the names a function binds, a sequence each
          Tracing               \* the place a trace calls its function from

VARIABLES here,     \* where the program is: a code block and a place in it
          vars,     \* the value of each variable
          acts      \* the calls that have not returned: where each is resumed,
                    \* and what the names had that it bound

state == <<here, vars, acts>>

Elements(s) == {s[i] : i \in DOMAIN s}
Binds(f)    == {f} \cup Elements(Params[f]) \cup Elements(Locals[f])

\* The place h with n operands more, or less.
Operands(h, n) == [h EXCEPT !.path[Len(h.path)] = @ + n]

(* A name bound twice has what it was given last: f null, then the         *)
(* parameters their arguments, then the locals null.                       *)
Bound(f, args, v) ==
    LET last == {i \in DOMAIN Params[f] : /\ Params[f][i] = v
                                          /\ \A j \in DOMAIN Params[f] : Params[f][j] = v => j <= i}
    IN  IF v \notin Binds(f) THEN vars[v]
        ELSE IF v \in Elements(Locals[f]) \/ last = {} THEN Null
        ELSE args[CHOOSE i \in last : TRUE]

Init == acts = <<>> /\ vars \in [Vars -> Values]

(* The program works in the function it is in.                             *)
Work == UNCHANGED acts /\ vars' \in [Vars -> Values]

Call(f) ==
    \E args \in [DOMAIN Params[f] -> Values],
       to \in {Operands(here, -Len(Params[f])), Tracing} :
        /\ acts' = Append(acts, [to  |-> to,
                                 had |-> [v \in Binds(f) |-> vars[v]]])
        /\ vars' = [v \in Vars |-> Bound(f, args, v)]

(* The caller goes on with the value of the call, or the call has failed.  *)
Return ==
    LET act == acts[Len(acts)] IN
    /\ acts # <<>>
    /\ acts' = SubSeq(acts, 1, Len(acts) - 1)
    /\ vars' = [v \in Vars |-> IF v \in DOMAIN act.had THEN act.had[v] ELSE vars[v]]
    /\ here' \in {act.to, Operands(act.to, 1)}

Next == Work \/ Return \/ \E f \in Functions : Call(f)

Spec == Init /\ [][Next]_state
=============================================================================
