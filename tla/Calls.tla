-------------------------------- MODULE Calls --------------------------------
(***************************************************************************)
(* The control of a running program: what is stacked when an operand is    *)
(* negated or selected, a program defined function is called (b_pfc,       *)
(* retrn) or an expression is evaluated (gtexp, evalx), and how a failure  *)
(* (exfal), an error (the error section), CONTINUE and SCONTINUE find      *)
(* their way back through it.                                              *)
(*                                                                         *)
(* The stack grows upwards here; an address of it is an index, and what    *)
(* lies above its top is lost.  The program is any sequence of code words  *)
(* the compiler could have generated.                                      *)
(***************************************************************************)
EXTENDS SequencesExt

CONSTANTS Simple, Complex, \* code blocks of statements: b_cds, b_cdc
          Exprs,           \* code blocks of expressions
          Vars, Null, Functions, Params, Locals,
          Programs         \* what the program may do: see Init

Stmts  == Simple \cup Complex
Blocks == Stmts \cup Exprs
trxdc  == "trxdc"              \* the dummy code block of trxeq
Values == UNION {p.values : p \in Programs}
None   == "none"
NoError == [blk |-> None]      \* r_cnt when there is nothing to continue

\* A program is values, expressions, statements that may be traps, and bounds.
ASSUME CallsAssumption ==
    /\ Simple \cap Complex = {} /\ Exprs \cap Stmts = {} /\ {trxdc, None} \cap Blocks = {}
    /\ Functions \subseteq Vars
    /\ Params \in [Functions -> Seq(Vars)] /\ Locals \in [Functions -> Seq(Vars)]
    /\ \A p \in Programs :
         /\ Null \in p.values /\ p.exprs \subseteq Exprs /\ p.traps \subseteq Stmts
         /\ p.trace \in BOOLEAN /\ {p.kverl, p.brackets, p.level} \subseteq Nat
         /\ p.stack \in Nat \ {0}

VARIABLES stack, flptr, flprt,
          r_cod,      \* the code block being executed
          cp,         \* the code pointer in it
          gtcef, r_gtc, stage,
          kvfnc, vars, kverl, kvert,
          kvtra,      \* is tracing on
          r_sxc,      \* the SETEXIT trap
          r_cnt,      \* what CONTINUE needs: r_cnt, stxof and stxoc
          ctl,        \* which routine has control
          prog,       \* which of Programs it is
          level,      \* history: flptr where the error was that CONTINUE would
                      \* go back to, or 0 when that level has been left
          faults      \* history: what has happened that the code is no match
                      \* for ("unconvertible", "body", "entry", "offset",
                      \* "trace", "level": see README)

regs  == <<flptr, flprt, r_cod, cp>>
comp  == <<gtcef, r_gtc, stage>>
traps == <<kverl, kvert, r_sxc, r_cnt>>
all   == <<stack, regs, comp, kvfnc, vars, traps, kvtra, ctl, prog, level, faults>>

-----------------------------------------------------------------------------
(* The words of the stack.                                                 *)
Val(v) == <<"val", v>>     \* an operand
Adr(a) == <<"adr", a>>     \* an address of the stack
Off(o) == <<"off", o>>     \* a failure offset in a code block
Blk(b) == <<"blk", b>>     \* r_cod
Cp(c)  == <<"cp", c>>      \* a code pointer relative to it
Pf(f)  == <<"pf", f>>      \* a pfblk
Other  == <<"other">>      \* anything else

(* A place in a code block is in the body of a statement or expression or  *)
(* in the failure goto of a statement; path has, for each bracket open     *)
(* there, the number of operands before it, and after the last one.        *)
Start(at) == [at |-> at, path |-> <<0>>]
Count(c)  == c.path[Len(c.path)]
Operands(c, n) == [c EXCEPT !.path[Len(c.path)] = @ + n]
Open(c)   == [c EXCEPT !.path = Append(@, 0)]
Close(c)  == [c EXCEPT !.path = Front(@)]

(* Offsets in a code block: of the cdfal field, of the call of o_gof, of   *)
(* that of o_fif after it, of exflc, of the end of a bracket.              *)
FailOffset(b) == IF b \in Complex THEN <<"gof", b>> ELSE <<"cdfal">>
IcaForgotten(o) == o
Ica(o) == CASE o[1] = "gof"   -> <<"fif", o[2]>>
            [] o[1] = "cdfal" -> <<"cdcod">>
            [] OTHER          -> <<"nowhere">>

(* Where the code at offset o of block b is: what it does, and the code    *)
(* pointer there.                                                          *)
Landing(b, o) ==
    CASE o = <<"cdfal">> /\ b \in Simple -> <<"end", Start("body")>>
      [] o = <<"gof", b>>                -> <<"gof", Start("goto")>>
      [] o = <<"fif", b>>                -> <<"error", Start("goto")>>
      [] o = <<"cdcod">> /\ b \in Stmts  -> <<"run", Start("body")>>
      [] o = <<"exflc">> /\ b \in Exprs  -> <<"fex", Start("body")>>
      [] o[1] = "bracket" /\ o[2] = b    -> <<"bracket", o[3]>>
      [] o = <<"zero">> /\ b = trxdc     -> <<"txr", Start("trace")>>
      [] OTHER                           -> <<"lost", Start("body")>>

Lands(s, b, o) ==
    /\ stack' = s /\ r_cod' = b
    /\ ctl' = Landing(b, o)[1] /\ cp' = Landing(b, o)[2]

\* The stack up to address a, and the failure offset at address a.
Cut(a) == SubSeq(stack, 1, IF a < Len(stack) THEN a ELSE Len(stack))
Offset(a) == IF a \in DOMAIN stack /\ stack[a][1] = "off" THEN stack[a][2] ELSE <<"nowhere">>

Executing == ctl = "run" /\ r_cod # trxdc

\* The step is what "fault" names, if the condition holds.
Met(fault, condition) == IF condition THEN {fault} ELSE {}
Room(n) == Len(stack) + n <= prog.stack

(* b_cds, b_cdc and stmgo: statement b is entered, fl being flptr.  The    *)
(* user may interrupt there; stmgo has then stacked stmcs.                 *)
Enter(b, s, fl) ==
    /\ flptr' = fl /\ r_cod' = b /\ cp' = Start("body")
    /\ ctl' \in {"run", "interrupt"}
    /\ stack' = [SubSeq(s, 1, fl) EXCEPT ![fl] = Off(FailOffset(b))]
                \o IF ctl' = "interrupt" THEN <<Other>> ELSE <<>>

(* A program has values, expressions, SETEXIT traps, a value of &ERRLIMIT  *)
(* and perhaps a traced variable, and bounds on the brackets it opens, on  *)
(* &FNCLEVEL and on the size of the stack.                                 *)
Init ==
    /\ prog \in Programs
    /\ vars = [v \in Vars |-> Null]
    /\ stack = <<Off(<<"cdfal">>)>> /\ flptr = 1 /\ flprt = 0 /\ r_cod \in Simple
    /\ cp = Start("body") /\ ctl = "run"
    /\ gtcef = 0 /\ r_gtc = None /\ stage = "xt"
    /\ kvfnc = 0 /\ kverl = prog.kverl /\ kvert = None /\ kvtra = prog.trace
    /\ r_sxc = None /\ r_cnt = NoError /\ level = 0 /\ faults = {}

-----------------------------------------------------------------------------
(* Operands.                                                               *)

\* A constant or the value of a variable is stacked; one at a time will do.
Operand(v) ==
    /\ Executing /\ Count(cp) = 0 /\ Room(1)
    /\ stack' = Append(stack, Val(v)) /\ cp' = Operands(cp, 1)
    /\ UNCHANGED <<flptr, flprt, r_cod, comp, kvfnc, vars, traps, ctl>>

\* o_ass: the value of the last operand is given to variable v.
Assign(v) ==
    /\ Executing /\ Count(cp) > 0
    /\ vars' = [vars EXCEPT ![v] = stack[Len(stack)][2]]
    /\ UNCHANGED <<stack, regs, comp, kvfnc, traps, ctl>>

\* The code word fails.
Fails ==
    /\ Executing
    /\ ctl' = "exfal" /\ UNCHANGED <<stack, regs, comp, kvfnc, vars, traps>>

\* The code word is in error.
Errs ==
    /\ Executing
    /\ ctl' = "error" /\ UNCHANGED <<stack, regs, comp, kvfnc, vars, traps>>

\* s_stx: SETEXIT(.b), or of the null string.
SetExit(b) ==
    /\ Executing /\ Count(cp) > 0
    /\ r_sxc' = b /\ UNCHANGED <<stack, regs, comp, kvfnc, vars, kverl, kvert, r_cnt, ctl>>

\* o_nta and o_sla: a negation or a selection is opened.
OpenBracket ==
    /\ Executing /\ Len(cp.path) <= prog.brackets /\ Room(2)
    /\ stack' = stack \o <<Adr(flptr), Off(<<"bracket", r_cod, cp>>)>>
    /\ flptr' = Len(stack) + 2 /\ cp' = Open(cp)
    /\ UNCHANGED <<flprt, r_cod, comp, kvfnc, vars, traps, ctl>>

\* o_ntb: the operand of a negation has a value.
NegateValue ==
    /\ Executing /\ Len(cp.path) > 1 /\ Count(cp) = 1
    /\ flptr' = stack[Len(stack) - 2][2]
    /\ ctl' = "exfal" /\ UNCHANGED <<stack, flprt, r_cod, cp, comp, kvfnc, vars, traps>>

\* o_slb: an alternative of a selection has a value.
Select ==
    /\ Executing /\ Len(cp.path) > 1 /\ Count(cp) = 1
    /\ flptr' = stack[Len(stack) - 2][2]
    /\ stack' = Append(Cut(Len(stack) - 3), Last(stack))
    /\ cp' = Operands(Close(cp), 1)
    /\ UNCHANGED <<flprt, r_cod, comp, kvfnc, vars, traps, ctl>>

\* o_ntc: the operand of a negation has failed.
NegateFailure ==
    /\ ctl = "bracket"
    /\ flptr' = stack[Len(stack) - 1][2]
    /\ stack' = Append(Cut(Len(stack) - 2), Val(Null))
    /\ cp' = Operands(cp, 1) /\ ctl' = "run"
    /\ UNCHANGED <<flprt, r_cod, comp, kvfnc, vars, traps>>

\* o_slc: the next alternative of a selection is tried.
NextAlternative ==
    /\ ctl = "bracket"
    /\ stack' = [stack EXCEPT ![Len(stack)] = Off(<<"bracket", r_cod, cp>>)]
    /\ cp' = Open(cp) /\ ctl' = "run"
    /\ UNCHANGED <<flptr, flprt, r_cod, comp, kvfnc, vars, traps>>

\* o_sld: the last alternative is tried.
LastAlternative ==
    /\ ctl = "bracket"
    /\ flptr' = stack[Len(stack) - 1][2] /\ stack' = Cut(Len(stack) - 2)
    /\ ctl' = "run"
    /\ UNCHANGED <<flprt, r_cod, cp, comp, kvfnc, vars, traps>>
-----------------------------------------------------------------------------
(* Program defined functions.                                              *)

(* Each name of s in turn is given its value; what they had is kept.       *)
Give(acc, p) == [now |-> [acc.now EXCEPT ![p[1]] = p[2]], had |-> Append(acc.had, acc.now[p[1]])]
Bind(s) ==
    LET bound[k \in 0 .. Len(s)] ==
            IF k = 0 THEN [now |-> vars, had |-> <<>>] ELSE Give(bound[k - 1], s[k])
    IN  bound[Len(s)]

(* b_pfc: f is called with arguments args, the stack below them being s,   *)
(* from place c of block blk where flptr was fl.  Its entry label is that  *)
(* of statement b, or is undefined.                                        *)
Invoke(f, b, undefined, s, args, blk, c, fl) ==
    LET bound == Bind(<<<<f, Null>>>>
                      \o [i \in DOMAIN args |-> <<Params[f][i], args[i][2]>>]
                      \o [i \in DOMAIN Locals[f] |-> <<Locals[f][i], Null>>])
        had   == [i \in DOMAIN bound.had |-> Val(bound.had[i])]
        frame == Tail(had) \o <<Other, had[1], Blk(blk), Cp(c),
                                Adr(flprt), Adr(fl), Pf(f), Off(<<"zero">>)>>
        pushed == s \o frame
    IN  /\ kvfnc < prog.level /\ Len(pushed) <= prog.stack
        /\ vars' = bound.now /\ flprt' = Len(pushed) /\ kvfnc' = kvfnc + 1
        /\ IF undefined
           THEN ctl' = "error" /\ stack' = pushed /\ flptr' = fl /\ r_cod' = blk /\ cp' = c
           ELSE Enter(b, pushed, Len(pushed))
        /\ UNCHANGED <<comp, traps>>

Call(f, b, undefined) ==
    LET n == Len(Params[f]) IN
    /\ Executing /\ Count(cp) >= n
    /\ Invoke(f, b, undefined, Cut(Len(stack) - n), SubSeq(stack, Len(stack) - n + 1, Len(stack)),
              r_cod, Operands(cp, -n), flptr)
    /\ faults' = faults \cup Met("entry", undefined)
    /\ UNCHANGED kvtra

(* trxeq: the code word has accessed a traced variable, and the trace      *)
(* function f is called from dummy code, trxdc, no trace being on.  It is  *)
(* given a name and a tag, as many of them as it takes.                    *)
Trace(f, b) ==
    LET frame == <<Other, Other, Other, Other, Blk(r_cod), Cp(cp), Adr(flptr), Off(<<"zero">>)>>
        args  == [i \in DOMAIN Params[f] |-> Val(Null)]
    IN  /\ Executing /\ kvtra
        /\ kvtra' = FALSE
        /\ Invoke(f, b, FALSE, stack \o frame, args, trxdc, Start("trace"),
                  Len(stack) + Len(frame))
        /\ UNCHANGED faults

(* o_txr and trxq1: the trace function has returned or failed.             *)
EndTrace ==
    /\ ctl = "txr" \/ (ctl = "run" /\ r_cod = trxdc)
    /\ kvtra' = TRUE
    /\ flptr' = stack[flptr - 1][2] /\ cp' = stack[flptr - 2][2] /\ r_cod' = stack[flptr - 3][2]
    /\ stack' = Cut(flptr - 8) /\ ctl' = "run"
    /\ UNCHANGED <<flprt, comp, kvfnc, vars, traps, faults>>

(* A statement has come to its goto.                                       *)
AtEnd ==
    \/ ctl = "end"
    \/ Executing /\ r_cod \in Stmts /\ Len(cp.path) = 1 /\ (cp.at = "goto" => Count(cp) = 1)

(* What retrn finds from flprt on: the names of the function at p, and     *)
(* where the first of the values is that they had.                         *)
Names == [f \in Functions |-> <<f>> \o Params[f] \o Locals[f]]
IsFrame(p) == p \in DOMAIN stack /\ p > 1 /\ stack[p - 1][1] = "pf"
Frame(p) ==
    LET f == stack[p - 1][2]
        n == Len(Names[f]) - 1
        first == p - 7 - n
    IN  [base |-> first - 1, flptr |-> stack[p - 2][2], flprt |-> stack[p - 3][2],
         cp |-> stack[p - 4][2], r_cod |-> stack[p - 5][2], f |-> f,
         had |-> <<stack[p - 6][2]>> \o [i \in 1 .. n |-> stack[first + i - 1][2]]]

(* The names of a frame have their values again, the last bound first.     *)
RestoredFirst(fr) ==
    LET after[k \in 0 .. Len(fr.had)] ==
            IF k = 0 THEN vars ELSE [after[k - 1] EXCEPT ![Names[fr.f][k]] = fr.had[k]]
    IN  after[Len(fr.had)]
Restored(fr) ==
    LET n == Len(fr.had)
        after[k \in 0 .. n] ==
            IF k = 0 THEN vars
            ELSE [after[k - 1] EXCEPT ![Names[fr.f][n + 1 - k]] = fr.had[n + 1 - k]]
    IN  after[n]

(* l_rtn, l_frt, l_nrt and retrn.  What is returned by NRETURN may not be  *)
(* a name, which is an error in the caller.                                *)
Return(how) ==
    /\ AtEnd
    /\ IF kvfnc = 0
       THEN ctl' = "error" /\ UNCHANGED <<stack, regs, kvfnc, vars>>
       ELSE IF ~IsFrame(flprt)
       THEN ctl' = "lost" /\ UNCHANGED <<stack, regs, kvfnc, vars>>
       ELSE LET fr == Frame(flprt) IN
            /\ flptr' = fr.flptr /\ flprt' = fr.flprt /\ r_cod' = fr.r_cod
            /\ kvfnc' = kvfnc - 1 /\ vars' = Restored(fr)
            /\ ctl' \in CASE how = "RETURN"  -> {"run"}
                          [] how = "FRETURN" -> {"exfal"}
                          [] how = "NRETURN" -> {"run", "exfal", "error"}
            /\ IF ctl' = "run"
               THEN stack' = Append(Cut(fr.base), Val(vars[fr.f])) /\ cp' = Operands(fr.cp, 1)
               ELSE stack' = Cut(fr.base) /\ cp' = fr.cp
    /\ faults' = faults
                 \cup Met("body", kvfnc # 0 /\ stage # "xt" /\ gtcef >= flprt)
                 \cup Met("trace", /\ kvfnc # 0 /\ ctl' = "error" /\ r_cod' = trxdc
                                   /\ stage # "xt" \/ r_sxc # None)
    /\ UNCHANGED <<comp, traps>>

-----------------------------------------------------------------------------
(* Compiling and evaluating while the program runs.                        *)

(* gtcef and r_gtc are set before stage leaves stgxt, and not looked at    *)
(* when it is stgxt: what they have then is left out.                      *)
Staged(st, fl, b) ==
    /\ stage' = st
    /\ gtcef' = IF st = "xt" THEN 0 ELSE fl
    /\ r_gtc' = IF st = "xt" THEN None ELSE b

(* gtcod and gtexp, the stage while they compile being st: what they leave *)
(* when they have done it, when the compiler has met an error, and when    *)
(* gtexp takes its error exit, the string going on after an expression.    *)
NotCompiled(outcome) ==
    faults' = faults \cup Met("body", outcome = "error" /\ flptr = flprt)
                     \cup Met("unconvertible", outcome = "unconvertible")
CompileStill(st, outcome) == Staged(st, flptr, r_cod) /\ NotCompiled(outcome)
Compile(st, outcome) ==
    /\ Staged(IF outcome = "compiled" THEN "xt" ELSE st, flptr, r_cod)
    /\ NotCompiled(outcome)

(* s_cod, and CONVERT to code.                                             *)
Code(outcome) ==
    /\ Executing /\ Count(cp) > 0
    /\ Compile("xc", outcome)
    /\ ctl' = IF outcome = "compiled" THEN "run" ELSE "syntax"
    /\ UNCHANGED <<stack, regs, kvfnc, vars, traps>>

(* CONVERT to an expression.                                               *)
Convert(outcome) ==
    /\ Executing /\ Count(cp) > 0
    /\ Compile("ev", outcome)
    /\ ctl' = CASE outcome = "compiled"      -> "run"
               [] outcome = "error"         -> "syntax"
               [] outcome = "unconvertible" -> "exfal"
    /\ UNCHANGED <<stack, regs, kvfnc, vars, traps>>

(* s_evl of a string that does not compile; gtexp's error exit is an error *)
(* too.                                                                    *)
EvalBad ==
    /\ Executing /\ Count(cp) > 0
    /\ Compile("ev", "error")
    /\ ctl' = "syntax" /\ UNCHANGED <<stack, regs, kvfnc, vars, traps>>

(* s_evl and evalx: expression e is evaluated; fresh, if EVAL was given    *)
(* a string.                                                               *)
Eval(e, fresh) ==
    LET during == IF fresh THEN "xt" ELSE stage
        frame  == <<Other, Blk(r_cod), Cp(Operands(cp, -1)), Adr(flptr), Other, Off(<<"exflc">>)>>
    IN  /\ Executing /\ Count(cp) > 0 /\ Room(Len(frame) - 1)
        /\ stack' = Front(stack) \o frame
        /\ Staged(IF during = "xt" THEN "ee" ELSE during, flptr, r_cod)
        /\ flptr' = Len(stack) - 1 + Len(frame) /\ r_cod' = e /\ cp' = Start("body")
        /\ UNCHANGED <<flprt, kvfnc, vars, traps, ctl>>

(* evlx5 to evlx9: the environment of evalx is restored, its frame ending  *)
(* at p; the caller goes on with the value, or fails.                      *)
EndEval(p, value) ==
    /\ Staged(IF stage = "ee" THEN "xt" ELSE stage, gtcef, r_gtc)
    /\ flptr' = stack[p - 2][2] /\ r_cod' = stack[p - 4][2]
    /\ stack' = Cut(p - 6) \o value
    /\ cp' = Operands(stack[p - 3][2], Len(value))
    /\ ctl' = IF value # <<>> THEN "run" ELSE IF stage' = "ev" THEN "lost" ELSE "exfal"
    /\ UNCHANGED <<flprt, kvfnc, vars, traps>>

\* o_rvl: the expression has a value.
EvalValue ==
    /\ Executing /\ r_cod \in Exprs /\ cp.path = <<1>>
    /\ EndEval(Len(stack) - 1, <<Last(stack)>>)

\* o_fex: it has failed.
EvalFailure == ctl = "fex" /\ EndEval(Len(stack), <<>>)

-----------------------------------------------------------------------------
(* Failure and errors.                                                     *)

\* exfal: control goes to the failure offset at flptr.
Exfal ==
    /\ ctl = "exfal"
    /\ Lands(Cut(flptr), r_cod, Offset(flptr))
    /\ UNCHANGED <<flptr, flprt, comp, kvfnc, vars, traps>>

\* o_gof: the failure goto of a statement sets a trap for its own failure.
GotoTrap ==
    /\ ctl = "gof"
    /\ stack' = [stack EXCEPT ![flptr] = Off(Ica(Offset(flptr)))]
    /\ ctl' = "run" /\ UNCHANGED <<regs, comp, kvfnc, vars, traps>>

(* erra4: the first address from the top down that is flprt or gtcef.      *)
Unwinds == stage # "xt" /\ ctl # "interrupt"
HitsNoCall == {p \in DOMAIN stack : p = gtcef}
Hits == {p \in DOMAIN stack : p = flprt \/ p = gtcef}

(* error, err04, err05: when code was being compiled or evaluated, the     *)
(* stack is popped until the loop of erra4 meets a call or what gtcef      *)
(* says; it ends nowhere when there is neither.                            *)
Error ==
    /\ ctl \in {"error", "syntax", "interrupt"}
    /\ kvert' = IF ctl = "interrupt" THEN ctl ELSE "error"
    /\ IF Unwinds /\ Hits = {}
       THEN ctl' = "lost" /\ UNCHANGED <<stack, regs, comp>>
       ELSE /\ ctl' = IF kverl > 0 THEN "err07" ELSE IF Unwinds THEN "exfal" ELSE "stop"
            /\ IF ~Unwinds
               THEN UNCHANGED <<stack, regs, comp>>
               ELSE IF Max(Hits) = flprt
               THEN stack' = Cut(flptr) /\ UNCHANGED <<regs, comp>>
               ELSE /\ stack' = Cut(gtcef) /\ flptr' = gtcef /\ r_cod' = r_gtc
                    /\ Staged("xt", gtcef, r_gtc)
                    /\ cp' \in IF r_gtc = r_cod THEN {cp} ELSE {Start("body"), Start("goto")}
                    /\ UNCHANGED flprt
    /\ UNCHANGED <<kvfnc, vars, kverl, r_sxc, r_cnt>>

(* err07: what CONTINUE needs is kept, and the SETEXIT trap gets control,  *)
(* once; without one the statement fails.                                  *)
Err07 ==
    /\ ctl = "err07"
    /\ kverl' = kverl - 1
    /\ r_cnt' = [blk |-> r_cod, off |-> Offset(flptr), at |-> cp]
    /\ r_sxc' = None
    /\ IF r_sxc = None
       THEN ctl' = "continue" /\ UNCHANGED <<stack, flptr, r_cod, cp>>
       ELSE Enter(r_sxc, stack, flptr)
    /\ UNCHANGED <<flprt, comp, kvfnc, vars, kvert>>

(* bge stxoc,stxof: the error was not in the failure goto.                 *)
Before(at, o) ==
    CASE o[1] = "gof"     -> at.at = "body"
      [] o[1] = "bracket" -> at.at = "body" \/ o[3].at = "goto"
      [] OTHER            -> FALSE

(* The trap has not left the level it got control at; and its statements   *)
(* have left their own failure offset there.                               *)
SameLevel   == level = flptr
Overwritten == Offset(flptr) # r_cnt.off

(* lcnt1.                                                                  *)
Continue ==
    LET error332 == r_cnt.blk \in Complex /\ ~Before(r_cnt.at, r_cnt.off) IN
    /\ ctl = "continue" \/ AtEnd
    /\ r_cnt' = NoError
    /\ IF r_cnt = NoError
       THEN ctl' = "error" /\ UNCHANGED <<stack, r_cod, cp, faults>>
       ELSE /\ faults' = faults
                         \cup Met("level", ~SameLevel)
                         \cup Met("offset", /\ Overwritten
                                            /\ error332 \/ r_cnt.off[1] \notin {"bracket", "exflc"})
            /\ IF error332
               THEN ctl' = "error" /\ r_cod' = r_cnt.blk /\ UNCHANGED <<stack, cp>>
               ELSE Lands(Cut(flptr), r_cnt.blk, r_cnt.off)
    /\ UNCHANGED <<flptr, flprt, comp, kvfnc, vars, kverl, kvert, r_sxc>>

(* l_scn: a statement the user interrupted is resumed.                     *)
SContinue ==
    /\ AtEnd
    /\ r_cnt' = NoError
    /\ IF r_cnt = NoError \/ kvert # "interrupt"
       THEN ctl' = "error" /\ UNCHANGED <<r_cod, cp, faults>>
       ELSE /\ faults' = faults \cup Met("level", ~SameLevel) \cup Met("offset", Overwritten)
            /\ r_cod' = r_cnt.blk /\ cp' = r_cnt.at /\ ctl' = "run"
    /\ UNCHANGED <<stack, flptr, flprt, comp, kvfnc, vars, kverl, kvert, r_sxc>>

(* The goto is to a statement; to an undefined label; to END or ABORT.     *)
Goto(b) ==
    /\ AtEnd /\ Enter(b, Cut(flptr), flptr)
    /\ UNCHANGED <<flprt, comp, kvfnc, vars, traps>>

Undefined ==
    /\ AtEnd
    /\ ctl' = "error" /\ UNCHANGED <<stack, regs, comp, kvfnc, vars, traps>>

Stop ==
    /\ AtEnd
    /\ ctl' = "stop" /\ UNCHANGED <<stack, regs, comp, kvfnc, vars, traps>>

-----------------------------------------------------------------------------
\* What the code is always a match for.
Work ==
    \/ \E v \in prog.values : Operand(v)
    \/ \E v \in Vars : Assign(v)
    \/ \E b \in prog.traps \cup {None} : SetExit(b)
    \/ OpenBracket \/ NegateValue \/ Select
    \/ NegateFailure \/ NextAlternative \/ LastAlternative
    \/ \E e \in prog.exprs, fresh \in BOOLEAN : Eval(e, fresh)
    \/ EvalValue \/ EvalFailure
    \/ Fails \/ Errs \/ Exfal \/ GotoTrap \/ Error \/ Err07
    \/ \E b \in Stmts : Goto(b)
    \/ Undefined \/ Stop

Operate ==
    \/ Work /\ UNCHANGED faults
    \/ \E how \in {"RETURN", "FRETURN", "NRETURN"} : Return(how)
    \/ \E outcome \in {"compiled", "error"} : Code(outcome)
    \/ \E outcome \in {"compiled", "error", "unconvertible"} : Convert(outcome)
    \/ EvalBad \/ Continue \/ SContinue

Step ==
    \/ Operate /\ UNCHANGED kvtra
    \/ \E f \in Functions, b \in Stmts :
           \/ \E undefined \in BOOLEAN : Call(f, b, undefined)
           \/ Trace(f, b)
    \/ EndTrace

Next ==
    /\ Step /\ UNCHANGED prog
    /\ level' = IF r_cnt' = NoError THEN 0
                ELSE IF ctl = "err07" THEN flptr
                ELSE IF flptr' < level THEN 0 ELSE level

Spec == Init /\ [][Next]_all

-----------------------------------------------------------------------------
(* Every variable has its type: words are on the stack, and the pointers   *)
(* into it, those of another routine excepted, point there.                *)
TypeOK ==
    /\ \A p \in DOMAIN stack : stack[p][1] \in {"val", "adr", "off", "blk", "cp", "pf", "other"}
    /\ flptr \in DOMAIN stack /\ Len(stack) <= prog.stack + 1 /\ flprt \in 0 .. flptr
    /\ r_cod \in Blocks \cup {trxdc} /\ stage \in {"xt", "xc", "ev", "ee"} /\ vars \in [Vars -> Values]
    /\ kverl \in Nat /\ kvfnc \in 0 .. prog.level /\ r_sxc \in Stmts \cup {None}

(* The properties below say what the code does until one of the six things *)
(* happens that it is no match for (faults): an error of the compiler in   *)
(* code run straight from the body of a function (sbl.min:29230), error 286*)
(* (10922), CONVERT by the exit of gtexp (22552), an error when a trace    *)
(* function returns during an evaluation (28820), CONTINUE or SCONTINUE to *)
(* where the trap has left another failure offset (12701), or at another   *)
(* level.  Configurations of their own show what the first five do.       *)

(* Until then control never goes to a word that is not the code, or the    *)
(* frame, the routine takes it for; the loop of erra4 ends; and flptr and  *)
(* flprt stay within the stack.                                            *)
NotLost == faults = {} => ctl # "lost" /\ TypeOK

(* Where the failure offsets are of the brackets open at c, and what is to *)
(* be there outside them.                                                  *)
Base(c) ==
    LET at[n \in DOMAIN c.path] == IF n = Len(c.path) THEN flptr ELSE stack[at[n + 1] - 1][2]
    IN  at
Outside ==
    IF r_cod = trxdc THEN <<"zero">>
    ELSE IF r_cod \in Exprs THEN <<"exflc">>
    ELSE IF cp.at = "goto" THEN <<"fif", r_cod>> ELSE FailOffset(r_cod)

(* Until then, while a code word is executed, each bracket open there has  *)
(* its failure offset where flptr and the old flptr below it say, above the*)
(* operands that came before it; and outside them the offset is that of the*)
(* statement, of its failure goto or of the expression being executed.     *)
FailuresReturn ==
    faults = {} /\ ctl = "run" =>
        LET at == Base(cp) IN
        \A n \in DOMAIN cp.path :
            /\ Offset(at[n]) = IF n = 1 THEN Outside
                               ELSE <<"bracket", r_cod, [cp EXCEPT !.path = SubSeq(@, 1, n - 1)]>>
            /\ LET top == IF n = Len(cp.path) THEN Len(stack) ELSE at[n + 1] - 2 IN
               /\ top >= at[n] + cp.path[n]
               /\ \A i \in 1 .. cp.path[n] : stack[top - i + 1][1] = "val"

(* An expression is being evaluated, from block r_gtc where flptr was      *)
(* gtcef.                                                                  *)
Evaluating ==
    \E p \in DOMAIN stack :
        /\ p > 5 /\ stack[p][1] = "off" /\ stack[p - 3][1] = "cp"
        /\ stack[p - 2] = Adr(gtcef) /\ stack[p - 4] = Blk(r_gtc)

(* The stage says where an error that is no compiler's occurs: during the  *)
(* evaluation of an expression, if it is not stgxt (sbl.min:29049).        *)
StageTrue == ctl = "error" /\ stage # "xt" => Evaluating

(* Tracing is off just while a trace function runs (trxeq).                *)
TraceTrue ==
    prog.trace /\ ~kvtra
       <=> r_cod = trxdc \/ \E p \in DOMAIN stack : stack[p] = Blk(trxdc)

(* Until one of faults happens, what is switched for the time of a call is *)
(* so just then, whether it returns, fails or is left by an error or a     *)
(* trap: the stage of an evaluation where the next error says it, and      *)
(* tracing, off while a trace function runs and on before and after it.    *)
InProgress == faults = {} => StageTrue /\ TraceTrue

(* flprt is for calls and returns only: retrn finds by it the frame of the *)
(* function that returns (sbl.min:16302).                                  *)
ReturnFinds == AtEnd /\ kvfnc > 0 => IsFrame(flprt)

(* While the failure goto of a statement is evaluated, its own failure is  *)
(* that of a goto, by the word of o_fif before that of o_gof (9781).       *)
GotoFails ==
    Executing /\ cp.at = "goto" /\ Len(cp.path) = 1 => Offset(flptr) = <<"fif", r_cod>>

(* The calls that have not returned, from the frames flprt leads to.       *)
First == [f \in Functions |->
             [v \in ToSet(Names[f]) |-> SelectInSeq(Names[f], LAMBDA w : w = v)]]
Acts ==
    LET at[k \in 0 .. kvfnc] == IF k = 0 THEN flprt ELSE stack[at[k - 1] - 3][2]
        Act(fr) ==
            [to  |-> [blk |-> fr.r_cod, at |-> fr.cp.at, path |-> fr.cp.path],
             had |-> [v \in DOMAIN First[fr.f] |-> fr.had[First[fr.f][v]]]]
    IN  [i \in 1 .. kvfnc |-> Act(Frame(at[kvfnc - i]))]
Abstract == INSTANCE CallStack WITH
    here <- [blk |-> r_cod, at |-> cp.at, path |-> cp.path], acts <- Acts,
    Tracing <- [blk |-> trxdc, at |-> "trace", path |-> <<0>>]

(* Until one of faults happens, calls and returns, by way of failures,     *)
(* errors, traps and traces too, do what CallStack promises (b_pfc, retrn). *)
CallSpec ==
    Abstract!Init /\ [][faults' # {} \/ Abstract!Next]_(Abstract!state)
=============================================================================
