------------------------------- MODULE StmtClock -------------------------------
(***************************************************************************)
(* The statement clock: what stmgo does as each statement begins, and the  *)
(* counters it does it with (src/sbl.min: stmgo, stgcc, stcov, asg16,      *)
(* asg21-asg23, trc09, error; src/osint/break.c and syspl.c).              *)
(*                                                                         *)
(* To begin a statement costs one decrement of stmct.  Only when it        *)
(* reaches zero does stmgo poll for interrupts, charge the statements      *)
(* since the last look to kvstc, and check &STLIMIT; stgcc computes how    *)
(* long that may wait.                                                     *)
(*                                                                         *)
(* A SIGINT, SIGHUP or SIGQUIT runs catchbrk between any two instructions  *)
(* of this code.  An action here is a run of instructions that touches at  *)
(* most one of the counters catchbrk writes; Signal is taken between two   *)
(* actions, at those values of pc that SignalAt names.                     *)
(***************************************************************************)
EXTENDS Integers

CONSTANTS
    StLim,        \* stlim, the limit a program starts with
    PollCount,    \* statements between two polls (port.h)
    Limits,       \* values the program may assign to &STLIMIT
    Profiles,     \* values it may assign to &PROFILE (2 is as 1 here)
    Traces,       \* may it start (TRUE) and stop (FALSE) a trace of &STCOUNT?
    ErrLimits,    \* values it may assign to &ERRLIMIT
    SignalAt,     \* where signals may arrive
    MaxSignals,   \* how many may arrive
    MaxStmts      \* bound on the statements counted, and on how far
                  \* below zero the countdown is followed

PCs == {"run", "asg16", "next", "test", "push", "poll", "polled", "count", "reset",
        "move", "gcc", "gcc2", "gcc3", "stcov", "error", "stopped"}

ASSUME ClockAssumption ==
    /\ StLim \in Nat \ {0}
    /\ PollCount \in Nat \ {0}
    /\ Limits \subseteq Int
    /\ Profiles \subseteq {0, 1}
    /\ Traces \subseteq BOOLEAN
    /\ ErrLimits \subseteq Nat
    /\ SignalAt \subseteq PCs
    /\ MaxSignals \in Nat
    /\ MaxStmts \in Nat

VARIABLES
    kvstl,     \* &STLIMIT
    kvstc,     \* statements left of it when stmct was last set (may be negative)
    stmcs,     \* what stmct was last set to
    stmct,     \* statements before stmgo next looks
    polcs,     \* statements between two polls
    polct,     \* looks before the next poll
    kvpfl,     \* &PROFILE
    r_stc,     \* is &STCOUNT traced?
    kverl,     \* &ERRLIMIT
    errft,     \* fatal errors so far
    brkpnd,    \* a signal is pending
    pc,        \* the next instructions of the program
    back,      \* where stgcc returns to
    reg,       \* a counter in a register, or the copy stmgo has pushed
    new,       \* asg16: the value being assigned
    signals,   \* signals that may still arrive
    begun,     \* history: statements begun while the limit was not negative
    due,       \* history: how many of them the limit allows
    quiet,     \* history: no signal, profile or trace yet, and no limit
               \* assigned that had been passed, or after an error 244
    late       \* history: the last signal came while its counters were being
               \* written, or they have been since

counters == <<stmcs, stmct, polct>>
options == <<kvpfl, r_stc, kverl>>
history == <<begun, due, quiet, late>>
vars == <<kvstl, kvstc, polcs, errft, brkpnd, pc, back, reg, new, signals,
          counters, options, history>>

Least(a, b) == IF a <= b THEN a ELSE b

TypeOK ==
    /\ kvstl \in Int /\ kvstc \in Int
    /\ stmcs \in Int /\ stmct \in Int
    /\ polcs \in {1, PollCount} /\ polct \in Int
    /\ kvpfl \in {0, 1} /\ r_stc \in BOOLEAN
    /\ kverl \in Nat /\ errft \in 0 .. 3
    /\ brkpnd \in BOOLEAN
    /\ pc \in PCs
    /\ back \in {"next", "run", "count", "error"}
    /\ reg \in Int /\ new \in Int
    /\ signals \in 0 .. MaxSignals
    /\ begun \in 0 .. MaxStmts
    /\ due \in Int /\ quiet \in BOOLEAN /\ late \in BOOLEAN

(* ini02 and iniy0, before the first statement. *)
Init ==
    /\ kvstl = StLim /\ kvstc = StLim
    /\ stmcs = 1 /\ stmct = 1
    /\ polcs = 1 /\ polct = 1
    /\ kvpfl = 0 /\ r_stc = FALSE
    /\ kverl = 0 /\ errft = 0
    /\ brkpnd = FALSE
    /\ pc = "gcc" /\ back = "next"
    /\ reg = 0 /\ new = 0
    /\ signals = MaxSignals
    /\ begun = 0
    /\ due = StLim
    /\ quiet = TRUE /\ late = FALSE

-----------------------------------------------------------------------------
(* stgcc: when to look, and after how many looks to poll.                  *)
EachStmt == kvpfl # 0 \/ (kvstl >= 0 /\ r_stc)

CapShort == IF kvstl < 0 THEN polcs ELSE Least(polcs, kvstl - 1)   \* mutant

Cap == IF kvstl < 0 THEN polcs ELSE Least(polcs, kvstl)

StartCount == IF EachStmt THEN 1 ELSE Cap

PollTimes == IF EachStmt THEN polcs ELSE 1

Gcc ==
    /\ pc = "gcc"
    /\ stmcs' = StartCount
    /\ pc' = "gcc2"
    /\ UNCHANGED <<kvstl, kvstc, polcs, errft, brkpnd, back, reg, new, signals,
                   stmct, polct, options, history>>

Gcc2 ==
    /\ pc = "gcc2"
    /\ stmct' = StartCount
    /\ pc' = "gcc3"
    /\ UNCHANGED <<kvstl, kvstc, polcs, errft, brkpnd, back, reg, new, signals,
                   stmcs, polct, options, history>>

Gcc3 ==
    /\ pc = "gcc3"
    /\ polct' = PollTimes
    /\ pc' = back
    /\ UNCHANGED <<kvstl, kvstc, polcs, errft, brkpnd, back, reg, new, signals,
                   stmcs, stmct, options, history>>

(* jsr stgcc *)
Recompute(return) == pc' = "gcc" /\ back' = return /\ late' = brkpnd

-----------------------------------------------------------------------------
(* stmgo *)
Begin ==
    /\ pc = "next"
    /\ begun < MaxStmts /\ -MaxStmts < stmct
    /\ stmct' = stmct - 1
    /\ begun' = IF kvstl >= 0 THEN begun + 1 ELSE begun
    /\ pc' = "test"
    /\ UNCHANGED <<kvstl, kvstc, polcs, errft, brkpnd, back, reg, new, signals,
                   stmcs, polct, options, due, quiet, late>>

Test ==
    /\ pc = "test"
    /\ pc' = IF stmct = 0 THEN "push" ELSE "run"
    /\ UNCHANGED <<kvstl, kvstc, polcs, errft, brkpnd, back, reg, new, signals,
                   counters, options, history>>

Push ==
    /\ pc = "push"
    /\ reg' = stmcs
    /\ pc' = "poll"
    /\ UNCHANGED <<kvstl, kvstc, polcs, errft, brkpnd, back, new, signals,
                   counters, options, history>>

Poll ==
    /\ pc = "poll"
    /\ polct' = polct - 1
    /\ pc' = IF polct' = 0 THEN "polled" ELSE "count"
    /\ UNCHANGED <<kvstl, kvstc, polcs, errft, brkpnd, back, reg, new, signals,
                   stmcs, stmct, options, history>>

(* syspl: a pending signal is error 320. *)
Polled ==
    /\ pc = "polled"
    /\ IF brkpnd
       THEN brkpnd' = FALSE /\ pc' = "error" /\ UNCHANGED <<polcs, back, late>>
       ELSE polcs' = PollCount /\ Recompute("count") /\ UNCHANGED brkpnd
    /\ UNCHANGED <<kvstl, kvstc, errft, reg, new, signals,
                   counters, options, begun, due, quiet>>

(* stgo4: nothing is charged to a count that is negative. *)
ChargeOne(left, n) == left - 1       \* mutant: one for a whole countdown
ChargeMore(left, n) == left - n - 1  \* mutant: off by one

Charge(left, n) == left - n

Count ==
    /\ pc = "count"
    /\ kvstc' = IF kvstc >= 0 THEN Charge(kvstc, reg) ELSE kvstc
    /\ pc' = IF kvstc >= 0 /\ kvstc' <= 0 THEN "stcov" ELSE "reset"
    /\ UNCHANGED <<kvstl, polcs, errft, brkpnd, back, reg, new, signals,
                   counters, options, history>>

(* stgo5, in two instructions. *)
Reset ==
    /\ pc = "reset"
    /\ reg' = stmcs
    /\ pc' = "move"
    /\ UNCHANGED <<kvstl, kvstc, polcs, errft, brkpnd, back, new, signals,
                   counters, options, history>>

Move ==
    /\ pc = "move"
    /\ stmct' = reg
    /\ pc' = "run"
    /\ UNCHANGED <<kvstl, kvstc, polcs, errft, brkpnd, back, reg, new, signals,
                   stmcs, polct, options, history>>

(* stcov: error 244, and a little more time for a SETEXIT trap. *)
stcov ==
    /\ pc = "stcov"
    /\ errft' = errft + 1
    /\ kvstl' = kvstl + 10
    /\ kvstc' = 10
    /\ due' = begun + 10
    /\ Recompute("error")
    /\ UNCHANGED <<polcs, brkpnd, reg, new, signals, counters, options, begun, quiet>>

(* error: without &ERRLIMIT, and after three fatal errors, the run ends;   *)
(* otherwise the program goes on, in its trap or where it failed.          *)
FatalNever == kverl = 0   \* mutant: fatal errors are not counted

Fatal == kverl = 0 \/ errft >= 3

Error ==
    /\ pc = "error"
    /\ polcs' = 1
    /\ polct' = 1
    /\ IF Fatal
       THEN pc' = "stopped" /\ UNCHANGED kverl
       ELSE pc' = "next" /\ kverl' = kverl - 1
    /\ UNCHANGED <<kvstl, kvstc, errft, brkpnd, back, reg, new, signals,
                   stmcs, stmct, kvpfl, r_stc, history>>

-----------------------------------------------------------------------------
(* What a statement may do to the clock. *)

(* &STLIMIT = n (asg16), in two parts: it reads stmcs, then stmct. *)
AssignLimit(n) ==
    /\ pc = "run"
    /\ new' = n
    /\ reg' = stmcs
    /\ pc' = "asg16"
    /\ quiet' = (quiet /\ errft = 0 /\ (n < 0 \/ n > begun))
    /\ UNCHANGED <<kvstl, kvstc, polcs, errft, brkpnd, back, signals,
                   counters, options, begun, due, late>>

Elapsed0 == 0   \* mutant: the statements since stmct was set are not refined

Elapsed == IF kvstl >= 0 THEN reg - stmct ELSE 0

asg16 ==
    /\ pc = "asg16"
    /\ kvstc' = new - kvstl + kvstc - Elapsed
    /\ kvstl' = new
    /\ due' = new
    /\ Recompute("run")
    /\ UNCHANGED <<polcs, errft, brkpnd, reg, new, signals,
                   counters, options, begun, quiet>>

(* &PROFILE = v: turning it off leaves the counters alone. *)
AssignProfile(v) ==
    /\ pc = "run"
    /\ kvpfl' = v
    /\ quiet' = FALSE
    /\ IF v = 0 THEN UNCHANGED <<pc, back, late>> ELSE Recompute("run")
    /\ UNCHANGED <<kvstl, kvstc, polcs, errft, brkpnd, reg, new, signals,
                   counters, r_stc, kverl, begun, due>>

(* TRACE(.STCOUNT, "KEYWORD") and STOPTR. *)
TraceStcount(on) ==
    /\ pc = "run"
    /\ r_stc' = on
    /\ quiet' = FALSE
    /\ Recompute("run")
    /\ UNCHANGED <<kvstl, kvstc, polcs, errft, brkpnd, reg, new, signals,
                   counters, kvpfl, kverl, begun, due>>

AssignErrlimit(n) ==
    /\ pc = "run"
    /\ kverl' = n
    /\ UNCHANGED <<kvstl, kvstc, polcs, errft, brkpnd, pc, back, reg, new,
                   signals, counters, kvpfl, r_stc, history>>

(* The statement ends, in any other error, in a jump to the next, or with  *)
(* the run.                                                                *)
Leave(to) ==
    /\ pc = "run"
    /\ pc' = to
    /\ UNCHANGED <<kvstl, kvstc, polcs, errft, brkpnd, back, reg, new, signals,
                   counters, options, history>>

Raise == Leave("error")
Done == Leave("next")
Stop == Leave("stopped")

(* catchbrk.  The stmct it subtracts from stmcs is the 1 just stored. *)
CatchLate == UNCHANGED stmct   \* mutant: stmgo is not hurried

Catch == stmct' = 1

(* Where stmct or polct is still to be written from what was read before.  *)
Written == {"count", "reset", "move", "gcc", "gcc2", "gcc3"}

Signal ==
    /\ pc \in SignalAt \ {"stopped"}
    /\ signals > 0
    /\ signals' = signals - 1
    /\ brkpnd' = TRUE
    /\ Catch
    /\ stmcs' = stmcs - 1
    /\ polct' = 1
    /\ quiet' = FALSE
    /\ late' = (pc \in Written)
    /\ UNCHANGED <<kvstl, kvstc, polcs, errft, pc, back, reg, new,
                   options, begun, due>>

-----------------------------------------------------------------------------
Statement ==
    \/ \E n \in Limits : AssignLimit(n)
    \/ \E v \in Profiles : AssignProfile(v)
    \/ \E on \in Traces : TraceStcount(on)
    \/ \E n \in ErrLimits : AssignErrlimit(n)
    \/ asg16
    \/ Raise
    \/ Done
    \/ Stop

stgcc == Gcc \/ Gcc2 \/ Gcc3
stmgo == Begin \/ Test \/ Push \/ Poll \/ Polled \/ Count \/ Reset \/ Move

Next == Statement \/ stmgo \/ stgcc \/ stcov \/ Error \/ Signal

Spec == Init /\ [][Next]_vars

-----------------------------------------------------------------------------
(* &STCOUNT as acs19 computes it. *)
Stcount == IF kvstl >= 0 THEN stmcs - stmct + kvstl - kvstc ELSE kvstl - kvstc

(* &STCOUNT is the number of statements begun, wherever the counters stand, *)
(* through polls and assignments of &STLIMIT, until error 244 (stmgo,      *)
(* asg16, acs19).                                                          *)
ExactCount == quiet /\ pc = "run" /\ errft = 0 => Stcount = begun

(* The first error 244 is late by less than the limit itself, whatever     *)
(* limits are assigned in mid-countdown (asg16; stgcc: the countdown never *)
(* exceeds kvstl).                                                         *)
Overrun ==
    quiet /\ errft = 0 /\ pc = "run" /\ kvstl >= 0 => begun < due + kvstl

(* After error 244 a SETEXIT trap is given ten statements (stcov: "permit   *)
(* up to 10 more statements to be obeyed so that setexit trap can regain   *)
(* control").                                                              *)
TenMore == quiet /\ errft > 0 /\ pc = "run" => begun <= due

(* Error 244 never comes while the limit has statements left.              *)
NotPremature == [][quiet /\ errft' > errft => begun >= due]_vars

(* Between statements the countdown stands between 1 and where it started, *)
(* and so does the poll count: stmgo always looks again (stmgo, stgcc,     *)
(* asg16).  A limit of 0 turns the countdown off; a signal may (catchbrk).  *)
CountdownInv == pc = "run" /\ kvstl # 0 /\ signals = MaxSignals =>
                    /\ 1 <= stmct /\ stmct <= stmcs
                    /\ 1 <= polct

(* A pending interrupt is raised as the next statement begins (break.c:    *)
(* "force STMGO loop to check counters quickly"), unless the signal came   *)
(* while stmgo or stgcc was writing the counters, or stgcc has since.      *)
InterruptSeen == pc = "next" /\ brkpnd /\ ~late => stmct = 1 /\ polct = 1

(* Whatever else happens, a program that goes on past its limit is stopped *)
(* (stcov: "statement count exceeds value of stlimit keyword").            *)
Enforced == pc = "run" /\ kvstl >= 0 => begun <= due + kvstl
=============================================================================
