---------------------------- MODULE StmtClockProofs ----------------------------
(***************************************************************************)
(* Proofs about StmtClock for every limit, poll interval and number of     *)
(* statements: the types; and that &STCOUNT is exact until a program is    *)
(* interrupted, profiles or traces &STCOUNT, or assigns a limit that it    *)
(* has passed.                                                             *)
(***************************************************************************)
EXTENDS StmtClock, TLAPS

InGcc == pc \in {"gcc", "gcc2", "gcc3"}

(* A third fatal error leads to the end of the run, by way of stgcc. *)
FatalOK == errft = 3 => \/ pc \in {"error", "stopped"}
                        \/ InGcc /\ back = "error"

TInv == TypeOK /\ FatalOK

(* The types hold at the start. *)
LEMMA TypeInit == Init => TInv
<1> SUFFICES ASSUME Init PROVE TInv
  OBVIOUS
<1>1. /\ StLim \in Int /\ PollCount \in Nat /\ 0 \in 0 .. MaxStmts
      /\ MaxSignals \in 0 .. MaxSignals
  BY ClockAssumption
<1>2. /\ kvpfl \in {0, 1} /\ r_stc \in BOOLEAN /\ brkpnd \in BOOLEAN
      /\ pc \in PCs /\ back \in {"next", "run", "count", "error"}
  BY DEF Init, PCs
<1>3. quiet \in BOOLEAN /\ late \in BOOLEAN
  BY DEF Init
<1>4. TypeOK
  BY <1>1, <1>2, <1>3 DEF Init, TypeOK
<1>5. FatalOK
  BY DEF Init, FatalOK
<1> QED BY <1>4, <1>5 DEF TInv

(* stgcc computes integers. *)
LEMMA GccTypes ==
    ASSUME TypeOK
    PROVE  StartCount \in Int /\ PollTimes \in Int
  BY ClockAssumption DEF TypeOK, StartCount, PollTimes, Cap, EachStmt, Least

(* Every action keeps the types and the bound on fatal errors. *)
LEMMA TypeNext == TInv /\ [Next]_vars => TInv'
<1> SUFFICES ASSUME TInv, [Next]_vars PROVE TInv'
  OBVIOUS
<1> USE ClockAssumption
<1>1. CASE stgcc
  <2>1. StartCount \in Int /\ PollTimes \in Int
    BY GccTypes DEF TInv
  <2>2. CASE Gcc
    BY <2>1, <2>2 DEF Gcc, TInv, TypeOK, FatalOK, InGcc, PCs, options, history
  <2>3. CASE Gcc2
    BY <2>1, <2>3 DEF Gcc2, TInv, TypeOK, FatalOK, InGcc, PCs, options, history
  <2>4. CASE Gcc3
    BY <2>1, <2>4 DEF Gcc3, TInv, TypeOK, FatalOK, InGcc, PCs, options, history
  <2> QED BY <1>1, <2>2, <2>3, <2>4 DEF stgcc
<1>2. CASE stmgo
  <2> USE DEF TInv, TypeOK, FatalOK, InGcc, PCs, options, history
  <2>1. CASE Begin
    BY <2>1 DEF Begin
  <2>2. CASE Test \/ Push
    BY <2>2 DEF Test, Push, counters
  <2>3. CASE Poll
    BY <2>3 DEF Poll
  <2>4. CASE Polled
    BY <2>4 DEF Polled, Recompute, counters
  <2>5. CASE Count
    BY <2>5 DEF Count, Charge, counters
  <2>6. CASE Reset \/ Move
    BY <2>6 DEF Reset, Move, counters
  <2> QED BY <1>2, <2>1, <2>2, <2>3, <2>4, <2>5, <2>6 DEF stmgo
<1>3. CASE stcov
  BY <1>3 DEF stcov, Recompute, TInv, TypeOK, FatalOK, InGcc, PCs,
              counters, options, history
<1>4. CASE Error
  BY <1>4 DEF Error, Fatal, TInv, TypeOK, FatalOK, InGcc, PCs, counters, options, history
<1>5. CASE Signal
  <2>1. quiet' \in BOOLEAN /\ brkpnd' \in BOOLEAN
    BY <1>5 DEF Signal
  <2>2. late' \in BOOLEAN
    <3>1. late' = (pc \in Written)
      BY <1>5 DEF Signal
    <3>2. CASE pc \in Written
      BY <3>1, <3>2
    <3>3. CASE pc \notin Written
      BY <3>1, <3>3
    <3> QED BY <3>2, <3>3
  <2> QED BY <1>5, <2>1, <2>2 DEF Signal, Catch, TInv, TypeOK, FatalOK, InGcc, PCs, counters, options
<1>6. CASE Statement
  <2>1. ASSUME NEW n \in Limits, AssignLimit(n) PROVE TInv'
    BY <2>1 DEF AssignLimit, TInv, TypeOK, FatalOK, InGcc, PCs, counters, options, history
  <2>2. ASSUME NEW v \in Profiles, AssignProfile(v) PROVE TInv'
    BY <2>2 DEF AssignProfile, Recompute, TInv, TypeOK, FatalOK, InGcc, PCs,
                counters, options, history
  <2>3. ASSUME NEW on \in Traces, TraceStcount(on) PROVE TInv'
    BY <2>3 DEF TraceStcount, Recompute, TInv, TypeOK, FatalOK, InGcc, PCs,
                counters, options, history
  <2>4. ASSUME NEW n \in ErrLimits, AssignErrlimit(n) PROVE TInv'
    BY <2>4 DEF AssignErrlimit, TInv, TypeOK, FatalOK, InGcc, PCs,
                counters, options, history
  <2>5. CASE asg16
    BY <2>5 DEF asg16, Elapsed, Recompute, TInv, TypeOK, FatalOK, InGcc, PCs,
                counters, options, history
  <2>6. CASE Raise \/ Done \/ Stop
    BY <2>6 DEF Raise, Done, Stop, Leave, TInv, TypeOK, FatalOK, InGcc, PCs,
                counters, options, history
  <2> QED BY <1>6, <2>1, <2>2, <2>3, <2>4, <2>5, <2>6 DEF Statement
<1>7. CASE UNCHANGED vars
  BY <1>7 DEF vars, TInv, TypeOK, FatalOK, InGcc, counters, options, history
<1> QED BY <1>1, <1>2, <1>3, <1>4, <1>5, <1>6, <1>7 DEF Next

(* The counters and registers of the statement clock keep their types, and  *)
(* no run has more than three fatal errors (stcov, error).                  *)
THEOREM ClockTypes == Spec => []TypeOK
<1>1. TInv => TypeOK
  BY DEF TInv
<1> QED BY <1>1, TypeInit, TypeNext, PTL DEF Spec

-----------------------------------------------------------------------------
(* Nothing has disturbed the clock. *)
Calm == quiet => kvpfl = 0 /\ r_stc = FALSE /\ ~brkpnd

(* What kvstc has been charged with, besides what has been begun. *)
Charged == kvstl - kvstc = begun

(* How far the count has got, by what has been done of stmgo and stgcc.    *)
(* From the copy of stmcs on (stgo3) to the charge (stgo4) the countdown is *)
(* owed by reg; from there to stgo5, and after stgcc, nothing is.          *)
CountOK ==
    /\ pc \in {"next", "run", "test", "error", "stopped"} => Stcount = begun
    /\ pc = "asg16" => /\ Stcount = begun /\ reg = stmcs
                       /\ new >= 0 => new > begun
    /\ pc = "push" => Stcount = begun /\ stmct = 0
    /\ pc \in {"poll", "polled"} => Stcount = begun /\ stmct = 0 /\ reg = stmcs
    /\ pc = "count" \/ (InGcc /\ back = "count") =>
           kvstl - kvstc + (IF kvstl >= 0 THEN reg ELSE 0) = begun
    /\ InGcc /\ back # "count" => Charged
    /\ InGcc => back # "error"
    /\ pc = "gcc2" => stmcs = StartCount
    /\ pc = "gcc3" => stmct = stmcs
    /\ pc = "reset" => Charged
    /\ pc = "move" => Charged /\ reg = stmcs
    /\ pc # "stcov" => (kvstl >= 0 => kvstc > 0)

CInv == TInv /\ Calm /\ (quiet /\ errft = 0 => CountOK)

(* Before the first statement nothing has been counted. *)
LEMMA CountInit == Init => CInv
<1> SUFFICES ASSUME Init PROVE CInv
  OBVIOUS
<1>1. TInv
  BY TypeInit
<1>2. Calm
  BY DEF Init, Calm
<1>3. CountOK
  BY ClockAssumption DEF Init, CountOK, InGcc, Charged
<1> QED BY <1>1, <1>2, <1>3 DEF CInv

(* What disturbs the clock is remembered. *)
LEMMA CalmNext == TypeOK /\ Calm /\ [Next]_vars => Calm' /\ (quiet' => quiet)
<1> SUFFICES ASSUME TypeOK, Calm, [Next]_vars PROVE Calm' /\ (quiet' => quiet)
  OBVIOUS
<1> USE DEF Calm, TypeOK
<1>1. CASE stgcc
  BY <1>1 DEF stgcc, Gcc, Gcc2, Gcc3, options, history
<1>2. CASE stmgo
  BY <1>2 DEF stmgo, Begin, Test, Push, Poll, Polled, Count, Reset, Move, options, history
<1>3. CASE stcov \/ Error \/ Signal
  BY <1>3 DEF stcov, Error, Signal, options, history
<1>4. CASE Statement
  BY <1>4 DEF Statement, AssignLimit, AssignProfile, TraceStcount, AssignErrlimit,
              asg16, Raise, Done, Stop, Leave, options, history
<1>5. CASE UNCHANGED vars
  BY <1>5 DEF vars, options, history
<1> QED BY <1>1, <1>2, <1>3, <1>4, <1>5 DEF Next

(* Until error 244 each action keeps the count where it should be. *)
LEMMA CountNext == CInv /\ [Next]_vars /\ quiet' /\ errft' = 0 => CountOK'
<1> SUFFICES ASSUME CInv, [Next]_vars, quiet', errft' = 0 PROVE CountOK'
  OBVIOUS
<1>0. TypeOK /\ Calm
  BY DEF CInv, TInv
<1>1. quiet /\ kvpfl = 0 /\ r_stc = FALSE /\ ~brkpnd
  BY <1>0, CalmNext DEF Calm
<1>2. errft = 0
  <2>1. CASE stgcc \/ stmgo
    BY <2>1 DEF stgcc, Gcc, Gcc2, Gcc3, stmgo, Begin, Test, Push, Poll, Polled, Count,
                Reset, Move
  <2>2. CASE stcov
    BY <1>0, <2>2 DEF stcov, TypeOK
  <2>3. CASE Error \/ Signal
    BY <2>3 DEF Error, Signal
  <2>4. CASE Statement
    BY <2>4 DEF Statement, AssignLimit, AssignProfile, TraceStcount, AssignErrlimit,
                asg16, Raise, Done, Stop, Leave
  <2>5. CASE UNCHANGED vars
    BY <2>5 DEF vars
  <2> QED BY <2>1, <2>2, <2>3, <2>4, <2>5 DEF Next
<1>3. CountOK
  BY <1>1, <1>2 DEF CInv
<1> HIDE DEF CInv
<1> USE <1>0, <1>1, <1>2, <1>3 DEF CountOK, Charged, Stcount, InGcc, TypeOK, counters, options, history
<1>4. CASE stgcc
  BY <1>4 DEF stgcc, Gcc, Gcc2, Gcc3, StartCount, EachStmt, Cap, Least
<1>5. CASE Begin
  BY <1>5 DEF Begin
<1>6. CASE Test \/ Push
  BY <1>6 DEF Test, Push
<1>7. CASE Poll
  BY <1>7 DEF Poll
<1>8. CASE Polled
  BY <1>8 DEF Polled, Recompute
<1>9. CASE Count
  BY <1>9 DEF Count, Charge
<1>10. CASE Reset \/ Move
  BY <1>10 DEF Reset, Move
<1>11. CASE stcov \/ Error \/ Signal
  BY <1>11 DEF stcov, Error, Signal
<1>12. CASE Statement
  <2>1. ASSUME NEW n \in Limits, AssignLimit(n) PROVE CountOK'
    BY <2>1, ClockAssumption DEF AssignLimit
  <2>2. ASSUME NEW n \in ErrLimits, AssignErrlimit(n) PROVE CountOK'
    BY <2>2 DEF AssignErrlimit
  <2>3. CASE asg16
    BY <2>3 DEF asg16, Elapsed, Recompute
  <2>4. CASE Raise \/ Done \/ Stop
    BY <2>4 DEF Raise, Done, Stop, Leave
  <2>5. ASSUME NEW v \in Profiles, AssignProfile(v) PROVE CountOK'
    BY <2>5 DEF AssignProfile
  <2>6. ASSUME NEW on \in Traces, TraceStcount(on) PROVE CountOK'
    BY <2>6 DEF TraceStcount
  <2> QED BY <1>12, <2>1, <2>2, <2>3, <2>4, <2>5, <2>6 DEF Statement
<1>13. CASE UNCHANGED vars
  BY <1>13 DEF vars, StartCount, EachStmt, Cap, Least
<1> QED BY <1>4, <1>5, <1>6, <1>7, <1>8, <1>9, <1>10, <1>11, <1>12, <1>13 DEF Next, stmgo

(* &STCOUNT is the number of statements begun, whatever limits the program *)
(* assigns, wherever it polls and whatever errors it traps, up to the      *)
(* first error 244 and until something disturbs the clock (stmgo, stgcc,   *)
(* asg16 and acs19 together).                                              *)
THEOREM Counting == Spec => []ExactCount
<1>1. Init => CInv
  BY CountInit
<1>2. CInv /\ [Next]_vars => CInv'
  BY TypeNext, CalmNext, CountNext DEF CInv, TInv
<1>3. CInv => ExactCount
  BY DEF CInv, CountOK, ExactCount
<1> QED BY <1>1, <1>2, <1>3, PTL DEF Spec
-----------------------------------------------------------------------------
(* A pending signal whose counters nothing has overwritten: stmgo will see *)
(* it, by the way it has come.                                             *)
SeenInv ==
    brkpnd /\ ~late =>
        /\ pc \notin Written
        /\ pc \in {"run", "next", "error"} => stmct = 1
        /\ pc = "test" => stmct \in {0, 1}
        /\ pc \in {"run", "next", "test", "push", "poll"} => polct = 1

LEMMA SeenNext == TypeOK /\ SeenInv /\ [Next]_vars => SeenInv'
<1> SUFFICES ASSUME TypeOK, SeenInv, [Next]_vars PROVE SeenInv'
  OBVIOUS
<1> USE DEF SeenInv, Written, TypeOK
<1>1. CASE stgcc
  BY <1>1 DEF stgcc, Gcc, Gcc2, Gcc3, history
<1>2. CASE Begin \/ Test \/ Push
  <2>1. CASE Begin
    BY <2>1 DEF Begin, history
  <2>2. CASE Test \/ Push
    BY <2>2 DEF Test, Push, counters, history
  <2> QED BY <1>2, <2>1, <2>2
<1>3. CASE Poll \/ Polled
  <2>1. CASE Poll
    BY <2>1 DEF Poll, history
  <2>2. CASE Polled
    BY <2>2 DEF Polled, Recompute, counters, history
  <2> QED BY <1>3, <2>1, <2>2
<1>4. CASE Count \/ Reset \/ Move
  BY <1>4 DEF Count, Reset, Move, counters, history
<1>5. CASE stcov
  BY <1>5 DEF stcov, Recompute, counters, history
<1>6. CASE Error
  BY <1>6 DEF Error, counters, history
<1>7. CASE Signal
  BY <1>7 DEF Signal, Catch
<1>8. CASE Statement
  BY <1>8 DEF Statement, AssignLimit, AssignProfile, TraceStcount, AssignErrlimit, asg16,
              Recompute, Raise, Done, Stop, Leave, counters, history
<1>9. CASE UNCHANGED vars
  BY <1>9 DEF vars, counters, history
<1> QED BY <1>1, <1>2, <1>3, <1>4, <1>5, <1>6, <1>7, <1>8, <1>9 DEF Next, stmgo

(* A pending interrupt is raised as the next statement begins, wherever    *)
(* the signals come, except in what catchbrk can be undone by: the code    *)
(* between stgo4 and the end of stmgo, and stgcc (catchbrk, stmgo, zyspl). *)
THEOREM Seen == Spec => []InterruptSeen
<1>1. Init => SeenInv
  BY DEF Init, SeenInv
<1>2. SeenInv => InterruptSeen
  BY DEF SeenInv, InterruptSeen
<1> QED BY <1>1, <1>2, ClockTypes, SeenNext, PTL DEF Spec

-----------------------------------------------------------------------------
(* Before the first signal no countdown starts at zero or passes it,       *)
(* unless the limit is 0.                                                  *)
Settled == {"run", "next", "asg16", "error", "stopped"}

CountdownOK ==
    kvstl # 0 =>
        /\ ~InGcc => 1 <= stmcs
        /\ pc \in Settled => 1 <= stmct /\ stmct <= stmcs
        /\ pc = "test" => 0 <= stmct /\ stmct <= stmcs
        /\ pc = "gcc2" => stmcs = StartCount
        /\ pc = "gcc3" => stmct = stmcs /\ 1 <= stmcs
        /\ pc = "move" => reg = stmcs
        /\ ~InGcc /\ pc # "polled" => 1 <= polct

LookInv == signals = MaxSignals => ~brkpnd /\ CountdownOK

(* What stgcc starts from is never zero, unless the limit is. *)
LEMMA GccPositive ==
    ASSUME TypeOK, kvstl # 0
    PROVE  kvstl \in Int /\ 1 <= StartCount /\ 1 <= PollTimes
  BY ClockAssumption DEF TypeOK, StartCount, PollTimes, Cap, EachStmt, Least

LEMMA LookNext == TypeOK /\ LookInv /\ [Next]_vars => LookInv'
<1> SUFFICES ASSUME TypeOK, LookInv, [Next]_vars PROVE LookInv'
  OBVIOUS
<1>1. CASE Signal
  BY <1>1 DEF Signal, TypeOK, LookInv
<1> SUFFICES ASSUME ~Signal, signals' = MaxSignals PROVE ~brkpnd' /\ CountdownOK'
  BY <1>1 DEF LookInv
<1>2. signals = MaxSignals
  <2>1. CASE stgcc \/ stmgo
    BY <2>1 DEF stgcc, Gcc, Gcc2, Gcc3, stmgo, Begin, Test, Push, Poll, Polled, Count,
                Reset, Move
  <2>2. CASE stcov \/ Error
    BY <2>2 DEF stcov, Error
  <2>3. CASE Statement
    BY <2>3 DEF Statement, AssignLimit, AssignProfile, TraceStcount, AssignErrlimit,
                asg16, Raise, Done, Stop, Leave
  <2>4. CASE UNCHANGED vars
    BY <2>4 DEF vars
  <2> QED BY <2>1, <2>2, <2>3, <2>4 DEF Next
<1>3. ~brkpnd /\ CountdownOK
  BY <1>2 DEF LookInv
<1> HIDE DEF LookInv
<1> USE <1>3 DEF CountdownOK, Settled, InGcc, TypeOK, counters, options, history
<1>4. CASE stgcc
  <2>1. kvstl # 0 => kvstl \in Int /\ 1 <= StartCount /\ 1 <= PollTimes
    BY GccPositive
  <2>2. StartCount' = StartCount /\ kvstl' = kvstl
    <3>1. UNCHANGED <<kvstl, polcs, kvpfl, r_stc>>
      BY <1>4 DEF stgcc, Gcc, Gcc2, Gcc3
    <3> HIDE DEF CountdownOK, TypeOK
    <3> QED BY ONLY <3>1, Zenon DEF StartCount, EachStmt, Cap, Least
  <2>3. StartCount \in Int /\ PollTimes \in Int
    BY GccTypes
  <2> QED BY <1>4, <2>1, <2>2, <2>3 DEF stgcc, Gcc, Gcc2, Gcc3
<1>5. CASE Begin \/ Test \/ Push
  BY <1>5 DEF Begin, Test, Push
<1>6. CASE Poll \/ Polled
  BY <1>6 DEF Poll, Polled, Recompute
<1>7. CASE Count \/ Reset \/ Move
  BY <1>7 DEF Count, Reset, Move
<1>8. CASE stcov \/ Error
  BY <1>8 DEF stcov, Error, Recompute
<1>9. CASE Statement
  <2>1. CASE asg16 \/ \E n \in Limits : AssignLimit(n)
    BY <2>1 DEF asg16, AssignLimit, Recompute
  <2>2. ASSUME NEW v \in Profiles, AssignProfile(v) PROVE ~brkpnd' /\ CountdownOK'
    BY <2>2 DEF AssignProfile, Recompute
  <2>3. CASE \E on \in Traces : TraceStcount(on)
    BY <2>3 DEF TraceStcount, Recompute
  <2>4. CASE \E n \in ErrLimits : AssignErrlimit(n)
    BY <2>4 DEF AssignErrlimit
  <2>5. CASE Raise \/ Done \/ Stop
    BY <2>5 DEF Raise, Done, Stop, Leave
  <2> QED BY <1>9, <2>1, <2>2, <2>3, <2>4, <2>5 DEF Statement
<1>10. CASE UNCHANGED vars
  <2>1. StartCount' = StartCount
    <3>1. UNCHANGED <<kvstl, polcs, kvpfl, r_stc>>
      BY <1>10 DEF vars
    <3> QED BY ONLY <3>1, Zenon DEF StartCount, EachStmt, Cap, Least
  <2> QED BY <1>10, <2>1 DEF vars
<1> QED BY <1>4, <1>5, <1>6, <1>7, <1>8, <1>9, <1>10 DEF Next, stmgo

(* stmgo looks again, sooner or later, at the limit and for signals: the   *)
(* countdown and the poll count never start at zero nor pass it, whatever  *)
(* limits, profiles, traces and errors there are (stmgo, stgcc, asg16).    *)
THEOREM Looking == Spec => []CountdownInv
<1>1. Init => LookInv
  BY DEF Init, LookInv, CountdownOK, Settled, InGcc
<1>2. LookInv => CountdownInv
  BY DEF LookInv, CountdownOK, Settled, InGcc, CountdownInv
<1> QED BY <1>1, <1>2, ClockTypes, LookNext, PTL DEF Spec
-----------------------------------------------------------------------------
(* What the limit has left is kept in kvstc, less what has been counted    *)
(* down since (or, from stgo3 to stgo4, less reg), through error 244 and   *)
(* the ten statements it grants.                                           *)
Allowed == due - begun

DueOK ==
    /\ pc \in Settled \cup {"test", "push", "poll", "polled"} =>
           kvstc - (stmcs - stmct) = Allowed
    /\ pc \in {"push", "poll", "polled"} => stmct = 0
    /\ pc \in {"poll", "polled"} => reg = stmcs
    /\ pc = "count" \/ (InGcc /\ back = "count") => kvstc - reg = Allowed
    /\ InGcc /\ back # "count" => kvstc = Allowed
    /\ pc = "gcc2" => stmcs = StartCount
    /\ pc = "gcc3" => stmct = stmcs
    /\ pc \in {"reset", "move", "stcov"} => kvstc = Allowed
    /\ pc = "move" => reg = stmcs
    /\ IF pc = "stcov" THEN kvstc <= 0 ELSE 0 < kvstc
    /\ pc # "gcc" => stmcs <= kvstl

DueInv ==
    quiet => /\ signals = MaxSignals
             /\ pc = "asg16" => errft = 0
             /\ kvstl # 0
             /\ kvstl < 0 => kvstc < 0 /\ pc # "stcov"
             /\ 0 < kvstl => DueOK

LEMMA DueInit == Init => DueInv
  BY ClockAssumption DEF Init, DueInv, DueOK, Allowed, InGcc, Settled

(* Where the clock is undisturbed stgcc starts at no more than the limit.  *)
LEMMA GccBound ==
    ASSUME TypeOK, Calm, quiet, 0 < kvstl
    PROVE  StartCount \in Int /\ StartCount <= kvstl
  BY ClockAssumption DEF TypeOK, Calm, StartCount, Cap, EachStmt, Least

LEMMA DueNext == CInv /\ DueInv /\ [Next]_vars => DueInv'
<1> SUFFICES ASSUME CInv, DueInv, [Next]_vars, quiet'
             PROVE  /\ signals' = MaxSignals
                    /\ pc' = "asg16" => errft' = 0
                    /\ kvstl' # 0
                    /\ kvstl' < 0 => kvstc' < 0 /\ pc' # "stcov"
                    /\ 0 < kvstl' => DueOK'
  BY DEF DueInv
<1>0. TypeOK /\ Calm
  BY DEF CInv, TInv
<1>1. quiet /\ kvpfl = 0 /\ r_stc = FALSE /\ ~brkpnd
  BY <1>0, CalmNext DEF Calm
<1>2. errft = 0 => CountOK
  BY <1>1 DEF CInv
<1>3. /\ signals = MaxSignals
      /\ pc = "asg16" => errft = 0
      /\ kvstl # 0
      /\ kvstl < 0 => kvstc < 0 /\ pc # "stcov"
      /\ 0 < kvstl => DueOK
  BY <1>1 DEF DueInv
<1> HIDE DEF CInv, DueInv
<1> USE <1>0, <1>1, <1>3 DEF DueOK, Allowed, InGcc, Settled, TypeOK, counters, options, history
<1>4. CASE stgcc
  <2>1. 0 < kvstl => StartCount \in Int /\ StartCount <= kvstl
    BY GccBound
  <2>2. StartCount' = StartCount
    <3>1. UNCHANGED <<kvstl, polcs, kvpfl, r_stc>>
      BY <1>4 DEF stgcc, Gcc, Gcc2, Gcc3
    <3> QED BY ONLY <3>1, Zenon DEF StartCount, EachStmt, Cap, Least
  <2> QED BY <1>4, <2>1, <2>2 DEF stgcc, Gcc, Gcc2, Gcc3
<1>5. CASE Begin
  BY <1>5 DEF Begin
<1>6. CASE Test \/ Push
  BY <1>6 DEF Test, Push
<1>7. CASE Poll \/ Polled
  BY <1>7 DEF Poll, Polled, Recompute
<1>8. CASE Count
  BY <1>8 DEF Count, Charge
<1>9. CASE Reset \/ Move
  BY <1>9 DEF Reset, Move
<1>10. CASE stcov
  BY <1>10 DEF stcov, Recompute
<1>11. CASE Error \/ Signal
  BY <1>11 DEF Error, Signal
<1>12. CASE Statement
  <2>1. ASSUME NEW n \in Limits, AssignLimit(n) PROVE DueInv'
    BY <2>1 DEF AssignLimit, DueInv
  <2>2. CASE asg16
    <3>1. /\ kvstc' = new - begun /\ due' = new /\ kvstl' = new
          /\ new >= 0 => new > begun
      BY <1>2, <2>2 DEF asg16, Elapsed, CountOK, Stcount
    <3> QED BY <2>2, <3>1 DEF asg16, Recompute
  <2>3. ASSUME NEW n \in ErrLimits, AssignErrlimit(n) PROVE DueInv'
    BY <2>3 DEF AssignErrlimit, DueInv
  <2>4. CASE (\E v \in Profiles : AssignProfile(v)) \/ (\E on \in Traces : TraceStcount(on))
    BY <2>4 DEF AssignProfile, TraceStcount
  <2>5. CASE Raise \/ Done \/ Stop
    BY <2>5 DEF Raise, Done, Stop, Leave
  <2> QED BY <1>12, <2>1, <2>2, <2>3, <2>4, <2>5 DEF Statement, DueInv
<1>13. CASE UNCHANGED vars
  <2>1. StartCount' = StartCount
    <3>1. UNCHANGED <<kvstl, polcs, kvpfl, r_stc>>
      BY <1>13 DEF vars
    <3> QED BY ONLY <3>1, Zenon DEF StartCount, EachStmt, Cap, Least
  <2> QED BY <1>13, <2>1 DEF vars
<1> QED BY <1>4, <1>5, <1>6, <1>7, <1>8, <1>9, <1>10, <1>11, <1>12, <1>13 DEF Next, stmgo

LEMMA Undisturbed == Spec => [](CInv /\ LookInv /\ DueInv)
<1>1. Init => CInv /\ LookInv /\ DueInv
  <2>1. Init => LookInv
    BY DEF Init, LookInv, CountdownOK, Settled, InGcc
  <2> QED BY <2>1, CountInit, DueInit
<1>2. CInv /\ [Next]_vars => CInv'
  BY TypeNext, CalmNext, CountNext DEF CInv, TInv
<1>3. CInv /\ LookInv /\ [Next]_vars => LookInv'
  BY LookNext DEF CInv, TInv
<1> QED BY <1>1, <1>2, <1>3, DueNext, PTL DEF Spec

(* The first error 244 is late by less than the limit itself, for every    *)
(* limit and poll interval, whatever limits are assigned in mid-countdown  *)
(* (stmgo, stgcc, asg16).                                                  *)
THEOREM Enforcing == Spec => []Overrun
<1>1. CInv /\ LookInv /\ DueInv => Overrun
  BY DEF CInv, TInv, TypeOK, LookInv, CountdownOK, DueInv, DueOK, Allowed, Settled, InGcc, Overrun
<1> QED BY <1>1, Undisturbed, PTL

(* Error 244 never comes while the limit has statements left, whatever     *)
(* limits are assigned in the middle of a countdown (stmgo, asg16, stcov). *)
THEOREM Timely == Spec => NotPremature
<1>1. ASSUME CInv, DueInv, Next, quiet, errft' > errft PROVE begun >= due
  <2>1. TypeOK
    BY <1>1 DEF CInv, TInv
  <2>2. CASE stcov
    <3>1. kvstl > 0 /\ DueOK
      BY <1>1, <2>1, <2>2 DEF stcov, DueInv, TypeOK
    <3> QED BY <2>1, <2>2, <3>1 DEF stcov, DueOK, Allowed, TypeOK
  <2>3. CASE ~stcov
    <3>1. stgcc \/ stmgo => errft' = errft
      BY DEF stgcc, Gcc, Gcc2, Gcc3, stmgo, Begin, Test, Push, Poll, Polled, Count,
             Reset, Move
    <3>2. Error \/ Signal => errft' = errft
      BY DEF Error, Signal
    <3>3. Statement => errft' = errft
      BY DEF Statement, AssignLimit, AssignProfile, TraceStcount, AssignErrlimit,
             asg16, Raise, Done, Stop, Leave
    <3>4. errft' = errft
      BY <1>1, <2>3, <3>1, <3>2, <3>3 DEF Next
    <3> QED BY <1>1, <2>1, <3>4 DEF TypeOK
  <2> QED BY <2>2, <2>3
<1>2. CInv /\ DueInv /\ [Next]_vars => [quiet /\ errft' > errft => begun >= due]_vars
  BY <1>1
<1> QED BY <1>2, Undisturbed, PTL DEF Spec, NotPremature
=============================================================================
