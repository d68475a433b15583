----------------------------- MODULE MCSession -----------------------------
(* An instance of Session: the files of a small directory and the command  *)
(* lines that are tried on them.                                           *)
EXTENDS Session

F(base) == Name("", base, "")
Statement == [kind |-> "statement"]
Bad       == [kind |-> "bad"]
End       == [kind |-> "end"]
Incl(f)   == [kind |-> "include", file |-> f]

\* A program in two parts; an include file that is in a directory of the path and
\* includes another; one that ends the program; one that is wrong; a script.
Directory ==
    Name("", "a", "") :> <<Statement, Incl(F("i")), Statement, End, Statement, Statement, Statement>>
    @@ Name("", "b", ".spt") :> <<Statement>>
    @@ Name("lib", "i", "") :> <<Statement, Incl(F("j")), Statement>>
    @@ Name("src", "j", "") :> <<Statement, Incl(F("k"))>>
    @@ Name("bin", "j", "") :> <<Statement, Statement, Incl(F("e"))>>
    @@ Name("src", "c", "") :> <<Statement, Incl(F("j")), Incl(F("none")), End>>
    @@ F("d") :> <<Incl(F("e")), Statement>>
    @@ F("e") :> <<End, Statement, Statement>>
    @@ F("w") :> <<Statement, Bad, Statement>>
    @@ F("g") :> <<End, Statement>>
    @@ F("h") :> <<[kind |-> "#!"], Statement, End>>
    @@ F("empty") :> <<>>
    @@ Keyboard :> <<Statement>>
    @@ Shell :> <<Statement, Incl(F("w")), Statement, End, Statement, Statement>>

File0(f) == [opts |-> <<>>, name |-> f]
Opt(letters) == [opts |-> letters, name |-> NoName]
Listing == F("list")

CommandLines ==
    { <<File0(F("a")), File0(F("x"))>>,
      <<Opt(<<"r">>), File0(F("a")), File0(F("b"))>>,
      <<Opt(<<"r">>), File0(F("a")), File0(F("h")), File0(F("x"))>>,
      <<Opt(<<"r">>), File0(F("g")), File0(F("x"))>>,
      <<File0(F("b")), File0(Hyphen), File0(F("x"))>>,
      <<Opt(<<"r">>), File0(Hyphen), File0(F("x"))>>,
      <<Opt(<<"k", "o">>), File0(Listing), File0(Name("src", "c", ""))>>,
      <<[opts |-> <<"l", "r", "o">>, name |-> Listing], File0(F("d")), File0(F("b"))>>,
      <<Opt(<<"l", "u">>), File0(F("x")), File0(F("d"))>>,
      <<File0(F("empty")), File0(F("h")), File0(F("x"))>>,
      <<Opt(<<"n">>), File0(F("h")), File0(F("x")), File0(F("x"))>>,
      <<Opt(<<"o">>), Opt(<<"r">>)>>, <<File0(F("x"))>>, <<Opt(<<"o">>), File0(Hyphen)>> }

\* From a terminal: a program in a file, on standard input, and both; and TERMINAL
\* in a file.
AtTerminal ==
    { <<File0(F("a")), File0(F("x"))>>, <<Opt(<<"r">>), File0(Hyphen)>>,
      <<File0(F("b")), File0(Hyphen), File0(F("x"))>>,
      <<[opts |-> <<"T">>, name |-> F("t")], Opt(<<"o">>), File0(Listing), File0(F("a"))>> }

AllStarts == {[argv |-> a, shell |-> s] : a \in CommandLines, s \in {"file", "pipe"}}
                 \cup {[argv |-> a, shell |-> "tty"] : a \in AtTerminal}
Variables == "SETL4PATH" :> <<"lib">>
Includable == {F("i"), F("w"), F("e"), F("none")}
==============================================================================
