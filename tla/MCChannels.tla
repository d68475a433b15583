----------------------------- MODULE MCChannels -----------------------------
(* An instance of Channels: X is associated with a file, standard input or  *)
(* a command on one channel or with a command on another, in every order,  *)
(* and Y with what the other is, or with descriptor 1 if it is not open.   *)
EXTENDS Channels, TLC

CONSTANTS A, B, X, Y, File, Sort

Opts(letters) == [name |-> Null, opts |-> [k \in DOMAIN letters |-> [letter |-> letters[k], num |-> 1]]]
Plain(f) == [name |-> f, opts |-> <<>>]

Requests == {Plain(Sort), Plain(Null)}
FilesAndPipes ==
    ({X} \X Dirs \X {A} \X Requests)
        \cup {<<X, "out", A, Plain(File)>>, <<X, "in", A, Plain(Hyphen)>>,
              <<X, "in", A, Opts(<<"U", "R">>)>>, <<X, "out", B, Plain(Sort)>>,
              <<Y, "out", B, Plain(Null)>>}

\* The first argument of the call that opens the file is no name.
NoName == {<<NoVar, "out", A, Plain(File)>>, <<X, "in", B, Plain(Sort)>>}
StandardOutput == {<<Y, "out">>}
Environment == [c \in Chans |-> IF c = B THEN Opts(<<"F">>) ELSE Null]

\* The calls of the first run are among those that the theorems are about.
ASSUME FilesAndPipesSuitable ==
    /\ \A call \in FilesAndPipes : call[1] \in Vars /\ StartedWith(call[4])
    /\ \A c \in Chans : Environment[c] # Null => StartedWith(Environment[c])
==============================================================================
