----------------------------- MODULE MCCommands ------------------------------
EXTENDS Commands

Texts(chars, n) == UNION {[1 .. k -> chars] : k \in 0 .. n}
Begins(names, rests) == {<<name>> \o r : name \in names, r \in rests}

\* Empty lines, lines that are no command, and short commands.
MCFirstLines ==
    {<<>>, <<" ">>, <<" ", "add", " ", "1">>, <<"add", "sub">>, <<"hello">>,
     <<"print", " ", "1", " ">>, <<"div", " ", "1", " ", "0">>}
    \cup {<<"setrow", " ", ch>> : ch \in {"0", "1", "fit", "-"}}
    \cup {<<"setcol", " ", "-", ch>> : ch \in {"0", "1", "fit"}}

\* Then every command with arguments of some tokens.
MCSecondLines ==
    Begins({"add", "sub", "mul", "div"}, Texts({" ", "-", "1", "8"}, 6))
    \cup Begins({"print", "hello", "logpci"}, Texts({" ", "-", "1"}, 4))
    \cup Begins({"setrow", "setcol"}, Texts({" ", "-", "1", "8", "fit"}, 3))
    \cup Begins({"memdump", "rdisk", "write"}, Texts({" ", "0", "1", "byte"}, 5))

MCLines == <<MCFirstLines, MCSecondLines>>
==============================================================================
