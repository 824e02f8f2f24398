------------------------------ MODULE MCSession ------------------------------
\* Instances of Session for TLC: a home, a scratch directory that may vanish, a
\* file where a directory is expected, and one variable.
EXTENDS Session

Home    == <<"home">>
MCHome  == <<Home>>
Scratch == <<"tmp">>

FullTree    == (<<>> :> "dir") @@ (Home :> "dir") @@ (Scratch :> "dir")
                 @@ (<<"home", "notes">> :> "file")
WithoutTmp  == [p \in DOMAIN FullTree \ {Scratch} |-> FullTree[p]]
MCTrees     == {FullTree, WithoutTmp}

To(kind, path) == [op |-> "cd", target |-> [kind |-> kind, path |-> path]]

MCCommands ==
  {[op |-> "pwd"], [op |-> "malformed"], [op |-> "exitNotANumber"]}
    \cup {[op |-> "exit", code |-> c] : c \in {0, 3}}
    \cup {To("none", <<>>), To("abs", Scratch), To("rel", <<"..", "tmp">>),
          To("tilde", <<"notes">>)}
    \cup {[op |-> "export", key |-> "HOME", value |-> Scratch]}
    \cup {[op |-> "unset", key |-> "HOME"]}

MCStartEnv   == "HOME" :> Home
MCChildCodes == {-1, 0, 3}
AllModes     == {"direct", "shell", "stdin", "interactive"}
=============================================================================
