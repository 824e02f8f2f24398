------------------------------- MODULE MCReplay -------------------------------
\* Instances of Replay for TLC: recordings whose entries depend on the ones
\* before them, over a directory that may vanish.
EXTENDS Replay

Home    == <<"home">>
MCHome  == <<Home>>
Scratch == <<"home", "tmp">>

FullTree   == (<<>> :> "dir") @@ (Home :> "dir") @@ (Scratch :> "dir")
WithoutTmp == [p \in DOMAIN FullTree \ {Scratch} |-> FullTree[p]]
MCTrees    == {FullTree, WithoutTmp}

Does(cmd)  == [cmd |-> cmd, code |-> 0, via |-> "line", mode |-> "session"]
Child(c)   == [Does([op |-> "external"]) EXCEPT !.code = c]
CdScratch  == Does([op |-> "cd", target |-> [kind |-> "rel", path |-> <<"tmp">>]])
Pwd        == Does([op |-> "pwd"])
Set        == Does([op |-> "export", key |-> "A", value |-> Home])
Quit       == Does([op |-> "exit", code |-> 3])

\* psh -- pwd, and what its replay logs.
PwdProgram == [Does([op |-> "external", line |-> [op |-> "pwd"]])
                 EXCEPT !.via = "direct", !.mode = "direct"]
\* psh -- "", which does not start.
Nameless == [Does([op |-> "nameless"]) EXCEPT !.via = "direct", !.mode = "direct", !.code = 3]
Replayed(step) == [step EXCEPT !.mode = "replay"]

MCRecordings ==
  {<<CdScratch, Pwd>>, <<Set, Child(0)>>, <<Child(3), Quit>>,
   <<PwdProgram>>, <<Replayed(PwdProgram)>>, <<Nameless>>}

NoEnv       == [k \in {} |-> <<>>]
MCStartEnvs == {NoEnv, "HOME" :> Home}
MCCodes     == {0, 3}

Symmetry == Permutations(Replays)
=============================================================================
