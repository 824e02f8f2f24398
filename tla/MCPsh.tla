--------------------------------- MODULE MCPsh ---------------------------------
\* Instances of Psh for TLC: commands that succeed, fail and end the run. psh is started
\* without HOME: cd alone stays where it is, cd ~ goes to no directory.
EXTENDS Psh, TLC

Start      == <<"start">>
NoHome     == <<>>
MCTrees    == {Start :> "dir"}
MCStartEnv == [k \in {} |-> Start]
MCCommands ==
  {[op |-> "exit", code |-> 3]}
    \cup {[op |-> "cd", target |-> [kind |-> k, path |-> <<>>]] : k \in {"none", "tilde"}}
MCChildCodes == {0}
MCModes    == {"direct", "shell", "stdin"}
=============================================================================
