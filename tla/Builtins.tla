------------------------------- MODULE Builtins -------------------------------
(***************************************************************************)
(* The commands psh runs inside itself (src/internal/pipery/session.go):   *)
(* what each does to the session's working directory and environment, and  *)
(* the exit code it reports, as functions of the parsed command. A session *)
(* and a replay of its log run the same functions.                         *)
(*                                                                         *)
(* A path is the sequence of its names; a file system is a function from   *)
(* the paths that exist to "dir" or "file"; an environment is a function   *)
(* from the names that are set to their values.                            *)
(***************************************************************************)
EXTENDS Integers, SequencesExt

CONSTANTS
  ProcessHome,  \* what os.UserHomeDir returns: <<path>> of psh's own home, or <<>>
                \* when psh was started without HOME and it fails
  Up, Tilde     \* the names ".." and "~"

\* What a builtin leaves behind: the session's state, the exit code, and whether
\* the loop that called it must stop (the shouldExit result).
Outcome(cwd, env, code, exits) ==
  [cwd |-> cwd, env |-> env, code |-> code, exits |-> exits]

\* filepath.Join and filepath.Abs: ".." removes the name before it, lexically.
CleanPath(path) ==
  FoldLeft(LAMBDA done, name :
             IF name # Up THEN Append(done, name)
             ELSE IF done = <<>> THEN <<>> ELSE Front(done),
           <<>>, path)

HomeOr(other) == IF ProcessHome = <<>> THEN other ELSE ProcessHome[1]

\* The argument of cd: nothing is the home directory, or "" when there is none; "~" and
\* "~/p" are the home directory and p below it, or names like any other; "/p" is
\* absolute and anything else starts at the session's directory.
ResolveTarget(cwd, target) ==
  CASE target.kind = "none"  -> CleanPath(HomeOr(cwd))
    [] target.kind = "tilde" -> CleanPath(HomeOr(Append(cwd, Tilde)) \o target.path)
    [] target.kind = "abs"   -> CleanPath(target.path)
    [] target.kind = "rel"   -> CleanPath(cwd \o target.path)

RunPwd(cwd, env) == Outcome(cwd, env, 0, FALSE)

\* Only a directory that exists now becomes the session's directory.
RunCdUnchecked(cwd, env, target, tree) ==
  Outcome(ResolveTarget(cwd, target), env,
          IF ResolveTarget(cwd, target) \in DOMAIN tree THEN 0 ELSE 1, FALSE)

RunCd(cwd, env, target, tree) ==
  LET path == ResolveTarget(cwd, target)
  IN  IF path \in DOMAIN tree /\ tree[path] = "dir"
        THEN Outcome(path, env, 0, FALSE)
        ELSE Outcome(cwd, env, 1, FALSE)

\* export KEY=VALUE; without "=" or with an empty key the argument is malformed.
RunExport(cwd, env, key, value) ==
  Outcome(cwd, [k \in DOMAIN env \cup {key} |-> IF k = key THEN value ELSE env[k]],
          0, FALSE)

\* unset KEY, whether or not it is set.
RunUnset(cwd, env, key) ==
  Outcome(cwd, [k \in DOMAIN env \ {key} |-> env[k]], 0, FALSE)

\* A malformed export, or an unset of the empty name.
RunMalformed(cwd, env) == Outcome(cwd, env, 2, FALSE)

\* exit [CODE] or quit [CODE]; an argument that is not a number does not exit.
RunExit(cwd, env, code) == Outcome(cwd, env, code, TRUE)
RunExitNotANumber(cwd, env) == Outcome(cwd, env, 2, FALSE)

\* tryBuiltin: which of them a parsed line names.
BuiltinOps == {"pwd", "exit", "exitNotANumber", "cd", "export", "unset", "malformed"}

RunBuiltinForgetsExit(cmd, cwd, env, tree) ==
  CASE cmd.op = "pwd"            -> RunPwd(cwd, env)
    [] cmd.op = "exit"           -> [RunExit(cwd, env, cmd.code) EXCEPT !.exits = cmd.code = 0]
    [] cmd.op = "exitNotANumber" -> RunExitNotANumber(cwd, env)
    [] cmd.op = "cd"             -> RunCd(cwd, env, cmd.target, tree)
    [] cmd.op = "export"         -> RunExport(cwd, env, cmd.key, cmd.value)
    [] cmd.op = "unset"          -> RunUnset(cwd, env, cmd.key)
    [] cmd.op = "malformed"      -> RunMalformed(cwd, env)

RunBuiltin(cmd, cwd, env, tree) ==
  CASE cmd.op = "pwd"            -> RunPwd(cwd, env)
    [] cmd.op = "exit"           -> RunExit(cwd, env, cmd.code)
    [] cmd.op = "exitNotANumber" -> RunExitNotANumber(cwd, env)
    [] cmd.op = "cd"             -> RunCd(cwd, env, cmd.target, tree)
    [] cmd.op = "export"         -> RunExport(cwd, env, cmd.key, cmd.value)
    [] cmd.op = "unset"          -> RunUnset(cwd, env, cmd.key)
    [] cmd.op = "malformed"      -> RunMalformed(cwd, env)
=============================================================================
