------------------------------- MODULE Session -------------------------------
(***************************************************************************)
(* One run of psh outside replay: the session (session.go) driven by one   *)
(* of the loops of App.Run and runREPL (app.go, session.go).               *)
(*                                                                         *)
(*   direct       one program, the arguments after "--"                    *)
(*   shell        the -c strings, in order                                 *)
(*   stdin        the lines of a pipe or a file, run by runREPL            *)
(*   interactive  the lines of a terminal, run by runInteractiveREPL       *)
(*                                                                         *)
(* A line is its parsed command. The user's lines are not known in         *)
(* advance: every step takes any of Commands, a blank line, or the end.    *)
(* log is the sequence of entries passed to logger.Log: what the logger    *)
(* does with them is AsyncLogger's. A ^C at the interactive prompt is      *)
(* answered without touching any of this state, so it has no action.       *)
(***************************************************************************)
EXTENDS Builtins

CONSTANTS
  Commands,    \* builtin lines a user may type, records for RunBuiltin
  ChildCodes,  \* what a child that started can end with; -1 is a signal
  Trees,       \* states the file system may be in
  StartCwd, StartEnv,  \* what newSession is given
  Modes,       \* which of the modes above are exercised
  MaxLines     \* BOUND: lines read in one run

ASSUME CommandsAreBuiltins == \A c \in Commands : c.op \in BuiltinOps
ASSUME ExitCodesAreInts == \A c \in Commands : c.op = "exit" => c.code \in Int
ASSUME ChildCodesAssumption == ChildCodes \subseteq (-1)..255
ASSUME StartEnvAssumption == IsFiniteSet(DOMAIN StartEnv)
ASSUME MaxLinesAssumption == MaxLines \in Nat

VARIABLES
  mode, failOnError,           \* how the run was started
  cwd, env,                    \* the session's state
  commandCount, failureCount,  \* the session's counters
  tree,                        \* the file system
  lines,                       \* lines consumed so far
  lastExitCode,                \* the loop's local
  log,                         \* entries passed to logger.Log
  phase,                       \* "running", "finished" or "aborted"
  exitCode,                    \* what Run returns
  summary                      \* what printRunSummary printed

session == <<cwd, env, commandCount, failureCount>>
outcome == <<phase, exitCode, summary>>
vars == <<mode, failOnError, session, tree, lines, lastExitCode, log, outcome>>

External == [op |-> "external"]
NoSummary == [commands |-> 0, failed |-> 0, exit |-> 0]

Init ==
  /\ mode \in Modes /\ failOnError \in BOOLEAN
  /\ cwd = StartCwd /\ env = StartEnv
  /\ commandCount = 0 /\ failureCount = 0
  /\ tree \in Trees
  /\ lines = 0 /\ lastExitCode = 0 /\ log = <<>>
  /\ phase = "running" /\ exitCode = 0 /\ summary = NoSummary

-----------------------------------------------------------------------------
\* finishRun: the summary is printed from the session's counters.
Finish(code) ==
  /\ phase' = "finished"
  /\ exitCode' = code
  /\ summary' = [commands |-> commandCount', failed |-> failureCount', exit |-> code]

\* "return 1, err": an error of psh itself, reported without a summary.
Abort ==
  /\ phase' = "aborted"
  /\ exitCode' = 1
  /\ UNCHANGED summary

\* recordResult.
RecordResultFailuresApart(code) ==
  IF code # 0 THEN failureCount' = failureCount + 1 /\ UNCHANGED commandCount
              ELSE commandCount' = commandCount + 1 /\ UNCHANGED failureCount

RecordResultBeforeExit(code) ==
  /\ commandCount' = commandCount + 1
  /\ failureCount' = failureCount + (IF code > 0 THEN 1 ELSE 0)

RecordResult(code) ==
  /\ commandCount' = commandCount + 1
  /\ failureCount' = failureCount + (IF code # 0 THEN 1 ELSE 0)

\* What each loop does with the result of a line: `last` says that there is no
\* other (the last -c, or a final line that no newline ends).
NextLineChecksFailureLate(code, exits, last) ==
  /\ lastExitCode' = code
  /\ IF exits \/ last \/ mode = "direct" THEN Finish(code)
     ELSE IF failOnError /\ code # 0 /\ lines > 0 THEN Finish(code)
     ELSE UNCHANGED outcome

NextLineStale(code, exits, last) ==
  /\ lastExitCode' = IF code # 0 THEN code ELSE lastExitCode
  /\ IF exits \/ last \/ mode = "direct" \/ (failOnError /\ code # 0)
       THEN Finish(lastExitCode')
       ELSE UNCHANGED outcome

NextLine(code, exits, last) ==
  /\ lastExitCode' = code
  /\ IF exits \/ last \/ mode = "direct" \/ (failOnError /\ code # 0)
       THEN Finish(code)
       ELSE UNCHANGED outcome

\* A line is there to run: one argument list in direct mode, no final line
\* without a newline on a terminal.
Reads(last) ==
  /\ phase = "running" /\ lines < MaxLines
  /\ mode = "direct" => lines = 0
  /\ mode = "interactive" => ~last
  /\ lines' = lines + 1
  /\ UNCHANGED <<mode, failOnError, tree>>

\* The log entry of a command: the state it found and the state it left.
EntryEnvTooEarly(cmd, out) ==
  [cmd |-> cmd, code |-> out.code, beforeCwd |-> cwd, cwd |-> out.cwd,
   beforeEnv |-> env, env |-> env]

Entry(cmd, out) ==
  [cmd |-> cmd, code |-> out.code, beforeCwd |-> cwd, cwd |-> out.cwd,
   beforeEnv |-> env, env |-> out.env]

\* The whole of a command that ran or failed to start.
RunCommand(cmd, out, last) ==
  /\ Reads(last)
  /\ cwd' = out.cwd /\ env' = out.env
  /\ log' = Append(log, Entry(cmd, out))
  /\ RecordResult(out.code)
  /\ NextLine(out.code, out.exits, last)

\* runLine with a builtin.
BuiltinLine(cmd, last) ==
  /\ mode # "direct"
  /\ RunCommand(cmd, RunBuiltin(cmd, cwd, env, tree), last)

\* runDirectCommand, or runLine with anything that is not a builtin: the child
\* starts in the session's directory, which must still be there.
ExternalLine(code, last) ==
  /\ cwd \in DOMAIN tree /\ tree[cwd] = "dir"
  /\ RunCommand(External, Outcome(cwd, env, code, FALSE), last)

\* cmd.Start fails: 127 when the program is not found, 1 for anything else.
StartFails(code, last) ==
  /\ code = 127 \/ code = 1
  /\ RunCommand(External, Outcome(cwd, env, code, FALSE), last)

\* cmd.StdinPipe fails: no entry, but the command is counted. Only a command
\* that is given psh's stdin has a pipe: a direct one, or the only -c.
StdinPipeFails ==
  /\ Reads(TRUE)
  /\ mode \in {"direct", "shell"} /\ lines = 0
  /\ RecordResult(0)
  /\ Abort
  /\ UNCHANGED <<cwd, env, log, lastExitCode>>

\* runLine with a blank line: exit code 0, nothing logged or counted. runREPL
\* leaves lastExitCode alone, the -c loop does not.
BlankLine(last) ==
  /\ mode # "direct"
  /\ Reads(last)
  /\ UNCHANGED <<session, log>>
  /\ IF mode = "shell" THEN NextLine(0, FALSE, last)
                       ELSE ~last /\ UNCHANGED <<lastExitCode, outcome>>

\* EOF on an empty line.
EndOfInput ==
  /\ phase = "running" /\ mode \in {"stdin", "interactive"}
  /\ UNCHANGED <<mode, failOnError, session, tree, lines, lastExitCode, log>>
  /\ Finish(lastExitCode)

\* Reading the next line, or writing the prompt, fails.
ReadFails ==
  /\ phase = "running" /\ mode \in {"stdin", "interactive"}
  /\ Abort
  /\ UNCHANGED <<mode, failOnError, session, tree, lines, lastExitCode, log>>

\* A child, or any other program, makes or removes files and directories.
TreeChanges ==
  /\ phase = "running"
  /\ tree' \in Trees
  /\ UNCHANGED <<mode, failOnError, session, lines, lastExitCode, log, outcome>>

Next ==
  \/ \E last \in BOOLEAN :
       \/ \E cmd \in Commands : BuiltinLine(cmd, last)
       \/ \E code \in ChildCodes : ExternalLine(code, last)
       \/ \E code \in {1, 127} : StartFails(code, last)
       \/ BlankLine(last)
  \/ StdinPipeFails
  \/ EndOfInput
  \/ ReadFails
  \/ TreeChanges

Spec == Init /\ [][Next]_vars

-----------------------------------------------------------------------------
\* Type correctness of the session, its counters and the result of the run.
TypeOK ==
  /\ mode \in Modes /\ failOnError \in BOOLEAN
  /\ IsFiniteSet(DOMAIN env) /\ tree \in Trees
  /\ commandCount \in 0..MaxLines /\ failureCount \in 0..commandCount
  /\ lines \in 0..MaxLines /\ Len(log) <= lines
  /\ phase \in {"running", "finished", "aborted"}
  /\ lastExitCode \in Int /\ exitCode \in Int

\* The entries chain: each command's recorded "before" is what the previous one
\* left, from the initial state to the session's present one. A replay that
\* starts every command from its entry relies on it.
LogChains ==
  /\ \A i \in 1..Len(log) :
       LET before == IF i = 1 THEN [cwd |-> StartCwd, env |-> StartEnv] ELSE log[i - 1]
       IN  log[i].beforeCwd = before.cwd /\ log[i].beforeEnv = before.env
  /\ log # <<>> => Last(log).cwd = cwd /\ Last(log).env = env

\* The printed summary agrees with the log: one entry per counted command, one
\* failure per entry whose exit code is not zero.
SummaryMatchesLog ==
  phase = "finished" =>
    /\ summary.commands = Len(log)
    /\ summary.failed = Cardinality({i \in 1..Len(log) : log[i].code # 0})

\* Nothing runs after exit or quit, nor, with fail_on_error, after the first command
\* that fails: in every loop the run is over, and its code is that command's.
NothingRunsAfterTheEnd ==
  \A i \in 1..Len(log) :
    log[i].cmd.op = "exit" \/ (failOnError /\ log[i].code # 0) =>
      /\ i = Len(log)
      /\ phase = "finished" /\ exitCode = log[i].code

\* A line-by-line session, or a direct command, returns the code of the last
\* command it ran; blank lines do not count.
ExitCodeOfLastCommand ==
  phase = "finished" /\ mode # "shell" =>
    exitCode = IF log = <<>> THEN 0 ELSE Last(log).code

\* A builtin that reports a failure changes neither directory nor environment,
\* and the directory only ever becomes one that exists at that moment.
BadPathsDoNotPoison ==
  [][/\ log' # log /\ Last(log').code # 0 => UNCHANGED <<cwd, env>>
     /\ cwd' # cwd => cwd' \in DOMAIN tree /\ tree[cwd'] = "dir"]_vars
=============================================================================
