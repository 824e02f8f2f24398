---------------------------------- MODULE Psh ----------------------------------
(***************************************************************************)
(* A run of psh from its first line to the end of the process (App.Run and *)
(* main): the session of Session with the logger of AsyncLogger under it,  *)
(* and one sink, the log file. The n-th entry the session logs is the      *)
(* logger's entry n; the worker runs beside the session; Close is deferred,*)
(* so it follows the last command whether the run finished or was aborted; *)
(* a signal ends everything at any point.                                  *)
(***************************************************************************)
EXTENDS Integers, SequencesExt, FiniteSets

CONSTANTS
  ProcessHome, Up, Tilde, Commands, ChildCodes, Trees,
  StartCwd, StartEnv, Modes, MaxLines,  \* Session's
  QueueSize                             \* AsyncLogger's

VARIABLES
  mode, failOnError, cwd, env, commandCount, failureCount, tree, lines,
  lastExitCode, log, phase, exitCode, summary,            \* Session's
  entries, chan, dropped, worker, current, sinkAt, openSinks, settled,
  main, closeResults, reportedDrops, logged, accepted     \* AsyncLogger's

sessionVars == <<mode, failOnError, cwd, env, commandCount, failureCount, tree, lines,
                 lastExitCode, log, phase, exitCode, summary>>
loggerVars  == <<entries, chan, dropped, worker, current, sinkAt, openSinks, settled,
                 main, closeResults, reportedDrops, logged, accepted>>
vars == <<sessionVars, loggerVars>>

S == INSTANCE Session
L == INSTANCE AsyncLogger
       WITH NumSinks <- 1, MaxEntries <- MaxLines, Unencodable <- {}

\* What the parts assume of their constants: parseArgs refuses a queue smaller
\* than one entry, and an exit code is what the system gives.
ASSUME PshSizes == QueueSize \in Nat \ {0} /\ MaxLines \in Nat
ASSUME PshCommands ==
  /\ \A c \in Commands : c.op \in S!BuiltinOps /\ (c.op = "exit" => c.code \in Int)
  /\ ChildCodes \subseteq (-1)..255
  /\ IsFiniteSet(DOMAIN StartEnv)

Init == S!Init /\ L!Init

\* The goroutine of Run: a line, with the Log call of the command it ran.
LogTheSuccessful ==
  IF log' # log /\ Last(log').code = 0 THEN L!Log ELSE UNCHANGED loggerVars

LogTheCommand == IF log' # log THEN L!Log ELSE UNCHANGED loggerVars

RunLine == main = "running" /\ S!Next /\ LogTheCommand

\* Run returns, and its deferred Close begins.
DeferredClose == phase # "running" /\ L!BeginClose /\ UNCHANGED sessionVars

\* The rest of Close, then os.Exit; and the worker, all this time.
Logger ==
  /\ L!CloseReturn \/ L!Exit \/ L!Killed \/ L!Worker
  /\ UNCHANGED sessionVars

Next == RunLine \/ DeferredClose \/ Logger

Spec == Init /\ [][Next]_vars

-----------------------------------------------------------------------------
\* The places at which the worker wrote an entry or failed to, and, when it did
\* not fail, what the log file holds: an entry per place.
Written == {i \in DOMAIN settled[1] : settled[1][i].outcome = "written"}
Failed  == DOMAIN settled[1] \ Written
File    == [i \in DOMAIN settled[1] |-> log[settled[1][i].entry]]

\* Every command the summary counts has an entry in the file or a line on
\* stderr: the failed writes, the count of dropped entries, or the message that
\* Close timed out. When stderr says none of that, the file is the session's
\* log, command by command, whatever the worker had left to do when the last
\* command ended. Each command "produces one JSON object per line" (README).
NothingLostSilently ==
  closeResults = <<"nil">> =>
    LET accounted == Cardinality(Written) + Cardinality(Failed) + reportedDrops
    IN  /\ Len(log) = accounted
        /\ phase = "finished" => summary.commands = accounted
        /\ Failed = {} /\ reportedDrops = 0 => File = log

\* What a signal leaves: the file lacks no more of the commands that have run
\* than a queue and the entry being written, apart from those reported, and if
\* none was dropped or failed to be written it is the beginning of the log.
KilledLeavesPrefix ==
  /\ Len(log) - Cardinality(Written) <= QueueSize + 1 + Cardinality(Failed) + dropped
  /\ Failed = {} /\ dropped = 0 => IsPrefix(File, log)
=============================================================================
