-------------------------------- MODULE Replay --------------------------------
(***************************************************************************)
(* psh -replay (App.runReplay and replay.go): processes that each load     *)
(* the same recorded logs, choose a file for their own log, run the first  *)
(* log's commands again, each from the state its entry recorded, close     *)
(* their logger, read their file back and print a comparison.              *)
(*                                                                         *)
(* File 0 is a recorded log and file n is "<file 0>.n". The logger is what *)
(* LogDelivery says of it: pending are the entries it has accepted and not *)
(* yet settled. A process may be killed at any time: it takes no further   *)
(* step, and nothing here is fair. Redaction of entries is left out.       *)
(***************************************************************************)
EXTENDS Builtins, JsonlFile, FiniteSets

CONSTANTS
  Replays,        \* processes that replay the same logs
  Unnamed,        \* no -replay-log-file was given
  LogFiles,       \* values of -replay-log-file: Unnamed, or a file
  Recordings,     \* sequences of commands, as steps (below), somebody once ran
  StartCwd,       \* where they began
  StartEnvs,      \* and with which environment
  Trees,          \* states the file system may be in
  ChildCodes,     \* what a child can end with
  QueueSize,      \* -queue-size
  MaxAttempts     \* BOUND: candidates nextReplayLogPath tries, 9999 in the code

ASSUME ReplaySizes == QueueSize \in Nat \ {0} /\ MaxAttempts \in Nat \ {0}
ASSUME LogFilesAssumption == LogFiles \subseteq {Unnamed} \cup (1..MaxAttempts)
ASSUME ReplaysAssumption == Replays \cap {"session", "earlier"} = {}
ASSUME CodesAssumption == ChildCodes \subseteq Int

VARIABLES
  tree,         \* the file system the commands see
  disk,         \* the log files that exist
  inputs,       \* the -replay options
  logFile, failOnError,
  disturbed,    \* whether the tree changed since the recording (for properties)
  earlier,      \* the files there at the start (for properties)
  pc,           \* per process, the next step of runReplay
  traces,       \* the input logs it loaded
  path,         \* the file of its own log
  ran,          \* the entries of the commands it ran, logged or not
  pending,      \* accepted by its logger, not yet settled
  report,       \* the comparison it printed
  exitCode      \* what Run returns

setting == <<inputs, logFile, failOnError, earlier>>
vars == <<tree, disturbed, disk, setting, pc, traces, path, ran, pending, report, exitCode>>

NoReport == [match |-> FALSE, differences |-> {}, endedEarly |-> {}, commands |-> <<>>]

-----------------------------------------------------------------------------
\* A step is what a recording, or a replay, runs: the command and, if it is not a
\* builtin, how its child ends; whether it was started directly or is a line for
\* runLine (via), and the mode it is logged under. An external command that was
\* started directly has the builtin its joined words read as, if any, as its line.
\* The entry of a step is the state it found and left.
Outcomes(step, cwd, env, fs) ==
  IF step.cmd.op \in BuiltinOps THEN RunBuiltin(step.cmd, cwd, env, fs)
  ELSE Outcome(cwd, env, IF cwd \in DOMAIN fs /\ fs[cwd] = "dir" THEN step.code ELSE 1, FALSE)

EntryOf(step, cwd, env, fs) ==
  LET out == Outcomes(step, cwd, env, fs)
  IN  [cmd |-> step.cmd, via |-> step.via, mode |-> step.mode, beforeCwd |-> cwd, beforeEnv |-> env,
       cwd |-> out.cwd, env |-> out.env, code |-> out.code,
       stdout |-> IF step.cmd.op = "pwd" THEN cwd ELSE <<>>]

HasIntCode(cmd) == cmd.op = "exit" => cmd.code \in Int

\* What psh records: exit codes are numbers; only a program started directly has a
\* mode, or words, of its own, or the empty name; and a replay may have logged any that
\* loading accepts.
Recordable(step) ==
  /\ step.code \in Int /\ HasIntCode(step.cmd)
  /\ "line" \in DOMAIN step.cmd => step.cmd.op \notin BuiltinOps /\ HasIntCode(step.cmd.line)
                                   /\ "line" \notin DOMAIN step.cmd.line
  /\ step.cmd.op = "nameless" => step.mode = "direct"
  /\ step.mode = "direct" => step.via = "direct" /\ step.cmd.op \notin BuiltinOps
  /\ step.mode \notin {"direct", "replay"} => step.via = "line" /\ "line" \notin DOMAIN step.cmd

ASSUME RecordingsAssumption ==
  \A steps \in Recordings :
    steps # <<>> /\ steps \in Seq(Range(steps)) /\ \A step \in Range(steps) : Recordable(step)

\* The log of a session that ran the steps and lost nothing: each entry begins where
\* the one before it ended.
RecordedLog(steps, env, fs) ==
  LET log[i \in DOMAIN steps] ==
        IF i = 1 THEN EntryOf(steps[1], StartCwd, env, fs)
        ELSE EntryOf(steps[i], log[i - 1].cwd, log[i - 1].env, fs)
  IN  log

FileOf(log, writer) == [i \in DOMAIN log |-> Line(log[i], writer)]

\* What an earlier replay may have left in file 1: its whole log, one that ends
\* early, or half a line.
EarlierFiles(log) ==
  {FileOf(log, "earlier"), FileOf(Front(log), "earlier"),
   WritePart(<<>>, Head(log), "earlier", FALSE)}

Init ==
  /\ tree \in Trees /\ disturbed = FALSE
  /\ \E steps \in Recordings, env \in StartEnvs :
       LET log == RecordedLog(steps, env, tree)
       IN  \/ disk = [f \in {0} |-> FileOf(log, "session")]
           \/ \E file \in EarlierFiles(log) :
                disk = [f \in {0, 1} |-> IF f = 0 THEN FileOf(log, "session") ELSE file]
  /\ inputs \in {<<0>>, <<0, 1>>} /\ Range(inputs) \subseteq DOMAIN disk
  /\ logFile \in LogFiles /\ failOnError \in BOOLEAN
  /\ earlier = DOMAIN disk
  /\ pc = [p \in Replays |-> "load"]
  /\ traces = [p \in Replays |-> <<>>]
  /\ path = [p \in Replays |-> Unnamed]
  /\ ran = [p \in Replays |-> <<>>] /\ pending = [p \in Replays |-> <<>>]
  /\ report = [p \in Replays |-> NoReport]
  /\ exitCode = [p \in Replays |-> 0]

-----------------------------------------------------------------------------
Goto(p, step) == pc' = [pc EXCEPT ![p] = step]

\* "return 1, err": the error is printed, there is no comparison. What the worker
\* still writes before the process is gone is written before this step here:
\* nothing that the process reads comes after it.
Fail(p) ==
  /\ Goto(p, "failed")
  /\ exitCode' = [exitCode EXCEPT ![p] = 1]

\* ensureComparableReplayTraces: the same commands, started the same way (the
\* recorded program of a line is the shell), in every input.
Comparable(logs) ==
  \A t \in DOMAIN logs :
    /\ Len(logs[t]) = Len(logs[1])
    /\ \A i \in DOMAIN logs[1] :
         logs[t][i].cmd = logs[1][i].cmd /\ logs[t][i].via = logs[1][i].via

Load(p) ==
  LET logs == [t \in DOMAIN inputs |-> Entries(disk[inputs[t]])]
  IN  /\ pc[p] = "load"
      /\ IF (\A f \in Range(inputs) : Loads(disk[f])) /\ Comparable(logs)
           THEN /\ traces' = [traces EXCEPT ![p] = logs]
                /\ Goto(p, "choose") /\ UNCHANGED exitCode
           ELSE Fail(p) /\ UNCHANGED traces
      /\ UNCHANGED <<tree, disturbed, disk, setting, path, ran, pending, report>>

\* nextReplayLogPath: the first "<input>.N" that does not exist. Log files are
\* never removed, so what its loop of os.Stat finds is free when it returns.
FreePastTheLast == (1..MaxAttempts + 1) \ DOMAIN disk

Free == (1..MaxAttempts) \ DOMAIN disk

ChoosePathAmongAll(p) ==
  /\ pc[p] = "choose"
  /\ path' = [path EXCEPT ![p] = IF logFile = Unnamed THEN 1 ELSE logFile]
  /\ Goto(p, "open")
  /\ UNCHANGED <<tree, disturbed, disk, setting, traces, ran, pending, report, exitCode>>

ChoosePath(p) ==
  /\ pc[p] = "choose"
  /\ IF logFile = Unnamed /\ Free = {} THEN Fail(p) /\ UNCHANGED path
     ELSE /\ path' = [path EXCEPT ![p] =
                        IF logFile # Unnamed THEN logFile
                        ELSE CHOOSE n \in Free : \A m \in Free : n <= m]
          /\ Goto(p, "open") /\ UNCHANGED exitCode
  /\ UNCHANGED <<tree, disturbed, disk, setting, traces, ran, pending, report>>

\* newFileSink: created if it is not there, appended to if it is.
OpenLog(p) ==
  /\ pc[p] = "open"
  /\ disk' = [f \in DOMAIN disk \cup {path[p]} |-> IF f \in DOMAIN disk THEN disk[f] ELSE <<>>]
  /\ Goto(p, "run")
  /\ UNCHANGED <<tree, disturbed, setting, traces, path, ran, pending, report, exitCode>>

OpenLogFails(p) ==
  /\ pc[p] = "open"
  /\ Fail(p)
  /\ UNCHANGED <<tree, disturbed, disk, setting, traces, path, ran, pending, report>>

\* logger.Log: accepted when there is room in the queue, and one more may be in
\* the worker's hands; lost when there is none. The count of lost entries is
\* printed to io.Discard.
Offer(p, entry) ==
  \/ /\ Len(pending[p]) <= QueueSize
     /\ pending' = [pending EXCEPT ![p] = Append(@, entry)]
  \/ /\ Len(pending[p]) >= QueueSize
     /\ UNCHANGED pending

Template(p) == traces[p][1]

\* How replaySequence starts a recorded command again: only mode "direct" is told
\* from a line, and everything else is run as the line it was joined to.
AlwaysALine(recorded, code) ==
  [via |-> "line", mode |-> "replay", code |-> code,
   cmd |-> IF "line" \in DOMAIN recorded.cmd THEN recorded.cmd.line ELSE recorded.cmd]

Again(recorded, code) ==
  LET direct == recorded.mode = "direct" /\ recorded.cmd.op \notin BuiltinOps
  IN  [via |-> IF direct THEN "direct" ELSE "line", mode |-> "replay", code |-> code,
       cmd |-> IF ~direct /\ "line" \in DOMAIN recorded.cmd THEN recorded.cmd.line
               ELSE recorded.cmd]

\* The session replaySequence makes for one recorded entry, and its command.
ReplayEntryFromAfter(recorded, code) ==
  EntryOf(Again(recorded, code), recorded.cwd, recorded.env, tree)

ReplayEntry(recorded, code) ==
  EntryOf(Again(recorded, code), recorded.beforeCwd, recorded.beforeEnv, tree)

\* One round of replaySequence's loop. That the command was exit is ignored.
RunEntry(p, code) ==
  /\ pc[p] = "run"
  /\ LET entry == ReplayEntry(Template(p)[Len(ran[p]) + 1], code)
     IN  /\ ran' = [ran EXCEPT ![p] = Append(@, entry)]
         /\ Offer(p, entry)
         /\ IF (failOnError /\ entry.code # 0) \/ Len(ran'[p]) = Len(Template(p))
              THEN Goto(p, "close") ELSE UNCHANGED pc
  /\ UNCHANGED <<tree, disturbed, disk, setting, traces, path, report, exitCode>>

\* runExternal cannot make the stdin pipe of a command that had stdin: nothing is
\* logged, and the replay ends.
RunEntryFails(p) ==
  /\ pc[p] = "run"
  /\ Again(Template(p)[Len(ran[p]) + 1], 0).cmd.op \notin BuiltinOps
  /\ Fail(p)
  /\ UNCHANGED <<tree, disturbed, disk, setting, traces, path, ran, pending, report>>

\* The worker hands the oldest entry to the file sink. A write may fail before
\* it starts, or after a part: the worker reports that to io.Discard and goes on.
Worker(p) ==
  /\ pending[p] # <<>> /\ pc[p] # "failed"
  /\ pending' = [pending EXCEPT ![p] = Tail(@)]
  /\ LET file == disk[path[p]]
         entry == Head(pending[p])
     IN  \E left \in {file, WriteWhole(file, entry, p)}
                       \cup {WritePart(file, entry, p, all) : all \in BOOLEAN} :
           disk' = [disk EXCEPT ![path[p]] = left]
  /\ UNCHANGED <<tree, disturbed, setting, pc, traces, path, ran, report, exitCode>>

\* logger.Close returns nil when the worker is done, an error when the timer wins.
CloseFlushed(p) ==
  /\ pc[p] = "close" /\ pending[p] = <<>>
  /\ Goto(p, "readBack")
  /\ UNCHANGED <<tree, disturbed, disk, setting, traces, path, ran, pending, report, exitCode>>

CloseTimesOut(p) ==
  /\ pc[p] = "close"
  /\ Fail(p)
  /\ UNCHANGED <<tree, disturbed, disk, setting, traces, path, ran, pending, report>>

-----------------------------------------------------------------------------
\* renderOutputDiffs, for the commands both logs have. Directory and environment
\* are not compared; stderr is, and follows the exit code here. A difference is
\* at a log and a command.
SameOutput(left, right) == left.code = right.code /\ left.stdout = right.stdout

DifferencesSkippingLast(logs) ==
  {at \in (2..Len(logs)) \X (DOMAIN logs[1]) :
     at[2] < Len(logs[at[1]]) /\ ~SameOutput(logs[1][at[2]], logs[at[1]][at[2]])}

Differences(logs) ==
  {at \in (2..Len(logs)) \X (DOMAIN logs[1]) :
     at[2] <= Len(logs[at[1]]) /\ ~SameOutput(logs[1][at[2]], logs[at[1]][at[2]])}

EndedEarly(logs) == {t \in 2..Len(logs) : Len(logs[t]) < Len(logs[1])}

\* "outputs match across all compared runs" replaces everything else that was
\* written, when no difference was counted.
Comparison(logs) ==
  LET match == Differences(logs) = {}
  IN  [match |-> match, differences |-> Differences(logs),
       endedEarly |-> IF match THEN {} ELSE EndedEarly(logs),
       commands |-> [t \in DOMAIN logs |-> Len(logs[t])]]

ReadBack(p) ==
  /\ pc[p] = "readBack"
  /\ IF Loads(disk[path[p]])
       THEN /\ report' = [report EXCEPT ![p] =
                            Comparison(Append(traces[p], Entries(disk[path[p]])))]
            /\ exitCode' = [exitCode EXCEPT ![p] = Last(ran[p]).code]
            /\ Goto(p, "done")
       ELSE Fail(p) /\ UNCHANGED report
  /\ UNCHANGED <<tree, disturbed, disk, setting, traces, path, ran, pending>>

\* A replayed command, or any other program, makes or removes files.
TreeChanges ==
  /\ \E p \in Replays : pc[p] = "run"
  /\ tree' \in Trees \ {tree} /\ disturbed' = TRUE
  /\ UNCHANGED <<disk, setting, pc, traces, path, ran, pending, report, exitCode>>

Next ==
  \/ \E p \in Replays :
       \/ Load(p)
       \/ ChoosePath(p)
       \/ OpenLog(p)
       \/ OpenLogFails(p)
       \/ \E code \in ChildCodes : RunEntry(p, code)
       \/ RunEntryFails(p)
       \/ Worker(p)
       \/ CloseFlushed(p)
       \/ CloseTimesOut(p)
       \/ ReadBack(p)
  \/ TreeChanges

Spec == Init /\ [][Next]_vars

-----------------------------------------------------------------------------
\* Type correctness of a replay: its place, its file, and a logger that never
\* holds more than the queue and the entry in the worker's hands.
TypeOK ==
  /\ tree \in Trees /\ disturbed \in BOOLEAN /\ DOMAIN disk \subseteq 0..MaxAttempts
  /\ \A p \in Replays :
       /\ pc[p] \in {"load", "choose", "open", "run", "close", "readBack", "done", "failed"}
       /\ path[p] \in {Unnamed} \cup (1..MaxAttempts)
       /\ Len(pending[p]) <= QueueSize + 1 /\ Len(pending[p]) <= Len(ran[p])
       /\ exitCode[p] \in Int

\* The lines p found in its own file are its own, one for each command it was to
\* run: nothing was lost, cut off or stopped, and nobody else wrote there.
ReadOwnWholeLog(p) ==
  /\ pc[p] = "done" /\ Last(report[p].commands) = Len(Template(p))
  /\ \A i \in 1..Len(Template(p)) : disk[path[p]][i].by = p

\* The comparison is about what happened: when it says that a run has as many
\* commands as the first, and the file is the replay's own, it reports a match
\* exactly if every command ended and printed as recorded, in every run. Lost
\* entries, failed writes and another replay can make a log shorter or mixed,
\* but not shift one command's result to another unnoticed.
ReportIsTrue ==
  \A p \in Replays : ReadOwnWholeLog(p) =>
    (report[p].match <=>
       \A log \in Range(traces[p]) \cup {ran[p]} :
         \A i \in DOMAIN Template(p) : SameOutput(Template(p)[i], log[i]))

\* Replaying is independent of what came before: while the file system is as it
\* was, a replayed builtin ends, prints and leaves directory and environment as
\* recorded, whatever the children replayed before it did. And what is replayed is
\* what ran: an external command is not mistaken for the builtin its words spell,
\* unless the recording is itself a replay's, which does not say how it ran it.
ReplayedAsRecorded ==
  \A p \in Replays : \A i \in DOMAIN ran[p] :
    LET recorded == Template(p)[i]
    IN  /\ ~disturbed /\ recorded.cmd.op \in BuiltinOps =>
             /\ SameOutput(ran[p][i], recorded)
             /\ ran[p][i].cwd = recorded.cwd /\ ran[p][i].env = recorded.env
        /\ recorded.mode # "replay" =>
             ran[p][i].cmd = recorded.cmd /\ ran[p][i].via = recorded.via

\* A replay that names its own file leaves every log that was there as it was,
\* however many replays run at once.
EarlierLogsKept ==
  [][logFile = Unnamed => \A f \in earlier : disk'[f] = disk[f]]_vars

\* usage text: replay mode writes a fresh log. What the comparison shows as the
\* replay is what this replay wrote.
FreshLog ==
  [][\A p \in Replays : pc[p] = "readBack" /\ pc'[p] = "done" =>
       \A i \in DOMAIN disk[path[p]] : disk[path[p]][i].by = p]_vars

\* "outputs match across all compared runs": no run lacks the output of a
\* command that the first one has.
MatchCoversEveryCommand ==
  \A p \in Replays : report[p].match =>
    \A t \in DOMAIN report[p].commands : report[p].commands[t] >= report[p].commands[1]
=============================================================================
