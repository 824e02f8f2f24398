---------------------------- MODULE SessionProofs ----------------------------
(***************************************************************************)
(* The properties of Session for any builtin commands, exit codes of       *)
(* children, file systems, modes and number of lines.                      *)
(***************************************************************************)
EXTENDS Session, SequenceTheorems, FiniteSetTheorems, TLAPS

USE CommandsAreBuiltins, ExitCodesAreInts, ChildCodesAssumption,
    StartEnvAssumption, MaxLinesAssumption

\* The entries are a sequence, of whatever directories and environments there were.
LogIsSequence == \E S : log \in Seq(S)

\* The numbers of the entries whose command failed.
FailuresIn(entries) == {i \in 1..Len(entries) : entries[i].code # 0}

\* The counters are the log's until a command that is counted is not logged, which
\* aborts the run.
CountersMatchLog ==
  /\ commandCount <= lines
  /\ phase # "aborted" =>
       commandCount = Len(log) /\ failureCount = Cardinality(FailuresIn(log))
  /\ phase = "finished" =>
       summary.commands = commandCount /\ summary.failed = failureCount

\* Until something is logged the session is where it began.
StartsWhereTold == log = <<>> => cwd = StartCwd /\ env = StartEnv

\* While a loop other than that of -c runs, it remembers the last command's code.
LoopRemembersCode ==
  mode # "shell" /\ phase = "running" =>
    lastExitCode = IF log = <<>> THEN 0 ELSE Last(log).code

IInv == /\ TypeOK /\ LogIsSequence /\ StartsWhereTold /\ LogChains /\ CountersMatchLog
        /\ NothingRunsAfterTheEnd /\ LoopRemembersCode /\ ExitCodeOfLastCommand

-----------------------------------------------------------------------------
\* One more entry: the others stay where they are and it comes after them.
LEMMA AppendFacts ==
  ASSUME NEW S, NEW s \in Seq(S), NEW e
  PROVE  /\ Append(s, e) \in Seq(S \cup {e}) /\ Len(s) \in Nat
         /\ Len(Append(s, e)) = Len(s) + 1
         /\ \A i \in 1..Len(s) : Append(s, e)[i] = s[i]
         /\ Append(s, e)[Len(s) + 1] = e
  <1>1. s \in Seq(S \cup {e}) /\ e \in S \cup {e}
    BY SeqMonotonic
  <1> QED
    BY <1>1

\* One more entry is one more failure, or none.
LEMMA FailureCounted ==
  ASSUME NEW S, NEW s \in Seq(S), NEW e
  PROVE  /\ Cardinality(FailuresIn(s)) \in 0..Len(s)
         /\ Cardinality(FailuresIn(Append(s, e))) =
              Cardinality(FailuresIn(s)) + (IF e.code # 0 THEN 1 ELSE 0)
  <1>1. Len(s) \in Nat /\ IsFiniteSet(1..Len(s)) /\ Cardinality(1..Len(s)) = Len(s)
    BY FS_Interval
  <1>2. IsFiniteSet(FailuresIn(s)) /\ Cardinality(FailuresIn(s)) <= Len(s)
        /\ Cardinality(FailuresIn(s)) \in Nat
    <2>1. FailuresIn(s) \subseteq 1..Len(s)
      BY DEF FailuresIn
    <2> QED
      BY <1>1, <2>1, FS_Subset, FS_CardinalityType
  <1>3. FailuresIn(Append(s, e)) =
          IF e.code # 0 THEN FailuresIn(s) \cup {Len(s) + 1} ELSE FailuresIn(s)
    BY <1>1, AppendFacts DEF FailuresIn
  <1>4. Len(s) + 1 \notin FailuresIn(s)
    BY <1>1 DEF FailuresIn
  <1>5. Cardinality(FailuresIn(s) \cup {Len(s) + 1}) = Cardinality(FailuresIn(s)) + 1
    BY <1>2, <1>4, FS_AddElement
  <1>6. CASE e.code # 0
    BY <1>1, <1>2, <1>3, <1>5, <1>6
  <1>7. CASE e.code = 0
    BY <1>1, <1>2, <1>3, <1>7
  <1> QED
    BY <1>6, <1>7

\* What any builtin leaves: a code, the demand to stop exactly of exit, and a new
\* state only if it succeeds, whose directory exists.
LEMMA BuiltinFacts ==
  ASSUME NEW cmd \in Commands, NEW c, NEW e, NEW fs, IsFiniteSet(DOMAIN e)
  PROVE  LET out == RunBuiltin(cmd, c, e, fs) IN
         /\ out.code \in Int /\ IsFiniteSet(DOMAIN out.env)
         /\ out.exits \in BOOLEAN /\ (cmd.op = "exit" => out.exits)
         /\ out.code # 0 => out.cwd = c /\ out.env = e
         /\ out.cwd # c => out.cwd \in DOMAIN fs /\ fs[out.cwd] = "dir"
  <1> DEFINE out == RunBuiltin(cmd, c, e, fs)
  <1>1. cmd.op \in BuiltinOps
    OBVIOUS
  <1>2. CASE cmd.op = "pwd"
    <2>1. out = RunPwd(c, e)
      BY <1>2, Zenon DEF RunBuiltin
    <2> QED
      BY <1>2, <2>1 DEF RunPwd, Outcome
  <1>3. CASE cmd.op = "exit"
    <2>1. out = RunExit(c, e, cmd.code)
      BY <1>3, Zenon DEF RunBuiltin
    <2> QED
      BY <1>3, <2>1 DEF RunExit, Outcome
  <1>4. CASE cmd.op = "exitNotANumber"
    <2>1. out = RunExitNotANumber(c, e)
      BY <1>4, Zenon DEF RunBuiltin
    <2> QED
      BY <1>4, <2>1 DEF RunExitNotANumber, Outcome
  <1>5. CASE cmd.op = "cd"
    <2>1. out = RunCd(c, e, cmd.target, fs)
      BY <1>5, Zenon DEF RunBuiltin
    <2> QED
      BY <1>5, <2>1 DEF RunCd, Outcome
  <1>6. CASE cmd.op = "export"
    <2>1. out = RunExport(c, e, cmd.key, cmd.value)
      BY <1>6, Zenon DEF RunBuiltin
    <2>2. IsFiniteSet(DOMAIN e \cup {cmd.key})
      BY FS_AddElement
    <2> QED
      BY <1>6, <2>1, <2>2 DEF RunExport, Outcome
  <1>7. CASE cmd.op = "unset"
    <2>1. out = RunUnset(c, e, cmd.key)
      BY <1>7, Zenon DEF RunBuiltin
    <2>2. IsFiniteSet(DOMAIN e \ {cmd.key})
      BY FS_RemoveElement
    <2> QED
      BY <1>7, <2>1, <2>2 DEF RunUnset, Outcome
  <1>8. CASE cmd.op = "malformed"
    <2>1. out = RunMalformed(c, e)
      BY <1>8, Zenon DEF RunBuiltin
    <2> QED
      BY <1>8, <2>1 DEF RunMalformed, Outcome
  <1> QED
    BY <1>1, <1>2, <1>3, <1>4, <1>5, <1>6, <1>7, <1>8 DEF BuiltinOps

-----------------------------------------------------------------------------
\* The initial state satisfies the invariant.
LEMMA InitIInv == Init => IInv
  <1> SUFFICES ASSUME Init PROVE IInv
    OBVIOUS
  <1>1. log = <<>> /\ Len(log) = 0 /\ phase = "running" /\ lines = 0
    BY DEF Init
  <1>2. TypeOK
    BY <1>1 DEF Init, TypeOK
  <1>3. LogIsSequence /\ StartsWhereTold
    BY <1>1 DEF Init, LogIsSequence, StartsWhereTold
  <1>4. FailuresIn(log) = {} /\ Cardinality(FailuresIn(log)) = 0
    BY <1>1, FS_EmptySet DEF FailuresIn
  <1>5. LogChains /\ CountersMatchLog /\ NothingRunsAfterTheEnd
    BY <1>1, <1>4 DEF Init, LogChains, CountersMatchLog, NothingRunsAfterTheEnd
  <1>6. LoopRemembersCode /\ ExitCodeOfLastCommand
    BY <1>1 DEF Init, LoopRemembersCode, ExitCodeOfLastCommand
  <1> QED
    BY <1>2, <1>3, <1>5, <1>6 DEF IInv

\* A line that leaves an entry preserves the invariant, whatever ran.
LEMMA RunCommandIInv ==
  ASSUME IInv, NEW cmd, NEW out, NEW last \in BOOLEAN, RunCommand(cmd, out, last),
         out.code \in Int, IsFiniteSet(DOMAIN out.env), out.exits \in BOOLEAN,
         cmd.op = "exit" => out.exits
  PROVE  IInv'
  <1> DEFINE entry == Entry(cmd, out)
  <1>1. /\ phase = "running" /\ lines < MaxLines /\ lines' = lines + 1
        /\ UNCHANGED <<mode, failOnError, tree>>
        /\ cwd' = out.cwd /\ env' = out.env /\ log' = Append(log, entry)
        /\ commandCount' = commandCount + 1
        /\ failureCount' = failureCount + (IF out.code # 0 THEN 1 ELSE 0)
        /\ lastExitCode' = out.code
    BY DEF RunCommand, Reads, RecordResult, NextLine
  <1>2. \/ /\ phase' = "finished" /\ exitCode' = out.code
           /\ summary'.commands = commandCount' /\ summary'.failed = failureCount'
        \/ /\ phase' = "running" /\ exitCode' = exitCode
           /\ ~out.exits /\ ~(failOnError /\ out.code # 0)
    BY <1>1 DEF RunCommand, NextLine, Finish, outcome
  <1>3. /\ entry.cmd = cmd /\ entry.code = out.code
        /\ entry.beforeCwd = cwd /\ entry.cwd = cwd'
        /\ entry.beforeEnv = env /\ entry.env = env'
    BY <1>1 DEF Entry
  <1> HIDE DEF entry
  <1>4. PICK S : log \in Seq(S)
    BY DEF IInv, LogIsSequence
  <1>5. /\ log' \in Seq(S \cup {entry}) /\ Len(log) \in Nat /\ Len(log') = Len(log) + 1
        /\ \A i \in 1..Len(log) : log'[i] = log[i]
        /\ log'[Len(log) + 1] = entry /\ log' # <<>> /\ Last(log') = log'[Len(log')]
    BY <1>1, <1>4, AppendFacts DEF Last
  <1>6. TypeOK'
    <2>1. /\ commandCount' \in 0..MaxLines /\ failureCount' \in 0..commandCount'
          /\ lines' \in 0..MaxLines /\ Len(log') <= lines'
      BY <1>1, <1>5 DEF IInv, TypeOK, CountersMatchLog
    <2>2. lastExitCode' \in Int /\ exitCode' \in Int /\ phase' \in {"running", "finished"}
      BY <1>1, <1>2 DEF IInv, TypeOK
    <2>3. IsFiniteSet(DOMAIN env')
      BY <1>1
    <2> QED
      BY <1>1, <2>1, <2>2, <2>3 DEF IInv, TypeOK
  <1>7. LogIsSequence' /\ StartsWhereTold'
    BY <1>5 DEF LogIsSequence, StartsWhereTold
  <1>8. LogChains'
    <2>1. ASSUME NEW i \in 1..Len(log')
          PROVE  LET before == IF i = 1 THEN [cwd |-> StartCwd, env |-> StartEnv] ELSE log'[i - 1]
                 IN  log'[i].beforeCwd = before.cwd /\ log'[i].beforeEnv = before.env
      <3>1. CASE i \in 1..Len(log)
        <4>1. log'[i] = log[i] /\ (i # 1 => i - 1 \in 1..Len(log) /\ log'[i - 1] = log[i - 1])
          BY <1>5, <3>1
        <4> QED
          BY <3>1, <4>1 DEF IInv, LogChains
      <3>2. CASE i = Len(log) + 1
        <4>1. log'[i] = entry
          BY <1>5, <3>2
        <4>2. CASE log = <<>>
          <5>1. i = 1 /\ cwd = StartCwd /\ env = StartEnv
            BY <3>2, <4>2 DEF IInv, StartsWhereTold
          <5> QED
            BY <1>3, <4>1, <5>1
        <4>3. CASE log # <<>>
          <5>1. i # 1 /\ i - 1 = Len(log) /\ Len(log) \in 1..Len(log)
            BY <1>4, <1>5, <3>2, <4>3
          <5>2. log'[i - 1] = Last(log)
            BY <1>5, <5>1 DEF Last
          <5> QED
            BY <1>3, <4>1, <4>3, <5>1, <5>2 DEF IInv, LogChains
        <4> QED
          BY <4>2, <4>3
      <3> QED
        BY <1>5, <3>1, <3>2
    <2>2. Last(log').cwd = cwd' /\ Last(log').env = env'
      BY <1>3, <1>5
    <2> QED
      BY <2>1, <2>2 DEF LogChains
  <1>9. CountersMatchLog'
    <2>1. commandCount = Len(log) /\ failureCount = Cardinality(FailuresIn(log)) /\ commandCount <= lines
      BY <1>1 DEF IInv, CountersMatchLog
    <2>2. commandCount' = Len(log') /\ commandCount' <= lines'
      BY <1>1, <1>5, <2>1 DEF IInv, TypeOK
    <2>3. failureCount' = Cardinality(FailuresIn(log'))
      BY <1>1, <1>3, <1>4, <2>1, FailureCounted
    <2> QED
      BY <1>2, <2>2, <2>3 DEF CountersMatchLog, FailuresIn
  <1>10. NothingRunsAfterTheEnd'
    <2>1. \A i \in 1..Len(log) : ~(log[i].cmd.op = "exit" \/ (failOnError /\ log[i].code # 0))
      BY <1>1 DEF IInv, NothingRunsAfterTheEnd
    <2>2. ASSUME NEW i \in 1..Len(log'),
                 log'[i].cmd.op = "exit" \/ (failOnError' /\ log'[i].code # 0)
          PROVE  i = Len(log') /\ phase' = "finished" /\ exitCode' = log'[i].code
      <3>1. i = Len(log')
        BY <1>1, <1>5, <2>1, <2>2
      <3>2. log'[i] = entry
        BY <1>5, <3>1
      <3>3. out.exits \/ (failOnError /\ out.code # 0)
        BY <1>1, <1>3, <2>2, <3>2
      <3> QED
        BY <1>2, <1>3, <3>1, <3>2, <3>3
    <2> QED
      BY <2>2 DEF NothingRunsAfterTheEnd
  <1>11. LoopRemembersCode' /\ ExitCodeOfLastCommand'
    BY <1>1, <1>2, <1>3, <1>5 DEF LoopRemembersCode, ExitCodeOfLastCommand
  <1> QED
    BY <1>6, <1>7, <1>8, <1>9, <1>10, <1>11 DEF IInv

\* A step that leaves the log alone and does not abort after counting preserves
\* the invariant, if it finishes with the summary and the loop's code.
LEMMA QuietIInv ==
  ASSUME IInv, UNCHANGED <<mode, failOnError, session, log>>,
         tree' \in Trees, phase = "running",
         lines' \in lines..MaxLines, lastExitCode' \in Int, exitCode' \in Int,
         mode # "shell" => lastExitCode' = lastExitCode,
         \/ phase' \in {"running", "aborted"}
         \/ phase' = "finished" /\ exitCode' = lastExitCode'
              /\ summary'.commands = commandCount /\ summary'.failed = failureCount
  PROVE  IInv'
  <1> USE DEF IInv, session
  <1>1. TypeOK'
    BY DEF TypeOK
  <1>2. LogIsSequence' /\ StartsWhereTold' /\ LogChains'
    BY DEF LogIsSequence, StartsWhereTold, LogChains
  <1>3. CountersMatchLog'
    BY DEF TypeOK, CountersMatchLog, FailuresIn
  <1>4. NothingRunsAfterTheEnd'
    BY DEF NothingRunsAfterTheEnd
  <1>5. LoopRemembersCode' /\ ExitCodeOfLastCommand'
    BY DEF LoopRemembersCode, ExitCodeOfLastCommand
  <1> QED
    BY <1>1, <1>2, <1>3, <1>4, <1>5

\* The command that is counted and not logged ends the run as aborted.
LEMMA StdinPipeFailsIInv == IInv /\ StdinPipeFails => IInv'
  <1> SUFFICES ASSUME IInv, StdinPipeFails PROVE IInv'
    OBVIOUS
  <1> USE DEF IInv
  <1>1. /\ phase = "running" /\ phase' = "aborted" /\ exitCode' = 1
        /\ lines < MaxLines /\ lines' = lines + 1
        /\ commandCount' = commandCount + 1 /\ failureCount' = failureCount
        /\ UNCHANGED <<mode, failOnError, tree, cwd, env, log, lastExitCode>>
    BY DEF StdinPipeFails, Reads, RecordResult, Abort, TypeOK
  <1>2. TypeOK'
    BY <1>1 DEF TypeOK, CountersMatchLog
  <1>3. LogIsSequence' /\ StartsWhereTold' /\ LogChains'
    BY <1>1 DEF LogIsSequence, StartsWhereTold, LogChains
  <1>4. CountersMatchLog'
    BY <1>1 DEF CountersMatchLog, TypeOK
  <1>5. NothingRunsAfterTheEnd' /\ LoopRemembersCode' /\ ExitCodeOfLastCommand'
    BY <1>1 DEF NothingRunsAfterTheEnd, LoopRemembersCode, ExitCodeOfLastCommand
  <1> QED
    BY <1>2, <1>3, <1>4, <1>5

\* Every step preserves the invariant.
LEMMA NextIInv == IInv /\ [Next]_vars => IInv'
  <1> SUFFICES ASSUME IInv, [Next]_vars PROVE IInv'
    OBVIOUS
  <1>1. ASSUME NEW last \in BOOLEAN, NEW cmd \in Commands, BuiltinLine(cmd, last) PROVE IInv'
    <2>1. IsFiniteSet(DOMAIN env)
      BY DEF IInv, TypeOK
    <2> QED
      BY <1>1, <2>1, BuiltinFacts, RunCommandIInv DEF BuiltinLine
  <1>2. ASSUME NEW last \in BOOLEAN, NEW code \in Int,
               RunCommand(External, Outcome(cwd, env, code, FALSE), last) PROVE IInv'
    <2>1. LET out == Outcome(cwd, env, code, FALSE)
          IN  /\ out.code \in Int /\ IsFiniteSet(DOMAIN out.env) /\ out.exits \in BOOLEAN
              /\ External.op # "exit"
      BY DEF Outcome, External, IInv, TypeOK
    <2> QED
      BY <1>2, <2>1, RunCommandIInv
  <1>3. ASSUME NEW last \in BOOLEAN, NEW code \in ChildCodes, ExternalLine(code, last) PROVE IInv'
    <2>1. code \in Int
      OBVIOUS
    <2>2. RunCommand(External, Outcome(cwd, env, code, FALSE), last)
      BY <1>3 DEF ExternalLine
    <2> QED
      BY <1>2, <2>1, <2>2, Zenon
  <1>4. ASSUME NEW last \in BOOLEAN, NEW code \in {1, 127}, StartFails(code, last) PROVE IInv'
    <2>1. code \in Int
      OBVIOUS
    <2>2. RunCommand(External, Outcome(cwd, env, code, FALSE), last)
      BY <1>4, Zenon DEF StartFails
    <2> QED
      BY <1>2, <2>1, <2>2, Zenon
  <1>5. ASSUME NEW last \in BOOLEAN, BlankLine(last) PROVE IInv'
    <2>1. /\ UNCHANGED <<mode, failOnError, session, log, tree>> /\ phase = "running"
          /\ lines' = lines + 1 /\ lines < MaxLines
          /\ commandCount' = commandCount /\ failureCount' = failureCount
      BY <1>5 DEF BlankLine, Reads, session
    <2>2. CASE mode = "shell"
      <3>1. /\ lastExitCode' = 0
            /\ \/ phase' = "finished" /\ exitCode' = 0
                  /\ summary'.commands = commandCount /\ summary'.failed = failureCount
               \/ phase' = phase /\ exitCode' = exitCode
        BY <1>5, <2>1, <2>2 DEF BlankLine, NextLine, Finish, outcome
      <3> QED
        BY <2>1, <2>2, <3>1, QuietIInv DEF IInv, TypeOK
    <2>3. CASE mode # "shell"
      <3>1. lastExitCode' = lastExitCode /\ phase' = phase /\ exitCode' = exitCode
        BY <1>5, <2>3 DEF BlankLine, outcome
      <3> QED
        BY <2>1, <3>1, QuietIInv DEF IInv, TypeOK
    <2> QED
      BY <2>2, <2>3
  <1>6. CASE StdinPipeFails
    BY <1>6, StdinPipeFailsIInv
  <1>7. CASE EndOfInput
    BY <1>7, QuietIInv DEF EndOfInput, Finish, session, IInv, TypeOK
  <1>8. CASE ReadFails
    BY <1>8, QuietIInv DEF ReadFails, Abort, session, IInv, TypeOK
  <1>9. CASE TreeChanges
    BY <1>9, QuietIInv DEF TreeChanges, session, outcome, IInv, TypeOK
  <1>10. CASE UNCHANGED vars
    BY <1>10 DEF vars, session, outcome, IInv, TypeOK, LogIsSequence, StartsWhereTold, LogChains, CountersMatchLog,
                 FailuresIn, NothingRunsAfterTheEnd, LoopRemembersCode, ExitCodeOfLastCommand
  <1> QED
    BY <1>1, <1>3, <1>4, <1>5, <1>6, <1>7, <1>8, <1>9, <1>10 DEF Next

\* Every reachable state satisfies the invariant.
THEOREM Invariance == Spec => []IInv
  BY InitIInv, NextIInv, PTL DEF Spec

\* Type correctness of the session and the run.
THEOREM TypeCorrect == Spec => []TypeOK
  <1>1. IInv => TypeOK
    BY DEF IInv
  <1> QED
    BY <1>1, Invariance, PTL

\* Each entry of the log begins where the one before it ended: what a replay of
\* single entries relies on.
THEOREM EntriesChain == Spec => []LogChains
  <1>1. IInv => LogChains
    BY DEF IInv
  <1> QED
    BY <1>1, Invariance, PTL

\* The summary psh prints counts the entries of the log and their failures.
THEOREM SummaryIsTrue == Spec => []SummaryMatchesLog
  <1>1. IInv => SummaryMatchesLog
    BY DEF IInv, CountersMatchLog, SummaryMatchesLog, FailuresIn
  <1> QED
    BY <1>1, Invariance, PTL

\* In every loop, exit and fail_on_error end the run at once with that code.
THEOREM EndIsTheEnd == Spec => []NothingRunsAfterTheEnd
  <1>1. IInv => NothingRunsAfterTheEnd
    BY DEF IInv
  <1> QED
    BY <1>1, Invariance, PTL

\* The run's exit code is the last command's.
THEOREM ExitCodeIsLast == Spec => []ExitCodeOfLastCommand
  <1>1. IInv => ExitCodeOfLastCommand
    BY DEF IInv
  <1> QED
    BY <1>1, Invariance, PTL

\* A failed command changes neither directory nor environment, and the directory
\* only becomes one that exists.
THEOREM FailuresLeaveTheSession == Spec => BadPathsDoNotPoison
  <1> DEFINE A == /\ log' # log /\ Last(log').code # 0 => UNCHANGED <<cwd, env>>
                  /\ cwd' # cwd => cwd' \in DOMAIN tree /\ tree[cwd'] = "dir"
  <1>1. IInv /\ [Next]_vars => [A]_vars
    <2> SUFFICES ASSUME IInv, Next PROVE A
      OBVIOUS
    <2>1. ASSUME NEW cmd, NEW out, NEW last, RunCommand(cmd, out, last),
                 out.code # 0 => out.cwd = cwd /\ out.env = env,
                 out.cwd # cwd => out.cwd \in DOMAIN tree /\ tree[out.cwd] = "dir"
          PROVE  A
      <3>1. cwd' = out.cwd /\ env' = out.env /\ log' = Append(log, Entry(cmd, out))
        BY <2>1 DEF RunCommand
      <3>2. Entry(cmd, out).code = out.code
        BY DEF Entry
      <3>3. PICK S : log \in Seq(S)
        BY DEF IInv, LogIsSequence
      <3>4. Last(log') = Entry(cmd, out)
        BY <3>1, <3>3, AppendFacts DEF Last
      <3> QED
        BY <2>1, <3>1, <3>2, <3>4
    <2>2. ASSUME NEW last \in BOOLEAN, NEW cmd \in Commands, BuiltinLine(cmd, last) PROVE A
      <3>1. IsFiniteSet(DOMAIN env)
        BY DEF IInv, TypeOK
      <3> QED
        BY <2>1, <2>2, <3>1, BuiltinFacts DEF BuiltinLine
    <2>3. ASSUME NEW last, NEW code, RunCommand(External, Outcome(cwd, env, code, FALSE), last)
          PROVE  A
      <3>1. Outcome(cwd, env, code, FALSE).cwd = cwd /\ Outcome(cwd, env, code, FALSE).env = env
        BY DEF Outcome
      <3> QED
        BY <2>1, <2>3, <3>1
    <2>4. ASSUME NEW last, NEW code, ExternalLine(code, last) \/ StartFails(code, last) PROVE A
      BY <2>3, <2>4 DEF ExternalLine, StartFails
    <2>5. CASE UNCHANGED <<cwd, env, log>>
      BY <2>5
    <2>6. ASSUME (\E last \in BOOLEAN : BlankLine(last)) \/ StdinPipeFails \/ EndOfInput
                   \/ ReadFails \/ TreeChanges
          PROVE  UNCHANGED <<cwd, env, log>>
      BY <2>6 DEF BlankLine, StdinPipeFails, EndOfInput, ReadFails, TreeChanges, session
    <2> HIDE DEF A
    <2> QED
      BY <2>2, <2>4, <2>5, <2>6 DEF Next
  <1> QED
    BY <1>1, Invariance, PTL DEF Spec, BadPathsDoNotPoison
=============================================================================
