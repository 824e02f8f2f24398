------------------------------- MODULE PshProofs -------------------------------
(***************************************************************************)
(* What becomes of a run's entries, for any queue size, commands and number*)
(* of lines: a process is a run of Session and a run of AsyncLogger at     *)
(* once, so all that is proved of either holds in it, and what the two     *)
(* share ties the log file to the session's log.                           *)
(***************************************************************************)
EXTENDS Psh, FiniteSetTheorems, SequenceTheorems, TLAPS

\* The parts, with what is proved of them.
SP == INSTANCE SessionProofs
LP == INSTANCE AsyncLoggerProofs
        WITH NumSinks <- 1, MaxEntries <- MaxLines, Unencodable <- {}

USE PshSizes

\* The n-th entry of the session is the logger's entry n, and none is missing
\* from the accepted ones unless it was counted as dropped.
SameEntries ==
  /\ logged = Len(log)
  /\ dropped \in Nat
  /\ dropped = 0 => \A i \in 1..Len(accepted) : accepted[i] = i

IInv == SP!IInv /\ LP!IInv /\ SameEntries

\* FiniteSets in each of its instances.
LEMMA SameFinite == \A X : IsFiniteSet(X) <=> SP!IsFiniteSet(X)
  BY DEF IsFiniteSet, SP!IsFiniteSet

\* The assumptions of the session's theorems are met.
LEMMA SessionConstants ==
  /\ SP!CommandsAreBuiltins /\ SP!ExitCodesAreInts /\ SP!ChildCodesAssumption
  /\ SP!StartEnvAssumption /\ SP!MaxLinesAssumption
  BY PshCommands, SameFinite
  DEF SP!CommandsAreBuiltins, SP!ExitCodesAreInts, SP!ChildCodesAssumption,
      SP!StartEnvAssumption, SP!MaxLinesAssumption, SP!BuiltinOps, S!BuiltinOps

-----------------------------------------------------------------------------
\* A process that forgets its logger is a run of the session.
THEOREM PshRunsASession == Spec => S!Spec
  <1>1. Init => S!Init
    BY DEF Init
  <1>2. [Next]_vars => [S!Next]_S!vars
    BY DEF Next, RunLine, DeferredClose, Logger, vars, sessionVars, S!vars, S!session, S!outcome
  <1> QED
    BY <1>1, <1>2, PTL DEF Spec, S!Spec

\* A builtin gives what the session's lemmas ask of it.
LEMMA BuiltinFacts ==
  ASSUME NEW cmd \in Commands, NEW c, NEW e, NEW fs, IsFiniteSet(DOMAIN e)
  PROVE  LET out == S!RunBuiltin(cmd, c, e, fs)
         IN  /\ out.code \in Int /\ IsFiniteSet(DOMAIN out.env) /\ out.exits \in BOOLEAN
             /\ cmd.op = "exit" => out.exits
  <1> DEFINE out == S!RunBuiltin(cmd, c, e, fs)
  <1>1. cmd.op \in S!BuiltinOps /\ (cmd.op = "exit" => cmd.code \in Int)
    BY PshCommands
  <1>2. CASE cmd.op = "cd"
    <2>1. out = S!RunCd(c, e, cmd.target, fs)
      BY <1>2, Zenon DEF S!RunBuiltin
    <2> QED
      BY <1>2, <2>1 DEF S!RunCd, S!Outcome
  <1>3. CASE cmd.op # "cd"
    <2>1. out = SP!RunBuiltin(cmd, c, e, fs)
      BY <1>1, <1>3
      DEF S!RunBuiltin, SP!RunBuiltin, S!BuiltinOps, S!RunPwd, SP!RunPwd, S!RunExit, SP!RunExit,
          S!RunExitNotANumber, SP!RunExitNotANumber, S!RunExport, SP!RunExport,
          S!RunUnset, SP!RunUnset, S!RunMalformed, SP!RunMalformed, S!Outcome, SP!Outcome
    <2> QED
      BY <2>1, SameFinite, SessionConstants, SP!BuiltinFacts
  <1> QED
    BY <1>2, <1>3

\* So every step of the session preserves its invariant.
LEMMA SessionStep == SP!IInv /\ [S!Next]_S!vars => SP!IInv'
  <1> USE SessionConstants
  <1> SUFFICES ASSUME SP!IInv, [S!Next]_S!vars PROVE SP!IInv'
    OBVIOUS
  <1>1. ASSUME NEW cmd, NEW out, NEW last, S!RunCommand(cmd, out, last)
        PROVE  SP!RunCommand(cmd, out, last)
    BY <1>1 DEF S!RunCommand, S!Reads, S!Entry, S!RecordResult, S!NextLine, S!Finish, S!outcome,
           SP!RunCommand, SP!Reads, SP!Entry, SP!RecordResult, SP!NextLine, SP!Finish, SP!outcome
  <1>2. ASSUME NEW last \in BOOLEAN, NEW cmd \in Commands, S!BuiltinLine(cmd, last)
        PROVE  SP!IInv'
    <2>1. IsFiniteSet(DOMAIN env)
      BY SameFinite DEF SP!IInv, SP!TypeOK
    <2>2. SP!RunCommand(cmd, S!RunBuiltin(cmd, cwd, env, tree), last)
      BY <1>1, <1>2 DEF S!BuiltinLine
    <2> QED
      BY <2>1, <2>2, SameFinite, BuiltinFacts, SP!RunCommandIInv
  <1>3. ASSUME NEW last, NEW code PROVE S!ExternalLine(code, last) => SP!ExternalLine(code, last)
    BY <1>1 DEF S!ExternalLine, SP!ExternalLine, S!External, SP!External, S!Outcome, SP!Outcome
  <1>4. ASSUME NEW last, NEW code PROVE S!StartFails(code, last) => SP!StartFails(code, last)
    BY <1>1 DEF S!StartFails, SP!StartFails, S!External, SP!External, S!Outcome, SP!Outcome
  <1>5. ASSUME NEW last PROVE S!BlankLine(last) => SP!BlankLine(last)
    BY DEF S!BlankLine, S!Reads, S!NextLine, S!Finish, S!session, S!outcome,
           SP!BlankLine, SP!Reads, SP!NextLine, SP!Finish, SP!session, SP!outcome
  <1>6. /\ S!StdinPipeFails => SP!StdinPipeFails
        /\ S!EndOfInput => SP!EndOfInput
        /\ S!ReadFails => SP!ReadFails
        /\ S!TreeChanges => SP!TreeChanges
    BY DEF S!StdinPipeFails, S!EndOfInput, S!ReadFails, S!TreeChanges, S!Reads, S!RecordResult,
           S!Finish, S!Abort, S!session, S!outcome,
           SP!StdinPipeFails, SP!EndOfInput, SP!ReadFails, SP!TreeChanges, SP!Reads,
           SP!RecordResult, SP!Finish, SP!Abort, SP!session, SP!outcome
  <1>7. UNCHANGED S!vars => UNCHANGED SP!vars
    BY DEF S!vars, S!session, S!outcome, SP!vars, SP!session, SP!outcome
  <1>8. [SP!Next]_SP!vars \/ SP!IInv'
    BY <1>2, <1>3, <1>4, <1>5, <1>6, <1>7 DEF S!Next, SP!Next
  <1> QED
    BY <1>8, SP!NextIInv

\* A process that forgets its session is a run of the logger.
THEOREM PshRunsALogger == Spec => LP!Spec
  <1>1. Init => LP!Init
    BY DEF Init, L!Init, LP!Init, L!Sinks, LP!Sinks
  <1>2. [Next]_vars => [LP!Next]_LP!vars
    <2> USE DEF L!chanVars, L!workerVars, L!mainVars, LP!chanVars, LP!workerVars, LP!mainVars
    <2>1. L!Log => LP!Log
      BY DEF L!Log, LP!Log
    <2>2. L!BeginClose => LP!BeginClose
      BY DEF L!BeginClose, LP!BeginClose
    <2>3. L!CloseReturn => LP!CloseReturn
      BY DEF L!CloseReturn, L!FlushDone, L!FlushTimeout, L!CloseReturnsWith,
             LP!CloseReturn, LP!FlushDone, LP!FlushTimeout, LP!CloseReturnsWith
    <2>4. (L!Exit => LP!Exit) /\ (L!Killed => LP!Killed)
      BY DEF L!Exit, LP!Exit, L!Killed, LP!Killed
    <2>5. L!Worker => LP!Worker
      BY DEF L!Worker, L!Receive, L!WriteSink, L!RangeEnds, L!CloseSink, L!Alive, L!Sinks,
             L!Settlement,
             LP!Worker, LP!Receive, LP!WriteSink, LP!RangeEnds, LP!CloseSink, LP!Alive, LP!Sinks,
             LP!Settlement
    <2>6. UNCHANGED loggerVars => UNCHANGED LP!vars
      BY DEF loggerVars, LP!vars
    <2> QED
      BY <2>1, <2>2, <2>3, <2>4, <2>5, <2>6
      DEF Next, RunLine, LogTheCommand, DeferredClose, Logger, vars, LP!Next, LP!Main
  <1> QED
    BY <1>1, <1>2, PTL DEF Spec, LP!Spec

-----------------------------------------------------------------------------
\* A step of the session logs one entry or none.
LEMMA OneEntryAtMost ==
  ASSUME SP!IInv, S!Next
  PROVE  UNCHANGED log \/ Len(log') = Len(log) + 1
  <1>1. PICK T : log \in Seq(T)
    BY DEF SP!IInv, SP!LogIsSequence
  <1>2. UNCHANGED log \/ \E e : log' = Append(log, e)
    BY DEF S!Next, S!BuiltinLine, S!ExternalLine, S!StartFails, S!BlankLine, S!StdinPipeFails,
           S!EndOfInput, S!ReadFails, S!TreeChanges, S!RunCommand
  <1>3. ASSUME NEW e PROVE Len(Append(log, e)) = Len(log) + 1
    BY <1>1
  <1> QED
    BY <1>2, <1>3

\* A line and its entry keep the numbers together.
LEMMA RunLineSameEntries == IInv /\ RunLine => SameEntries'
  <1> SUFFICES ASSUME IInv, RunLine PROVE SameEntries'
    OBVIOUS
  <1>1. accepted \in Seq(1..MaxLines) /\ logged \in Nat
    BY DEF IInv, LP!IInv, LP!TypeOK
  <1>2. CASE UNCHANGED loggerVars /\ UNCHANGED log
    BY <1>2 DEF IInv, SameEntries, loggerVars
  <1>3. CASE L!Log /\ log' # log
    <2>1. logged' = logged + 1 /\ Len(log') = Len(log) + 1
      BY <1>3, OneEntryAtMost DEF IInv, RunLine, L!Log
    <2>2. CASE accepted' = Append(accepted, logged') /\ UNCHANGED dropped
      <3> SUFFICES ASSUME dropped = 0
                   PROVE  \A i \in 1..Len(accepted') : accepted'[i] = i
        BY <2>1, <2>2 DEF IInv, SameEntries
      <3>1. logged = Len(accepted)
        BY <1>1 DEF IInv, LP!IInv, LP!Accounts
      <3>2. \A i \in 1..Len(accepted) : accepted[i] = i
        BY DEF IInv, SameEntries
      <3>3. Len(accepted') = Len(accepted) + 1 /\ accepted'[Len(accepted) + 1] = logged'
            /\ \A i \in 1..Len(accepted) : accepted'[i] = accepted[i]
        BY <1>1, <2>2
      <3> QED
        BY <1>1, <2>1, <3>1, <3>2, <3>3
    <2>3. CASE dropped' = dropped + 1 /\ UNCHANGED accepted
      BY <2>1, <2>3 DEF IInv, SameEntries
    <2> QED
      BY <1>3, <2>2, <2>3 DEF L!Log
  <1> QED
    BY <1>2, <1>3 DEF RunLine, LogTheCommand

\* Nothing else offers an entry.
LEMMA OtherStepsSameEntries ==
  IInv /\ (DeferredClose \/ Logger \/ UNCHANGED vars) => SameEntries'
  <1> SUFFICES ASSUME IInv, DeferredClose \/ Logger \/ UNCHANGED vars PROVE SameEntries'
    OBVIOUS
  <1>1. UNCHANGED <<log, logged, dropped, accepted>>
    BY DEF DeferredClose, Logger, vars, sessionVars, loggerVars, L!BeginClose, L!CloseReturn,
           L!FlushDone, L!FlushTimeout, L!CloseReturnsWith, L!Exit, L!Killed, L!Worker,
           L!Receive, L!WriteSink, L!RangeEnds, L!CloseSink, L!chanVars, L!mainVars
  <1> QED
    BY <1>1 DEF IInv, SameEntries

THEOREM Invariance == Spec => []IInv
  <1>1. Spec => []SP!IInv
    <2>1. S!Init => SP!IInv
      <3>1. S!Init => SP!Init
        BY DEF S!Init, SP!Init, S!NoSummary, SP!NoSummary
      <3> QED
        BY <3>1, SessionConstants, SP!InitIInv
    <2> QED
      BY <2>1, SessionStep, PshRunsASession, PTL DEF S!Spec
  <1>2. Spec => []LP!IInv
    BY PshRunsALogger, LP!Invariance
    DEF LP!QueueSizeAssumption, LP!NumSinksAssumption, LP!MaxEntriesAssumption,
        LP!UnencodableAssumption
  <1>3. Init => SameEntries
    BY DEF Init, S!Init, L!Init, SameEntries
  <1>4. SP!IInv /\ LP!IInv /\ SameEntries /\ [Next]_vars => SameEntries'
    BY RunLineSameEntries, OtherStepsSameEntries DEF Next, IInv
  <1> QED
    BY <1>1, <1>2, <1>3, <1>4, PTL DEF Spec, IInv

-----------------------------------------------------------------------------
\* Every place of the worker is a written one or a failed one.
LEMMA WrittenOrFailed ==
  ASSUME IInv
  PROVE  /\ Cardinality(Written) \in Nat /\ Cardinality(Failed) \in Nat
         /\ Len(settled[1]) = Cardinality(Written) + Cardinality(Failed)
  <1>1. Len(settled[1]) \in Nat /\ DOMAIN settled[1] = 1..Len(settled[1])
    BY DEF IInv, LP!IInv, LP!TypeOK, LP!Sinks
  <1>2. IsFiniteSet(DOMAIN settled[1]) /\ Cardinality(DOMAIN settled[1]) = Len(settled[1])
    BY <1>1, FS_Interval
  <1>3. Written \subseteq DOMAIN settled[1] /\ DOMAIN settled[1] \cap Written = Written
    BY DEF Written
  <1>4. IsFiniteSet(Written) /\ Cardinality(Written) \in Nat
    BY <1>2, <1>3, FS_Subset, FS_CardinalityType
  <1>5. IsFiniteSet(Failed) /\ Cardinality(Failed) = Cardinality(DOMAIN settled[1]) - Cardinality(Written)
    <2>1. /\ IsFiniteSet(DOMAIN settled[1] \ Written)
          /\ Cardinality(DOMAIN settled[1] \ Written)
               = Cardinality(DOMAIN settled[1]) - Cardinality(DOMAIN settled[1] \cap Written)
      BY <1>2, FS_Difference, Zenon
    <2> QED
      BY <2>1, <1>3, Zenon DEF Failed
  <1>6. Cardinality(Failed) \in Nat
    BY <1>5, FS_CardinalityType
  <1> QED
    BY <1>1, <1>2, <1>4, <1>5, <1>6

\* While none is dropped, the worker's i-th place is the session's i-th entry.
LEMMA FileIsTheLogSoFar ==
  ASSUME IInv, dropped = 0
  PROVE  /\ Len(settled[1]) \in Nat /\ Len(settled[1]) <= Len(accepted)
         /\ Len(accepted) = Len(log)
         /\ File = [i \in 1..Len(settled[1]) |-> log[i]]
  <1>1. /\ settled[1] \in Seq(LP!Settlements) /\ accepted \in Seq(1..MaxLines)
        /\ Len(settled[1]) \in Nat /\ DOMAIN settled[1] = 1..Len(settled[1])
    BY DEF IInv, LP!IInv, LP!TypeOK, LP!Sinks
  <1>2. \A i \in 1..Len(settled[1]) : i <= Len(accepted) /\ settled[1][i].entry = accepted[i]
    BY DEF IInv, LP!IInv, LP!SettledInOrder, LP!Sinks
  <1>3. Len(settled[1]) <= Len(accepted) /\ Len(accepted) \in Nat
    BY <1>1, <1>2
  <1>4. logged = Len(accepted) /\ logged = Len(log)
    BY <1>3 DEF IInv, LP!IInv, LP!Accounts, SameEntries
  <1>5. \A i \in 1..Len(settled[1]) : settled[1][i].entry = i
    BY <1>1, <1>2, <1>3 DEF IInv, SameEntries
  <1> QED
    BY <1>1, <1>3, <1>4, <1>5 DEF File

\* When Close has flushed, every command is in the file or on stderr, and if
\* stderr is silent the file is the session's log.
THEOREM NothingIsLostSilently == Spec => []NothingLostSilently
  <1>1. IInv => NothingLostSilently
    <2> SUFFICES ASSUME IInv, closeResults = <<"nil">> PROVE NothingLostSilently
      BY DEF NothingLostSilently
    <2>1. closeResults # <<>> /\ closeResults[1] = "nil"
      OBVIOUS
    <2>2. worker = "done" /\ reportedDrops = dropped
      BY <2>1 DEF IInv, LP!IInv, LP!Accounts
    <2>3. Len(settled[1]) = Len(accepted) /\ Len(accepted) \in Nat /\ dropped \in Nat
      BY <2>2 DEF IInv, LP!IInv, LP!TypeOK, LP!QueueIsTail, LP!SettledUpTo, LP!SinksClose,
                  LP!Taken, LP!Sinks
    <2>4. Len(log) = Cardinality(Written) + Cardinality(Failed) + reportedDrops
      BY <2>2, <2>3, WrittenOrFailed DEF IInv, LP!IInv, LP!Accounts, SameEntries
    <2>5. phase = "finished" => summary.commands = Len(log)
      BY DEF IInv, SP!IInv, SP!CountersMatchLog
    <2>6. ASSUME Failed = {}, reportedDrops = 0 PROVE File = log
      <3>1. Len(settled[1]) = Len(log) /\ File = [i \in 1..Len(settled[1]) |-> log[i]]
        BY <2>2, <2>3, <2>6, FileIsTheLogSoFar
      <3>2. PICK T : log \in Seq(T)
        BY DEF IInv, SP!IInv, SP!LogIsSequence
      <3>3. log = [i \in 1..Len(log) |-> log[i]]
        BY <3>2
      <3> QED
        BY <3>1, <3>3
    <2> QED
      BY <2>4, <2>5, <2>6 DEF NothingLostSilently
  <1> QED
    BY <1>1, Invariance, PTL

\* At any moment, so also when a signal ends it, the file lacks at most the queue
\* and one entry of what was not reported, and without a loss it is a prefix.
THEOREM AKillLeavesAPrefix == Spec => []KilledLeavesPrefix
  <1>1. IInv => KilledLeavesPrefix
    <2> SUFFICES ASSUME IInv PROVE KilledLeavesPrefix
      OBVIOUS
    <2> DEFINE n == Len(settled[1])
    <2>1. /\ Len(accepted) \in Nat /\ Len(entries) \in Nat /\ Len(entries) <= QueueSize
          /\ n \in Nat
      BY DEF IInv, LP!IInv, LP!TypeOK, LP!Sinks
    <2>2. n = LP!Taken - 1 \/ n = LP!Taken
      BY DEF IInv, LP!IInv, LP!SettledUpTo, LP!Sinks
    <2>3. Len(log) = Len(accepted) + dropped /\ dropped \in Nat
      BY DEF IInv, LP!IInv, LP!Accounts, SameEntries
    <2>4. /\ Cardinality(Written) \in Nat /\ Cardinality(Failed) \in Nat
          /\ n = Cardinality(Written) + Cardinality(Failed)
      BY WrittenOrFailed
    <2> HIDE DEF n
    <2>5. Len(log) - Cardinality(Written) <= QueueSize + 1 + Cardinality(Failed) + dropped
      BY <2>1, <2>2, <2>3, <2>4 DEF LP!Taken
    <2>6. ASSUME Failed = {}, dropped = 0 PROVE IsPrefix(File, log)
      <3>1. n \in Nat /\ n <= Len(log) /\ File = [i \in 1..n |-> log[i]]
        BY <2>6, FileIsTheLogSoFar DEF n
      <3>2. PICK T : log \in Seq(T)
        BY DEF IInv, SP!IInv, SP!LogIsSequence
      <3>3. File \in Seq(T) /\ Len(File) = n
        BY <3>1, <3>2
      <3>4. SubSeq(File, 1, n) = SubSeq(log, 1, n)
        BY <3>1, <3>2, <3>3
      <3> QED
        BY <3>1, <3>3, <3>4 DEF IsPrefix
    <2> QED
      BY <2>5, <2>6 DEF KilledLeavesPrefix
  <1> QED
    BY <1>1, Invariance, PTL
=============================================================================
