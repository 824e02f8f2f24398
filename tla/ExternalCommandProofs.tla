------------------------ MODULE ExternalCommandProofs ------------------------
(***************************************************************************)
(* The safety properties of ExternalCommand for any set of output streams, *)
(* any exit codes, and any sizes of pipes, chunks, input and output.       *)
(***************************************************************************)
EXTENDS ExternalCommand, TLAPS

USE SizesAssumption, ChildCodesAssumption

\* What has been started, and has ended, at each step of psh's goroutine.
Steps ==
  /\ main = "start" => child = "none"
  /\ main \in {"wait", "awaitCopy"} => child # "none" /\ (copier # "none" <=> hasInput)
  /\ main = "awaitCopy" => child = "exited"
  /\ main = "awaitCopy" => \A s \in Streams : outCopier[s] = "done"
  /\ child = "none" => copier = "none" /\ descendant = "none" /\ main \in {"start", "logged"}
  /\ \A s \in Streams : outCopier[s] = "none" <=> child = "none"

\* Every byte a process wrote is in the pipe, held by the goroutine, or shown and
\* captured, until psh's own output fails; then some are in the first two no more.
OutputAccounts ==
  \A s \in Streams :
    /\ outCopier[s] # "write" => held[s] = 0
    /\ ~outErr[s] => /\ outCapture[s] = shown[s]
                     /\ shown[s] + held[s] + outPipe[s] = produced[s]
    /\ outErr[s] => /\ outCopier[s] = "done"
                    /\ outCapture[s] <= shown[s] /\ shown[s] + outPipe[s] <= produced[s]
    /\ outCopier[s] \in {"none", "done"} /\ ~outErr[s] => outPipe[s] = 0

\* The input is unread, about to be written, in the pipe or consumed; what the
\* capture has, and the part of the chunk in the pipe, are among the last two.
InputAccounts ==
  LET writing == copier = "write"
  IN  /\ chunk.written <= chunk.read
      /\ source + stdinPipe + consumed + (IF writing THEN chunk.read - chunk.written ELSE 0)
           <= SourceSize
      /\ source + stdinCapture + (IF writing THEN chunk.read ELSE 0) <= SourceSize
      /\ stdinCapture + (IF writing THEN chunk.written ELSE 0) <= consumed + stdinPipe

\* When the entry is made, everybody who could change what it says has ended.
EntryIsFinal ==
  main = "logged" =>
    IF entry.started
      THEN /\ entry.code = ExitCode /\ child = "exited" /\ copier \in {"none", "done"}
           /\ \A s \in Streams : outCopier[s] = "done"
      ELSE child = "none"

IInv == TypeOK /\ Steps /\ OutputAccounts /\ InputAccounts /\ EntryIsFinal

-----------------------------------------------------------------------------
\* The initial state satisfies the invariant.
LEMMA InitIInv == Init => IInv
  <1> SUFFICES ASSUME Init PROVE IInv
    OBVIOUS
  <1> USE DEF Init
  <1>1. TypeOK
    <2>1. /\ chunk \in [read : 0..ChunkSize, written : 0..ChunkSize] /\ entry.code \in (-2)..255
          /\ source \in 0..SourceSize
      BY DEF NoEntry
    <2>2. /\ 0 \in 0..SourceSize /\ 0 \in 0..PipeSize /\ 0 \in 0..OutputSize
      OBVIOUS
    <2> QED
      BY <2>1, <2>2 DEF TypeOK
  <1>2. Steps /\ EntryIsFinal
    BY DEF Steps, EntryIsFinal
  <1>3. OutputAccounts /\ InputAccounts
    BY DEF OutputAccounts, InputAccounts
  <1> QED
    BY <1>1, <1>2, <1>3 DEF IInv

-----------------------------------------------------------------------------
\* psh's goroutine: it starts the child and its goroutines, or ends after them.
LEMMA PshIInv == IInv /\ Psh => IInv'
  <1> SUFFICES ASSUME IInv, Psh PROVE IInv'
    OBVIOUS
  <1> USE DEF IInv
  <1>1. CASE Start
    <2>1. TypeOK'
      BY <1>1 DEF Start, TypeOK
    <2>2. Steps' /\ EntryIsFinal'
      BY <1>1 DEF Start, Steps, EntryIsFinal
    <2>3. OutputAccounts'
      BY <1>1 DEF Start, Steps, OutputAccounts
    <2>4. InputAccounts'
      BY <1>1 DEF Start, Steps, InputAccounts
    <2> QED
      BY <2>1, <2>2, <2>3, <2>4
  <1>2. CASE StartFails
    <2>1. TypeOK'
      BY <1>2 DEF StartFails, TypeOK, stdinVars, pipeVars, procVars, outVars
    <2>2. Steps' /\ EntryIsFinal'
      BY <1>2 DEF StartFails, Steps, EntryIsFinal, stdinVars, pipeVars, procVars, outVars
    <2>3. OutputAccounts' /\ InputAccounts'
      BY <1>2 DEF StartFails, OutputAccounts, InputAccounts, stdinVars, pipeVars, outVars
    <2> QED
      BY <2>1, <2>2, <2>3
  <1>3. CASE Wait
    <2>1. TypeOK'
      BY <1>3 DEF Wait, TypeOK, stdinVars, procVars, outVars
    <2>2. Steps' /\ EntryIsFinal'
      BY <1>3 DEF Wait, Steps, EntryIsFinal, stdinVars, procVars, outVars
    <2>3. OutputAccounts' /\ InputAccounts'
      BY <1>3 DEF Wait, OutputAccounts, InputAccounts, stdinVars, outVars
    <2> QED
      BY <2>1, <2>2, <2>3
  <1>4. CASE Log
    <2>1. ExitCode \in (-1)..255
      BY DEF ExitCode, TypeOK
    <2>2. TypeOK'
      BY <1>4, <2>1 DEF Log, TypeOK, stdinVars, pipeVars, procVars, outVars
    <2>3. ExitCode' = ExitCode
      BY <1>4 DEF Log, ExitCode, procVars, outVars
    <2>4. Steps' /\ EntryIsFinal'
      BY <1>4, <2>3 DEF Log, TypeOK, Steps, EntryIsFinal, stdinVars, pipeVars, procVars, outVars
    <2>5. OutputAccounts' /\ InputAccounts'
      BY <1>4 DEF Log, OutputAccounts, InputAccounts, stdinVars, pipeVars, outVars
    <2> QED
      BY <2>2, <2>4, <2>5
  <1> QED
    BY <1>1, <1>2, <1>3, <1>4 DEF Psh

\* copyInput: bytes move from the source to the chunk, the pipe and the capture.
LEMMA CopierIInv == IInv /\ (Source \/ Copier) => IInv'
  <1> SUFFICES ASSUME IInv, Source \/ Copier PROVE IInv'
    OBVIOUS
  <1> USE DEF IInv
  <1>1. /\ UNCHANGED <<mainVars, procVars, outVars>> /\ child # "none"
        /\ copier \in {"read", "write"} /\ copier' # "none"
    BY DEF Source, Copier, CopierReads, CopierEnds, CopierWrites, CopierCaptures,
           CopierWriteFails, Steps
  <1>2. Steps'
    BY <1>1 DEF Steps, mainVars, procVars, outVars
  <1>3. OutputAccounts'
    BY <1>1 DEF OutputAccounts, outVars
  <1>4. EntryIsFinal'
    BY <1>1 DEF EntryIsFinal, Steps, mainVars, procVars, outVars
  <1>5. InputAccounts'
    <2>1. CASE CopierReads
      BY <2>1 DEF CopierReads, InputAccounts, TypeOK, pipeVars
    <2>2. CASE CopierEnds
      BY <2>2 DEF CopierEnds, InputAccounts, TypeOK
    <2>3. CASE CopierWrites
      BY <2>3 DEF CopierWrites, InputAccounts, TypeOK
    <2>4. CASE CopierCaptures
      BY <2>4 DEF CopierCaptures, InputAccounts, TypeOK, pipeVars
    <2>5. CASE CopierWriteFails
      BY <2>5 DEF CopierWriteFails, InputAccounts, TypeOK
    <2> QED
      BY <2>1, <2>2, <2>3, <2>4, <2>5 DEF Source, Copier
  <1>6. /\ source' \in 0..SourceSize /\ stdinCapture' \in 0..SourceSize
        /\ stdinPipe' \in 0..PipeSize /\ consumed' = consumed
        /\ chunk' \in [read : 0..ChunkSize, written : 0..ChunkSize]
        /\ stdinOpen' \in BOOLEAN /\ copyErr' \in BOOLEAN
        /\ copier' \in {"read", "write", "done"}
    <2>1. CASE CopierReads
      BY <2>1 DEF CopierReads, TypeOK, pipeVars
    <2>2. CASE CopierEnds
      BY <2>2 DEF CopierEnds, TypeOK
    <2>3. CASE CopierWrites
      BY <2>3 DEF CopierWrites, TypeOK
    <2>4. CASE CopierCaptures
      BY <2>4 DEF CopierCaptures, InputAccounts, TypeOK, pipeVars
    <2>5. CASE CopierWriteFails
      BY <2>5 DEF CopierWriteFails, TypeOK
    <2> QED
      BY <2>1, <2>2, <2>3, <2>4, <2>5 DEF Source, Copier
  <1>7. TypeOK'
    BY <1>1, <1>6 DEF TypeOK, mainVars, procVars, outVars
  <1> QED
    BY <1>2, <1>3, <1>4, <1>5, <1>7

\* One output goroutine: bytes move from its pipe to the terminal and the capture.
LEMMA OutputIInv == ASSUME IInv, NEW s \in Streams, Output(s) PROVE IInv'
  <1> USE DEF IInv
  <1>1. /\ UNCHANGED <<mainVars, stdinVars, pipeVars, procVars, produced>>
        /\ outCopier[s] \in {"read", "write"}
        /\ \E c \in {"read", "write", "done"} : outCopier' = [outCopier EXCEPT ![s] = c]
    BY DEF Output, OutReads, OutWrites, OutWriteFails, OutEnds
  <1>2. Steps'
    BY <1>1 DEF TypeOK, Steps, mainVars, stdinVars, procVars
  <1>3. InputAccounts'
    BY <1>1 DEF InputAccounts, stdinVars, pipeVars
  <1>4. EntryIsFinal'
    BY <1>1 DEF EntryIsFinal, Steps, mainVars, procVars
  <1>5. OutputAccounts'
    <2>1. CASE OutReads(s)
      BY <2>1 DEF OutReads, OutputAccounts, TypeOK
    <2>2. CASE OutWrites(s)
      BY <2>2 DEF OutWrites, OutputAccounts, TypeOK
    <2>3. CASE OutWriteFails(s)
      BY <2>3 DEF OutWriteFails, OutputAccounts, TypeOK
    <2>4. CASE OutEnds(s)
      BY <2>4 DEF OutEnds, OutputAccounts, TypeOK
    <2> QED
      BY <2>1, <2>2, <2>3, <2>4 DEF Output
  <1>6. /\ outPipe' \in [Streams -> 0..PipeSize] /\ held' \in [Streams -> 0..PipeSize]
        /\ shown' \in [Streams -> 0..OutputSize] /\ outCapture' \in [Streams -> 0..OutputSize]
        /\ outErr' \in [Streams -> BOOLEAN]
        /\ outCopier' \in [Streams -> {"none", "read", "write", "done"}]
    <2>1. CASE OutReads(s)
      BY <2>1 DEF OutReads, TypeOK
    <2>2. CASE OutWrites(s)
      <3>1. shown[s] + held[s] \in 0..OutputSize /\ outCapture[s] + held[s] \in 0..OutputSize
        BY <2>2 DEF OutWrites, OutputAccounts, TypeOK
      <3> QED
        BY <2>2, <3>1 DEF OutWrites, TypeOK
    <2>3. CASE OutWriteFails(s)
      <3>1. \A k \in 0..(held[s] - 1) : shown[s] + k \in 0..OutputSize
        BY <2>3 DEF OutWriteFails, OutputAccounts, TypeOK
      <3> QED
        BY <2>3, <3>1 DEF OutWriteFails, TypeOK
    <2>4. CASE OutEnds(s)
      BY <2>4 DEF OutEnds, TypeOK
    <2> QED
      BY <2>1, <2>2, <2>3, <2>4 DEF Output
  <1>7. TypeOK'
    BY <1>1, <1>6 DEF TypeOK, mainVars, stdinVars, pipeVars, procVars
  <1> QED
    BY <1>2, <1>3, <1>4, <1>5, <1>7

\* The child and what it leaves behind: nothing once the child was never started,
\* and no output after its goroutine has ended.
LEMMA ProcessesIInv == IInv /\ Processes => IInv'
  <1> SUFFICES ASSUME IInv, Processes PROVE IInv'
    OBVIOUS
  <1> USE DEF IInv
  <1>1. CASE ReadsStdin
    <2>1. TypeOK' /\ InputAccounts'
      BY <1>1 DEF ReadsStdin, TypeOK, InputAccounts, mainVars, stdinVars, procVars, outVars
    <2>2. Steps' /\ OutputAccounts'
      BY <1>1 DEF ReadsStdin, Steps, OutputAccounts, mainVars, stdinVars, procVars, outVars
    <2>3. EntryIsFinal'
      BY <1>1 DEF ReadsStdin, EntryIsFinal, ExitCode, mainVars, stdinVars, procVars, outVars
    <2> QED
      BY <2>1, <2>2, <2>3
  <1>2. CASE Forks \/ ChildExits \/ DescendantExits
    <2>1. /\ UNCHANGED <<mainVars, stdinVars, pipeVars, outVars, drains>> /\ child # "none"
          /\ child' \in {"running", "exited"} /\ childCode' \in ChildCodes \cup {0}
          /\ descendant' \in {"none", "allPipes", "outputPipes", "exited"}
          /\ child = "exited" => child' = child /\ childCode' = childCode
      BY <1>2 DEF Forks, ChildExits, DescendantExits, Steps, TypeOK
    <2>2. TypeOK' /\ Steps'
      BY <2>1 DEF TypeOK, Steps, mainVars, stdinVars, pipeVars, outVars
    <2>3. InputAccounts' /\ OutputAccounts'
      BY <2>1 DEF InputAccounts, OutputAccounts, stdinVars, pipeVars, outVars
    <2>4. EntryIsFinal'
      BY <2>1 DEF EntryIsFinal, ExitCode, mainVars, stdinVars, outVars
    <2> QED
      BY <2>2, <2>3, <2>4
  <1>3. ASSUME NEW s \in Streams, WritesOutput(s) PROVE IInv'
    <2>1. child # "none" /\ outCopier[s] \in {"read", "write"}
      BY <1>3 DEF WritesOutput, OutputHeld, Steps, TypeOK
    <2>2. TypeOK'
      BY <1>3 DEF WritesOutput, TypeOK, mainVars, stdinVars, pipeVars, procVars
    <2>3. OutputAccounts'
      BY <1>3, <2>1 DEF WritesOutput, OutputAccounts, TypeOK
    <2>4. Steps' /\ InputAccounts'
      BY <1>3 DEF WritesOutput, Steps, InputAccounts, mainVars, stdinVars, pipeVars, procVars
    <2>5. EntryIsFinal'
      BY <1>3 DEF WritesOutput, EntryIsFinal, ExitCode, mainVars, stdinVars, procVars
    <2> QED
      BY <2>2, <2>3, <2>4, <2>5
  <1> QED
    BY <1>1, <1>2, <1>3 DEF Processes

\* Every reachable state satisfies the invariant.
THEOREM Invariance == Spec => []IInv
  <1>1. IInv /\ [Next]_vars => IInv'
    <2> SUFFICES ASSUME IInv, [Next]_vars PROVE IInv'
      OBVIOUS
    <2>1. CASE UNCHANGED vars
      BY <2>1 DEF vars, mainVars, stdinVars, pipeVars, procVars, outVars, IInv, TypeOK, Steps,
                  OutputAccounts, InputAccounts, EntryIsFinal, ExitCode
    <2> QED
      BY <2>1, PshIInv, CopierIInv, OutputIInv, ProcessesIInv DEF Next
  <1> QED
    BY <1>1, InitIInv, PTL DEF Spec

\* Type correctness of everything that runs for one command.
THEOREM TypeCorrect == Spec => []TypeOK
  <1>1. IInv => TypeOK
    BY DEF IInv
  <1> QED
    BY <1>1, Invariance, PTL

\* No goroutine touches a capture buffer that the entry reads.
THEOREM CapturesAreReadQuiet == Spec => []CapturesAreQuiet
  <1>1. IInv => CapturesAreQuiet
    BY DEF IInv, EntryIsFinal, Steps, TypeOK, CapturesAreQuiet
  <1> QED
    BY <1>1, Invariance, PTL

\* The entry has all the output, or psh's own output failed.
THEOREM OutputIsLogged == Spec => []OutputIsComplete
  <1>1. IInv => OutputIsComplete
    BY DEF IInv, EntryIsFinal, Steps, OutputAccounts, TypeOK, OutputIsComplete
  <1> QED
    BY <1>1, Invariance, PTL

\* What is recorded as the command's stdin went into its pipe.
THEOREM StdinWasGiven == Spec => []StdinIsNotInvented
  <1>1. IInv => StdinIsNotInvented
    BY DEF IInv, InputAccounts, TypeOK, StdinIsNotInvented
  <1> QED
    BY <1>1, Invariance, PTL

\* The recorded exit code is the child's, or a 1 that says its output was lost.
THEOREM ExitCodeIsTrue == Spec => []ExitCodeIsTheChilds
  <1>1. IInv => ExitCodeIsTheChilds
    BY DEF IInv, EntryIsFinal, ExitCode, ExitCodeIsTheChilds
  <1> QED
    BY <1>1, Invariance, PTL
=============================================================================
