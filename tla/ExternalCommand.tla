--------------------------- MODULE ExternalCommand ---------------------------
(***************************************************************************)
(* runExternal (src/internal/pipery/session.go): one command that psh      *)
(* starts, feeds, watches and logs. The actors are psh's own goroutine     *)
(* (Start, Wait, then the log entry), copyInput, which moves psh's stdin   *)
(* into the child's pipe, one goroutine of os/exec per output stream,      *)
(* which moves the child's pipe to the terminal and to the capture, the    *)
(* child, a process it may leave behind, and whoever writes psh's stdin.   *)
(*                                                                         *)
(* Bytes are counted, not told apart: every stream is a queue and nothing  *)
(* reorders one. capture counts the bytes offered to a cappedBuffer; what  *)
(* that buffer keeps of them is CappedBuffer's.                            *)
(***************************************************************************)
EXTENDS Integers, FiniteSets

CONSTANTS
  Streams,     \* output streams of the child: stdout, stderr
  ChildCodes,  \* what the child may exit with; -1 is a signal
  PipeSize,    \* bytes a pipe buffers
  ChunkSize,   \* bytes one Read of io.Copy returns at most
  SourceSize,  \* BOUND: bytes psh's stdin has to give, at most
  OutputSize   \* BOUND: bytes written to each output stream

ASSUME SizesAssumption ==
  PipeSize \in Nat \ {0} /\ ChunkSize \in Nat \ {0} /\ SourceSize \in Nat /\ OutputSize \in Nat
ASSUME ChildCodesAssumption == ChildCodes \subseteq (-1)..255

VARIABLES
  main,         \* psh: "start", "wait", "awaitCopy" or "logged"
  entry,        \* the entry passed to logger.Log
  hasInput,     \* input # nil
  source,       \* bytes left in psh's stdin
  copier,       \* copyInput: "none", "read", "write" or "done"
  chunk,        \* the bytes it read, and how many of them it has written
  copyErr,      \* it ended with an error
  stdinCapture, \* bytes offered to stdinCapture
  stdinPipe,    \* bytes in the child's stdin pipe
  stdinOpen,    \* psh holds the write end
  consumed,     \* bytes read from that pipe
  drains,       \* the child is one that reads its stdin to the end
  child,        \* "none", "running" or "exited"
  childCode,    \* what it exited with
  descendant,   \* a process the child started, by what it holds: "none",
                \* "allPipes", "outputPipes" or "exited"
  outPipe,      \* bytes in each output pipe
  produced,     \* bytes written to each output pipe so far
  outCopier,    \* os/exec's goroutines: "none", "read", "write" or "done"
  held,         \* bytes each of them has read and not yet passed on
  shown,        \* bytes that reached psh's own stdout and stderr
  outCapture,   \* bytes offered to stdoutCapture and stderrCapture
  outErr        \* each goroutine ended with an error

stdinVars  == <<source, copier, chunk, copyErr, stdinCapture>>
pipeVars   == <<stdinPipe, stdinOpen, consumed>>
procVars   == <<drains, child, childCode, descendant>>
outVars    == <<outPipe, produced, outCopier, held, shown, outCapture, outErr>>
mainVars   == <<main, entry, hasInput>>
vars       == <<mainVars, stdinVars, pipeVars, procVars, outVars>>

NoEntry == [started |-> FALSE, code |-> -2, waitError |-> FALSE, copyError |-> FALSE]

Init ==
  /\ main = "start" /\ entry = NoEntry /\ hasInput \in BOOLEAN
  /\ source \in 0..SourceSize /\ copier = "none" /\ copyErr = FALSE
  /\ chunk = [read |-> 0, written |-> 0] /\ stdinCapture = 0
  /\ stdinPipe = 0 /\ stdinOpen = FALSE /\ consumed = 0
  /\ drains \in BOOLEAN /\ child = "none" /\ childCode = 0 /\ descendant = "none"
  /\ outPipe = [s \in Streams |-> 0] /\ produced = [s \in Streams |-> 0]
  /\ outCopier = [s \in Streams |-> "none"] /\ held = [s \in Streams |-> 0]
  /\ shown = [s \in Streams |-> 0] /\ outCapture = [s \in Streams |-> 0]
  /\ outErr = [s \in Streams |-> FALSE]

-----------------------------------------------------------------------------
\* psh's goroutine.

\* cmd.Start, then go copyInput. The child's stdin is /dev/null without input.
Start ==
  /\ main = "start"
  /\ main' = "wait" /\ child' = "running"
  /\ copier' = (IF hasInput THEN "read" ELSE "none")
  /\ stdinOpen' = hasInput
  /\ outCopier' = [s \in Streams |-> "read"]
  /\ UNCHANGED <<entry, hasInput, source, chunk, copyErr, stdinCapture, stdinPipe,
                 consumed, drains, childCode, descendant, outPipe, produced, held,
                 shown, outCapture, outErr>>

\* cmd.Start fails: logged at once with deriveExitCode's 127 or 1.
StartFails ==
  /\ main = "start"
  /\ main' = "logged"
  /\ \E code \in {1, 127} :
       entry' = [started |-> FALSE, code |-> code, waitError |-> TRUE, copyError |-> FALSE]
  /\ UNCHANGED <<hasInput, stdinVars, pipeVars, procVars, outVars>>

\* cmd.Wait's error, as deriveExitCode reads it: the child's own exit comes
\* first, then an error of an output goroutine, which is not an ExitError.
ExitCodeCopyErrorFirst ==
  IF \E s \in Streams : outErr[s] THEN 1 ELSE childCode

ExitCode ==
  IF childCode # 0 THEN childCode
  ELSE IF \E s \in Streams : outErr[s] THEN 1 ELSE 0

\* cmd.Wait: the child is reaped, every output goroutine has ended (a process
\* that holds a pipe open keeps it waiting), and psh's pipe ends are closed.
WaitForChildOnly ==
  /\ main = "wait" /\ child = "exited"
  /\ main' = "awaitCopy"
  /\ stdinOpen' = FALSE
  /\ UNCHANGED <<entry, hasInput, stdinVars, stdinPipe, consumed, procVars, outVars>>

Wait ==
  /\ main = "wait" /\ child = "exited"
  /\ \A s \in Streams : outCopier[s] = "done"
  /\ main' = "awaitCopy"
  /\ stdinOpen' = FALSE
  /\ UNCHANGED <<entry, hasInput, stdinVars, stdinPipe, consumed, procVars, outVars>>

\* <-copyDone if there was input, then the entry. Wait's error is kept as text
\* only when the exit code is negative.
LogWithoutCopy ==
  /\ main = "awaitCopy"
  /\ main' = "logged"
  /\ entry' = [started |-> TRUE, code |-> ExitCode, waitError |-> ExitCode < 0,
               copyError |-> copyErr]
  /\ UNCHANGED <<hasInput, stdinVars, pipeVars, procVars, outVars>>

Log ==
  /\ main = "awaitCopy"
  /\ hasInput => copier = "done"
  /\ main' = "logged"
  /\ entry' = [started |-> TRUE, code |-> ExitCode, waitError |-> ExitCode < 0,
               copyError |-> copyErr]
  /\ UNCHANGED <<hasInput, stdinVars, pipeVars, procVars, outVars>>

-----------------------------------------------------------------------------
\* copyInput: io.Copy(io.MultiWriter(dst, capture), src).

\* A pipe has its other end open while a process that inherited it lives.
StdinHeld  == child = "running" \/ descendant = "allPipes"
OutputHeld == child = "running" \/ descendant \in {"allPipes", "outputPipes"}

\* A Read returns some of what the source has.
CopierReads ==
  /\ copier = "read" /\ source > 0
  /\ \E k \in 1..ChunkSize :
       /\ k <= source
       /\ source' = source - k /\ chunk' = [read |-> k, written |-> 0]
  /\ copier' = "write"
  /\ UNCHANGED <<copyErr, stdinCapture, mainVars, pipeVars, procVars, outVars>>

\* EOF, or a failing Read: the deferred dst.Close ends the child's input.
CopierEndsWithoutClose ==
  /\ copier = "read" /\ source = 0
  /\ copier' = "done" /\ copyErr' \in BOOLEAN
  /\ UNCHANGED <<stdinOpen, source, chunk, stdinCapture, stdinPipe, consumed,
                 mainVars, procVars, outVars>>

CopierEnds ==
  /\ copier = "read" /\ source = 0
  /\ copier' = "done" /\ copyErr' \in BOOLEAN
  /\ stdinOpen' = FALSE
  /\ UNCHANGED <<source, chunk, stdinCapture, stdinPipe, consumed,
                 mainVars, procVars, outVars>>

\* A byte of the chunk goes into the pipe when there is room: a write larger than
\* the room left goes in by parts. (A byte stands for a page of the pipe.)
CopierWritesOverfull ==
  /\ copier = "write" /\ chunk.written < chunk.read
  /\ stdinOpen /\ StdinHeld
  /\ stdinPipe' = stdinPipe + 1
  /\ chunk' = [chunk EXCEPT !.written = @ + 1]
  /\ UNCHANGED <<source, copier, copyErr, stdinCapture, stdinOpen, consumed,
                 mainVars, procVars, outVars>>

CopierWrites ==
  /\ copier = "write" /\ chunk.written < chunk.read
  /\ stdinOpen /\ StdinHeld /\ stdinPipe < PipeSize
  /\ stdinPipe' = stdinPipe + 1
  /\ chunk' = [chunk EXCEPT !.written = @ + 1]
  /\ UNCHANGED <<source, copier, copyErr, stdinCapture, stdinOpen, consumed,
                 mainVars, procVars, outVars>>

\* The pipe took the whole chunk, then the capture does.
CopierCapturesAtOnce ==
  /\ copier = "write" /\ chunk.written < chunk.read
  /\ stdinCapture' = stdinCapture + chunk.read
  /\ copier' = "read"
  /\ UNCHANGED <<source, chunk, copyErr, mainVars, pipeVars, procVars, outVars>>

CopierCaptures ==
  /\ copier = "write" /\ chunk.written = chunk.read
  /\ stdinCapture' = stdinCapture + chunk.read
  /\ copier' = "read"
  /\ UNCHANGED <<source, chunk, copyErr, mainVars, pipeVars, procVars, outVars>>

\* EPIPE with no reader left, os.ErrClosed once Wait has closed the pipe:
\* neither is io.ErrClosedPipe, so either is recorded.
CopierWriteFails ==
  /\ copier = "write" /\ chunk.written < chunk.read
  /\ ~stdinOpen \/ ~StdinHeld
  /\ copier' = "done" /\ copyErr' = TRUE
  /\ stdinOpen' = FALSE
  /\ UNCHANGED <<source, chunk, stdinCapture, stdinPipe, consumed,
                 mainVars, procVars, outVars>>

-----------------------------------------------------------------------------
\* The processes.

\* The child, or what it left behind, reads a byte of its stdin.
ReadsStdin ==
  /\ StdinHeld /\ stdinPipe > 0
  /\ stdinPipe' = stdinPipe - 1 /\ consumed' = consumed + 1
  /\ UNCHANGED <<stdinOpen, mainVars, stdinVars, procVars, outVars>>

\* Either writes a byte of output.
WritesOutput(s) ==
  /\ OutputHeld /\ produced[s] < OutputSize
  /\ outCopier[s] # "done" /\ outPipe[s] < PipeSize
  /\ outPipe' = [outPipe EXCEPT ![s] = @ + 1]
  /\ produced' = [produced EXCEPT ![s] = @ + 1]
  /\ UNCHANGED <<outCopier, held, shown, outCapture, outErr,
                 mainVars, stdinVars, pipeVars, procVars>>

\* The child starts something in the background, which inherits its pipes, or
\* (a shell's "&") all but its stdin.
Forks ==
  /\ child = "running" /\ descendant = "none"
  /\ descendant' \in {"allPipes", "outputPipes"}
  /\ UNCHANGED <<drains, child, childCode, mainVars, stdinVars, pipeVars, outVars>>

\* The child ends; one that drains its stdin does so after its EOF, unless
\* nobody reads its output any more.
ChildExits ==
  /\ child = "running"
  /\ drains => (stdinPipe = 0 /\ ~stdinOpen) \/ \E s \in Streams : outErr[s]
  /\ child' = "exited" /\ childCode' \in ChildCodes
  /\ UNCHANGED <<drains, descendant, mainVars, stdinVars, pipeVars, outVars>>

DescendantExits ==
  /\ descendant \in {"allPipes", "outputPipes"}
  /\ descendant' = "exited"
  /\ UNCHANGED <<drains, child, childCode, mainVars, stdinVars, pipeVars, outVars>>

-----------------------------------------------------------------------------
\* os/exec's goroutine of one output stream: io.Copy(io.MultiWriter(terminal,
\* capture), pipe).

OutReads(s) ==
  /\ outCopier[s] = "read" /\ outPipe[s] > 0
  /\ \E k \in 1..outPipe[s] :
       /\ outPipe' = [outPipe EXCEPT ![s] = @ - k]
       /\ held' = [held EXCEPT ![s] = k]
  /\ outCopier' = [outCopier EXCEPT ![s] = "write"]
  /\ UNCHANGED <<produced, shown, outCapture, outErr,
                 mainVars, stdinVars, pipeVars, procVars>>

\* The terminal takes what was read, then the capture does.
OutWrites(s) ==
  /\ outCopier[s] = "write"
  /\ shown' = [shown EXCEPT ![s] = @ + held[s]]
  /\ outCapture' = [outCapture EXCEPT ![s] = @ + held[s]]
  /\ held' = [held EXCEPT ![s] = 0]
  /\ outCopier' = [outCopier EXCEPT ![s] = "read"]
  /\ UNCHANGED <<outPipe, produced, outErr, mainVars, stdinVars, pipeVars, procVars>>

\* psh's own stdout refuses the rest: the capture gets nothing of this chunk, and
\* the goroutine closes the pipe under whoever still writes to it.
OutWriteFails(s) ==
  /\ outCopier[s] = "write"
  /\ \E k \in 0..(held[s] - 1) : shown' = [shown EXCEPT ![s] = @ + k]
  /\ held' = [held EXCEPT ![s] = 0]
  /\ outErr' = [outErr EXCEPT ![s] = TRUE]
  /\ outCopier' = [outCopier EXCEPT ![s] = "done"]
  /\ UNCHANGED <<outPipe, produced, outCapture, mainVars, stdinVars, pipeVars, procVars>>

\* EOF: the pipe is empty and nobody can write to it any more.
OutEnds(s) ==
  /\ outCopier[s] = "read" /\ outPipe[s] = 0 /\ ~OutputHeld
  /\ outCopier' = [outCopier EXCEPT ![s] = "done"]
  /\ UNCHANGED <<outPipe, produced, held, shown, outCapture, outErr,
                 mainVars, stdinVars, pipeVars, procVars>>

-----------------------------------------------------------------------------
Psh    == Start \/ StartFails \/ Wait \/ Log
Source == CopierReads \/ CopierEnds
Copier == CopierWrites \/ CopierCaptures \/ CopierWriteFails
Output(s) == OutReads(s) \/ OutWrites(s) \/ OutWriteFails(s) \/ OutEnds(s)
Processes == \/ ReadsStdin \/ Forks \/ ChildExits \/ DescendantExits
             \/ \E s \in Streams : WritesOutput(s)

Next == Psh \/ Source \/ Copier \/ (\E s \in Streams : Output(s)) \/ Processes

Spec == Init /\ [][Next]_vars

\* psh's goroutines run, its terminal takes output, and the processes it started
\* read what they are given and end.
Running ==
  /\ WF_vars(Psh) /\ WF_vars(Copier)
  /\ \A s \in Streams : WF_vars(Output(s))
  /\ WF_vars(ReadsStdin) /\ WF_vars(ChildExits) /\ WF_vars(DescendantExits)

\* And whoever writes psh's stdin goes on and in the end closes it.
FairSpec == Spec /\ Running /\ WF_vars(Source)

-----------------------------------------------------------------------------
\* Type correctness of the pipes, the captures and every goroutine's state.
TypeOK ==
  /\ main \in {"start", "wait", "awaitCopy", "logged"}
  /\ hasInput \in BOOLEAN /\ drains \in BOOLEAN /\ copyErr \in BOOLEAN
  /\ copier \in {"none", "read", "write", "done"}
  /\ source \in 0..SourceSize /\ stdinCapture \in 0..SourceSize
  /\ stdinPipe \in 0..PipeSize /\ consumed \in 0..SourceSize /\ stdinOpen \in BOOLEAN
  /\ chunk \in [read : 0..ChunkSize, written : 0..ChunkSize]
  /\ child \in {"none", "running", "exited"} /\ childCode \in ChildCodes \cup {0}
  /\ descendant \in {"none", "allPipes", "outputPipes", "exited"}
  /\ outPipe \in [Streams -> 0..PipeSize] /\ held \in [Streams -> 0..PipeSize]
  /\ produced \in [Streams -> 0..OutputSize] /\ shown \in [Streams -> 0..OutputSize]
  /\ outCapture \in [Streams -> 0..OutputSize] /\ outErr \in [Streams -> BOOLEAN]
  /\ outCopier \in [Streams -> {"none", "read", "write", "done"}]
  /\ entry.code \in (-2)..255

\* The entry reads the capture buffers, which have no lock: by then no goroutine
\* that writes to one is left.
CapturesAreQuiet ==
  main = "logged" =>
    /\ copier \in {"none", "done"}
    /\ \A s \in Streams : outCopier[s] \in {"none", "done"}
    /\ child # "running"

\* The entry has all the output of the command and of what it left behind, and
\* the same bytes the user saw, unless psh's own output stopped taking it.
OutputIsComplete ==
  main = "logged" =>
    \A s \in Streams :
      IF outErr[s] THEN outCapture[s] <= shown[s] /\ shown[s] <= produced[s]
                   ELSE outCapture[s] = produced[s] /\ shown[s] = produced[s]

\* The recorded stdin was really given to the command: every captured byte went
\* into its pipe.
StdinIsNotInvented == stdinCapture <= consumed + stdinPipe

\* A recorded exit code is the child's own, or 1 in place of its 0 when its
\* output could not be passed on.
ExitCodeIsTheChilds ==
  main = "logged" /\ entry.started =>
    \/ entry.code = childCode
    \/ childCode = 0 /\ entry.code = 1 /\ \E s \in Streams : outErr[s]

\* Every command is logged in the end, also one that reads its stdin to the end
\* or leaves a process behind, if psh's own stdin ends.
CommandIsLogged == main = "wait" ~> main = "logged"
=============================================================================
