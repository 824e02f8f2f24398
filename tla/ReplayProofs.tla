----------------------------- MODULE ReplayProofs -----------------------------
(***************************************************************************)
(* Replays, for any number of them, any recordings, options, queue size,   *)
(* number of files and any trees. Four results:                            *)
(*  - TypeIsCorrect, from Shape: every file is lines of entries, every log *)
(*    entries, and a replay has by each step what that step needs;         *)
(*  - ReplaysAreAsRecorded, from Recording: file 0 never changes, each of  *)
(*    its entries says what its command does from where it began, and what *)
(*    was run of it says the same;                                         *)
(*  - ReportsAreTrue, from Accounted: a replay's lines and then its pending*)
(*    entries are, in order, entries of commands it ran. Lines that rise   *)
(*    through as many commands as there are lines are those commands;      *)
(*  - EarlierLogsAreKept, from OwnFiles.                                   *)
(* The recorded log is a recursive function: that it exists, and what it   *)
(* says of every step, is shown by the least step for which it would not.  *)
(***************************************************************************)
EXTENDS Replay, SequenceTheorems, WellFoundedInduction, TLAPS

USE ReplaySizes, LogFilesAssumption, CodesAssumption

\* Of some free numbers one is the least.
LEMMA LeastFree ==
  ASSUME NEW free \in SUBSET Nat, free # {}
  PROVE  \E n \in free : \A m \in free : n <= m
  <1>1. PICK n \in free : \A m \in free : <<m, n>> \notin OpToRel(<, Nat)
    BY NatLessThanWellFounded, WFMin
  <1>2. \A m \in free : ~(m < n)
    BY <1>1 DEF OpToRel
  <1> QED
    BY <1>2

\* A sequence of whatever is in it.
IsSeq(s) == s \in Seq(Range(s))

LEMMA SeqFacts ==
  ASSUME NEW s, IsSeq(s)
  PROVE  Len(s) \in Nat /\ DOMAIN s = 1..Len(s) /\ (s = <<>> <=> Len(s) = 0)
         /\ s = [i \in 1..Len(s) |-> s[i]]
  BY DEF IsSeq

LEMMA IsSeqOf ==
  ASSUME NEW n \in Nat, NEW s, s = [i \in 1..n |-> s[i]]
  PROVE  IsSeq(s) /\ Len(s) = n
  <1>1. DOMAIN s = 1..n /\ \A i \in 1..n : s[i] \in Range(s)
    BY DEF Range
  <1>2. s \in [1..n -> Range(s)]
    BY <1>1
  <1> QED
    BY <1>2 DEF IsSeq

LEMMA IsSeqIn == ASSUME NEW T, NEW s \in Seq(T) PROVE IsSeq(s)
  <1>1. Len(s) \in Nat /\ s \in [1..Len(s) -> T]
    OBVIOUS
  <1>2. s = [i \in 1..Len(s) |-> s[i]]
    BY <1>1
  <1> HIDE DEF IsSeq
  <1> QED
    BY <1>1, <1>2, IsSeqOf

LEMMA AppendFacts ==
  ASSUME NEW s, IsSeq(s), NEW x
  PROVE  /\ IsSeq(Append(s, x)) /\ Len(Append(s, x)) = Len(s) + 1 /\ Append(s, x) # <<>>
         /\ \A i \in 1..Len(s) : Append(s, x)[i] = s[i]
         /\ Append(s, x)[Len(s) + 1] = x /\ Last(Append(s, x)) = x
  <1> DEFINE T == Range(s) \cup {x}
             a == Append(s, x)
  <1>1. s \in Seq(T) /\ x \in T
    <2>1. Len(s) \in Nat /\ s \in [1..Len(s) -> T]
      BY DEF IsSeq
    <2> QED
      BY <2>1
  <1>2. /\ a \in Seq(T) /\ Len(a) = Len(s) + 1 /\ Len(s) \in Nat
        /\ \A i \in 1..Len(s) : a[i] = s[i]
        /\ a[Len(s) + 1] = x
    BY <1>1, AppendProperties
  <1>4. IsSeq(a)
    BY <1>2, IsSeqIn
  <1>5. a # <<>> /\ Last(a) = x
    BY <1>2 DEF Last
  <1> QED
    BY <1>2, <1>4, <1>5

LEMMA TailFacts ==
  ASSUME NEW s, IsSeq(s), s # <<>>
  PROVE  /\ IsSeq(Tail(s)) /\ Len(Tail(s)) = Len(s) - 1 /\ Len(s) \in Nat \ {0}
         /\ \A i \in 1..(Len(s) - 1) : Tail(s)[i] = s[i + 1]
         /\ Head(s) = s[1]
  <1>1. s \in Seq(Range(s)) /\ Len(s) \in Nat \ {0} /\ Head(s) = s[1]
    BY DEF IsSeq
  <1>2. /\ Tail(s) \in Seq(Range(s)) /\ Len(Tail(s)) = Len(s) - 1
        /\ \A i \in 1..(Len(s) - 1) : Tail(s)[i] = s[i + 1]
    BY <1>1, HeadTailProperties
  <1>4. IsSeq(Tail(s))
    BY <1>2, IsSeqIn
  <1> QED
    BY <1>1, <1>2, <1>4

-----------------------------------------------------------------------------
\* A log file: lines with an entry, a writer and what became of them.
IsFile(file) ==
  IsSeq(file) /\ \A i \in DOMAIN file :
    file[i] = [entry |-> file[i].entry, by |-> file[i].by,
               whole |-> file[i].whole, ended |-> file[i].ended]

\* New bytes continue the last line or make one; no line changes its entry or writer.
LEMMA AddLineFacts ==
  ASSUME NEW file, IsFile(file), NEW line,
         line = [entry |-> line.entry, by |-> line.by, whole |-> line.whole, ended |-> line.ended]
  PROVE  LET new == AddLine(file, line)
         IN  /\ IsFile(new)
             /\ \A i \in DOMAIN file : i \in DOMAIN new /\ new[i].entry = file[i].entry /\ new[i].by = file[i].by
             /\ \/ Len(new) = Len(file)
                \/ Len(new) = Len(file) + 1 /\ new[Len(new)] = line
  <1>1. Len(file) \in Nat /\ DOMAIN file = 1..Len(file) /\ (file = <<>> <=> Len(file) = 0)
        /\ file = [i \in 1..Len(file) |-> file[i]]
    BY SeqFacts DEF IsFile
  <1>2. CASE file = <<>> \/ Last(file).ended
    <2> DEFINE new == Append(file, line)
    <2>1. AddLine(file, line) = new
      BY <1>2 DEF AddLine
    <2>2. /\ IsSeq(new) /\ Len(new) = Len(file) + 1
          /\ \A i \in 1..Len(file) : new[i] = file[i]
          /\ new[Len(file) + 1] = line
      BY AppendFacts DEF IsFile
    <2>3. DOMAIN new = 1..(Len(file) + 1)
      BY <2>2, SeqFacts
    <2> HIDE DEF new
    <2>4. \A i \in DOMAIN new : i \in DOMAIN file \/ i = Len(file) + 1
      BY <1>1, <2>3
    <2>5. \A i \in DOMAIN new :
            new[i] = [entry |-> new[i].entry, by |-> new[i].by,
                      whole |-> new[i].whole, ended |-> new[i].ended]
      <3> SUFFICES ASSUME NEW i \in DOMAIN new
                   PROVE new[i] = [entry |-> new[i].entry, by |-> new[i].by,
                                   whole |-> new[i].whole, ended |-> new[i].ended]
        OBVIOUS
      <3>1. CASE i \in DOMAIN file
        BY <1>1, <2>2, <3>1 DEF IsFile
      <3>2. CASE i = Len(file) + 1
        BY <2>2, <3>2
      <3> QED
        BY <2>4, <3>1, <3>2
    <2>6. \A i \in DOMAIN file : i \in DOMAIN new /\ new[i] = file[i]
      BY <1>1, <2>2, <2>3
    <2>7. IsFile(new)
      BY <2>2, <2>5 DEF IsFile
    <2> QED
      BY <2>1, <2>2, <2>6, <2>7
  <1>3. CASE ~(file = <<>> \/ Last(file).ended)
    <2> DEFINE n == Len(file)
               last == [file[n] EXCEPT !.whole = FALSE, !.ended = line.ended]
               new == [file EXCEPT ![n] = last]
    <2>1. AddLine(file, line) = new
      BY <1>3 DEF AddLine
    <2>2. n \in DOMAIN file
      BY <1>1, <1>3
    <2>3. file[n] = [entry |-> file[n].entry, by |-> file[n].by,
                     whole |-> file[n].whole, ended |-> file[n].ended]
      BY <2>2 DEF IsFile
    <2>4. last = [entry |-> file[n].entry, by |-> file[n].by, whole |-> FALSE, ended |-> line.ended]
      <3> DEFINE part == [file[n] EXCEPT !.whole = FALSE]
      <3>1. /\ DOMAIN part = {"entry", "by", "whole", "ended"} /\ part.entry = file[n].entry
            /\ part.by = file[n].by /\ part.whole = FALSE
        BY <2>3
      <3>2. last = [part EXCEPT !.ended = line.ended]
        OBVIOUS
      <3> HIDE DEF part
      <3>3. last = [k \in {"entry", "by", "whole", "ended"} |-> IF k = "ended" THEN line.ended ELSE part[k]]
        BY <3>1, <3>2
      <3> HIDE DEF last
      <3> QED
        BY <3>1, <3>3
    <2> HIDE DEF last
    <2>5. /\ DOMAIN new = DOMAIN file /\ new[n] = last
          /\ \A i \in DOMAIN file : i # n => new[i] = file[i]
          /\ new = [i \in 1..n |-> new[i]]
      BY <1>1, <2>2
    <2>6. IsSeq(new) /\ Len(new) = n
      BY <1>1, <2>5, IsSeqOf
    <2> HIDE DEF new
    <2>7. \A i \in DOMAIN new : new[i] = [entry |-> new[i].entry, by |-> new[i].by,
                                          whole |-> new[i].whole, ended |-> new[i].ended]
      BY <2>4, <2>5 DEF IsFile
    <2>8. \A i \in DOMAIN file : new[i].entry = file[i].entry /\ new[i].by = file[i].by
      <3>1. last.entry = file[n].entry /\ last.by = file[n].by
        BY <2>4
      <3> QED
        BY <2>5, <3>1
    <2>9. IsFile(new)
      BY <2>6, <2>7 DEF IsFile
    <2> QED
      BY <2>1, <2>5, <2>6, <2>8, <2>9
  <1> QED
    BY <1>2, <1>3

-----------------------------------------------------------------------------
\* The equation RecordedLog chooses a solution of.
BeginsWhereLastEnded(log, steps, env, fs, n) ==
  log = [i \in 1..n |-> IF i = 1 THEN EntryOf(steps[1], StartCwd, env, fs)
                       ELSE EntryOf(steps[i], log[i - 1].cwd, log[i - 1].env, fs)]

\* It has one, for logs of every length.
LEMMA RecordedLogExists ==
  ASSUME NEW steps, NEW env, NEW fs, NEW n \in Nat
  PROVE  \E log : BeginsWhereLastEnded(log, steps, env, fs, n)
  <1> DEFINE IsLog(log, m) == BeginsWhereLastEnded(log, steps, env, fs, m)
             Bad == {m \in Nat : ~\E log : IsLog(log, m)}
  <1>1. ASSUME NEW m \in Bad PROVE \E k \in Bad : k < m
    <2>1. m # 0
      <3>1. IsLog(<<>>, 0)
        BY DEF BeginsWhereLastEnded
      <3> HIDE DEF IsLog
      <3> QED
        BY <3>1
    <2>2. m - 1 \in Nat /\ m - 1 < m
      BY <2>1
    <2>3. ASSUME NEW log, IsLog(log, m - 1) PROVE \E longer : IsLog(longer, m)
      <3> DEFINE longer == [i \in 1..m |-> IF i < m THEN log[i]
                              ELSE IF i = 1 THEN EntryOf(steps[1], StartCwd, env, fs)
                              ELSE EntryOf(steps[i], log[i - 1].cwd, log[i - 1].env, fs)]
      <3>1. \A i \in 1..m : i # 1 => longer[i - 1] = log[i - 1]
        BY <2>2
      <3>2. \A i \in 1..(m - 1) :
              log[i] = IF i = 1 THEN EntryOf(steps[1], StartCwd, env, fs)
                       ELSE EntryOf(steps[i], log[i - 1].cwd, log[i - 1].env, fs)
        BY <2>2, <2>3 DEF BeginsWhereLastEnded
      <3>3. \A i \in 1..m :
              longer[i] = IF i = 1 THEN EntryOf(steps[1], StartCwd, env, fs)
                          ELSE EntryOf(steps[i], longer[i - 1].cwd, longer[i - 1].env, fs)
        <4> SUFFICES ASSUME NEW i \in 1..m
                     PROVE  longer[i] = IF i = 1 THEN EntryOf(steps[1], StartCwd, env, fs)
                                        ELSE EntryOf(steps[i], longer[i - 1].cwd, longer[i - 1].env, fs)
          OBVIOUS
        <4>1. longer[i] = IF i < m THEN log[i]
                          ELSE IF i = 1 THEN EntryOf(steps[1], StartCwd, env, fs)
                          ELSE EntryOf(steps[i], log[i - 1].cwd, log[i - 1].env, fs)
          OBVIOUS
        <4>2. i < m => i \in 1..(m - 1)
          OBVIOUS
        <4> HIDE DEF longer
        <4> QED
          BY <3>1, <3>2, <4>1, <4>2
      <3>4. DOMAIN longer = 1..m /\ longer = [i \in 1..m |-> longer[i]]
        OBVIOUS
      <3> HIDE DEF longer
      <3>5. IsLog(longer, m)
        BY <3>3, <3>4 DEF BeginsWhereLastEnded
      <3> QED
        BY <3>5
    <2>4. m - 1 \in Bad
      BY <2>2, <2>3
    <2> QED
      BY <2>2, <2>4
  <1>2. Bad = {}
    <2> SUFFICES ASSUME Bad # {} PROVE FALSE
      OBVIOUS
    <2> HIDE DEF Bad
    <2>1. Bad \in SUBSET Nat
      BY DEF Bad
    <2>2. PICK m \in Bad : \A k \in Bad : m <= k
      BY <2>1, LeastFree
    <2>3. \A k \in Bad : k \in Nat /\ m \in Nat
      BY <2>1
    <2> QED
      BY <1>1, <2>2, <2>3
  <1> QED
    BY <1>2

\* Each entry of a recorded log begins where the one before it ended.
LEMMA RecordedLogUnfolds ==
  ASSUME NEW steps, NEW env, NEW fs, NEW n \in Nat, DOMAIN steps = 1..n
  PROVE  BeginsWhereLastEnded(RecordedLog(steps, env, fs), steps, env, fs, n)
  <1>1. RecordedLog(steps, env, fs) = CHOOSE log : BeginsWhereLastEnded(log, steps, env, fs, n)
    BY DEF RecordedLog, BeginsWhereLastEnded
  <1> QED
    BY <1>1, RecordedLogExists

-----------------------------------------------------------------------------
\* Exit codes are numbers, those that a recorded exit asks for as well.
IntCodes(e) ==
  /\ e.code \in Int /\ HasIntCode(e.cmd)
  /\ "line" \in DOMAIN e.cmd => HasIntCode(e.cmd.line) /\ "line" \notin DOMAIN e.cmd.line

IsEntry(e) ==
  /\ IntCodes(e)
  /\ DOMAIN e = {"cmd", "via", "mode", "beforeCwd", "beforeEnv", "cwd", "env", "code", "stdout"}

IsLog(log) == IsSeq(log) /\ \A i \in DOMAIN log : IsEntry(log[i])

Running == {"open", "run", "close", "readBack", "done"}

\* What Load lets through.
IsInput(logs) ==
  /\ IsSeq(logs) /\ Len(logs) \in {1, 2} /\ Comparable(logs)
  /\ \A t \in DOMAIN logs : IsLog(logs[t]) /\ logs[t] # <<>>

\* One replay: where it is, and what it has by then.
Progress(p) ==
  /\ pc[p] \in {"load", "choose", "failed"} \cup Running
  /\ path[p] \in {Unnamed} \cup (1..MaxAttempts)
  /\ pc[p] \in Running => path[p] \in 1..MaxAttempts
  /\ pc[p] \in Running \ {"open"} => path[p] \in DOMAIN disk
  /\ pc[p] \in {"choose"} \cup Running => IsInput(traces[p])
  /\ IsLog(ran[p]) /\ IsLog(pending[p]) /\ exitCode[p] \in Int
  /\ Len(pending[p]) <= QueueSize + 1 /\ Len(pending[p]) <= Len(ran[p])
  /\ pc[p] \in {"load", "choose", "open"} => ran[p] = <<>>
  /\ pc[p] \in Running => Len(ran[p]) <= Len(Template(p))
  /\ pc[p] = "run" => Len(ran[p]) < Len(Template(p))
  /\ pc[p] \in {"close", "readBack", "done"} => ran[p] # <<>>

\* The log files, the options and every replay.
Files ==
  /\ DOMAIN disk \subseteq 0..MaxAttempts /\ 0 \in DOMAIN disk
  /\ \A f \in DOMAIN disk : IsFile(disk[f]) /\ \A i \in DOMAIN disk[f] : IsEntry(disk[f][i].entry)

PerReplay ==
  /\ DOMAIN pc = Replays /\ DOMAIN traces = Replays /\ DOMAIN path = Replays
  /\ DOMAIN ran = Replays /\ DOMAIN pending = Replays /\ DOMAIN report = Replays
  /\ DOMAIN exitCode = Replays

Options ==
  /\ tree \in Trees /\ disturbed \in BOOLEAN /\ logFile \in LogFiles
  /\ inputs \in {<<0>>, <<0, 1>>} /\ Range(inputs) \subseteq DOMAIN disk

Shape == Options /\ Files /\ PerReplay /\ \A p \in Replays : Progress(p)

-----------------------------------------------------------------------------
\* An entry's code is a number if the step's are.
LEMMA EntryCodes ==
  ASSUME NEW step, NEW cwd, NEW env, NEW fs, IntCodes(step)
  PROVE  IsEntry(EntryOf(step, cwd, env, fs))
  <1> DEFINE out == Outcomes(step, cwd, env, fs)
             cmd == step.cmd
  <1>1. EntryOf(step, cwd, env, fs).code = out.code /\ EntryOf(step, cwd, env, fs).cmd = cmd
    BY DEF EntryOf
  <1>2. out.code \in Int
    <2>1. CASE cmd.op \in BuiltinOps
      <3>1. out = RunBuiltin(cmd, cwd, env, fs)
        BY <2>1 DEF Outcomes
      <3>2. CASE cmd.op = "pwd"
        <4>1. out = RunPwd(cwd, env)
          BY <3>1, <3>2, Zenon DEF RunBuiltin
        <4> QED
          BY <4>1 DEF RunPwd, Outcome
      <3>3. CASE cmd.op = "exit"
        <4>1. out = RunExit(cwd, env, cmd.code)
          BY <3>1, <3>3 DEF RunBuiltin
        <4> QED
          BY <3>3, <4>1 DEF RunExit, Outcome, IntCodes, HasIntCode
      <3>4. CASE cmd.op = "exitNotANumber"
        <4>1. out = RunExitNotANumber(cwd, env)
          BY <3>1, <3>4 DEF RunBuiltin
        <4> QED
          BY <4>1 DEF RunExitNotANumber, Outcome
      <3>5. CASE cmd.op = "cd"
        <4>1. out = RunCd(cwd, env, cmd.target, fs)
          BY <3>1, <3>5 DEF RunBuiltin
        <4> QED
          BY <4>1 DEF RunCd, Outcome
      <3>6. CASE cmd.op = "export"
        <4>1. out = RunExport(cwd, env, cmd.key, cmd.value)
          BY <3>1, <3>6 DEF RunBuiltin
        <4> QED
          BY <4>1 DEF RunExport, Outcome
      <3>7. CASE cmd.op = "unset"
        <4>1. out = RunUnset(cwd, env, cmd.key)
          BY <3>1, <3>7 DEF RunBuiltin
        <4> QED
          BY <4>1 DEF RunUnset, Outcome
      <3>8. CASE cmd.op = "malformed"
        <4>1. out = RunMalformed(cwd, env)
          BY <3>1, <3>8 DEF RunBuiltin
        <4> QED
          BY <4>1 DEF RunMalformed, Outcome
      <3> QED
        BY <2>1, <3>2, <3>3, <3>4, <3>5, <3>6, <3>7, <3>8 DEF BuiltinOps
    <2>2. CASE cmd.op \notin BuiltinOps
      BY <2>2 DEF Outcomes, Outcome, IntCodes
    <2> QED
      BY <2>1, <2>2
  <1> HIDE DEF out, cmd
  <1>3. cmd = step.cmd
    BY DEF cmd
  <1>4. IntCodes(EntryOf(step, cwd, env, fs))
    BY <1>1, <1>2, <1>3 DEF IntCodes
  <1>5. DOMAIN EntryOf(step, cwd, env, fs) =
          {"cmd", "via", "mode", "beforeCwd", "beforeEnv", "cwd", "env", "code", "stdout"}
    BY DEF EntryOf
  <1> QED
    BY <1>4, <1>5 DEF IsEntry

\* So is the code of what is run again.
LEMMA AgainCodes ==
  ASSUME NEW recorded, IntCodes(recorded), NEW code \in Int PROVE IntCodes(Again(recorded, code))
  <1> DEFINE again == Again(recorded, code)
  <1>1. again.code = code
    BY DEF Again
  <1>2. again.cmd = recorded.cmd \/ ("line" \in DOMAIN recorded.cmd /\ again.cmd = recorded.cmd.line)
    BY DEF Again
  <1> HIDE DEF again
  <1>3. IntCodes(again)
    BY <1>1, <1>2 DEF IntCodes
  <1> QED
    BY <1>3 DEF again

\* Reading an entry back changes its beforeEnv at most.
LEMMA DecodeFacts ==
  ASSUME NEW e, IsEntry(e)
  PROVE  /\ IsEntry(Decode(e))
         /\ \A field \in DOMAIN e \ {"beforeEnv"} : Decode(e)[field] = e[field]
         /\ Decode(e).beforeEnv = IF DOMAIN e.beforeEnv = {} THEN e.env ELSE e.beforeEnv
  <1> DEFINE d == Decode(e)
  <1>1. /\ DOMAIN d = DOMAIN e
        /\ \A field \in DOMAIN e \ {"beforeEnv"} : d[field] = e[field]
        /\ d.beforeEnv = IF DOMAIN e.beforeEnv = {} THEN e.env ELSE e.beforeEnv
    BY DEF Decode, IsEntry
  <1> HIDE DEF d
  <1>2. d.cmd = e.cmd /\ d.code = e.code
    BY <1>1 DEF IsEntry
  <1>3. IsEntry(d)
    BY <1>1, <1>2 DEF IsEntry, IntCodes
  <1> QED
    BY <1>1, <1>3 DEF d

\* The log read from a file.
LEMMA EntriesFacts ==
  ASSUME NEW file, IsFile(file), \A i \in DOMAIN file : IsEntry(file[i].entry)
  PROVE  /\ IsLog(Entries(file)) /\ Len(Entries(file)) = Len(file)
         /\ DOMAIN Entries(file) = DOMAIN file
         /\ \A i \in DOMAIN file : Entries(file)[i] = Decode(file[i].entry)
  <1> DEFINE log == Entries(file)
  <1>1. Len(file) \in Nat /\ DOMAIN file = 1..Len(file)
    BY SeqFacts DEF IsFile
  <1>2. log = [i \in DOMAIN file |-> Decode(file[i].entry)]
    BY DEF Entries
  <1> HIDE DEF log
  <1>3. log = [i \in 1..Len(file) |-> log[i]]
    BY <1>1, <1>2
  <1>4. IsSeq(log) /\ Len(log) = Len(file)
    BY <1>1, <1>3, IsSeqOf
  <1>5. \A i \in DOMAIN file : log[i] = Decode(file[i].entry) /\ IsEntry(log[i])
    BY <1>2, DecodeFacts
  <1> QED
    BY <1>2, <1>4, <1>5 DEF IsLog, log

\* The file a writer of a log leaves.
LEMMA FileOfFacts ==
  ASSUME NEW log, IsLog(log), NEW w
  PROVE  LET file == FileOf(log, w)
         IN  /\ IsFile(file) /\ Len(file) = Len(log) /\ DOMAIN file = DOMAIN log
             /\ \A i \in DOMAIN file : file[i] = Line(log[i], w)
  <1> DEFINE file == FileOf(log, w)
  <1>1. Len(log) \in Nat /\ DOMAIN log = 1..Len(log)
    BY SeqFacts DEF IsLog
  <1>2. file = [i \in DOMAIN log |-> Line(log[i], w)]
    BY DEF FileOf
  <1> HIDE DEF file
  <1>3. file = [i \in 1..Len(log) |-> file[i]]
    BY <1>1, <1>2
  <1>4. IsSeq(file) /\ Len(file) = Len(log)
    BY <1>1, <1>3, IsSeqOf
  <1>5. \A i \in DOMAIN file : file[i] = Line(log[i], w)
    BY <1>2
  <1>6. IsFile(file)
    BY <1>4, <1>5 DEF IsFile, Line
  <1> QED
    BY <1>2, <1>4, <1>5, <1>6 DEF file

\* The log of a recording has an entry of each step, as it would be from some
\* directory and environment.
LEMMA RecordedLogFacts ==
  ASSUME NEW steps \in Recordings, NEW env, NEW fs
  PROVE  LET log == RecordedLog(steps, env, fs)
         IN  /\ IsLog(log) /\ log # <<>>
             /\ \A i \in DOMAIN log : \E step, cwd, e :
                  Recordable(step) /\ log[i] = EntryOf(step, cwd, e, fs)
  <1> DEFINE log == RecordedLog(steps, env, fs)
  <1>1. IsSeq(steps) /\ steps # <<>> /\ \A i \in DOMAIN steps : Recordable(steps[i])
    BY RecordingsAssumption DEF RecordingsAssumption, IsSeq, Range
  <1>2. DOMAIN steps = 1..Len(steps) /\ Len(steps) \in Nat /\ Len(steps) # 0
    BY <1>1, SeqFacts
  <1>3. BeginsWhereLastEnded(log, steps, env, fs, Len(steps))
    BY <1>2, RecordedLogUnfolds
  <1> HIDE DEF log
  <1>4. DOMAIN log = 1..Len(steps) /\ log = [i \in 1..Len(steps) |-> log[i]]
    BY <1>3 DEF BeginsWhereLastEnded
  <1>5. IsSeq(log) /\ Len(log) = Len(steps)
    BY <1>2, <1>4, IsSeqOf
  <1>6. log # <<>>
    BY <1>2, <1>5, SeqFacts
  <1>7. ASSUME NEW i \in DOMAIN log
        PROVE  \E cwd, e : log[i] = EntryOf(steps[i], cwd, e, fs)
    <2>1. \/ log[i] = EntryOf(steps[i], StartCwd, env, fs)
          \/ log[i] = EntryOf(steps[i], log[i - 1].cwd, log[i - 1].env, fs)
      BY <1>3, <1>4 DEF BeginsWhereLastEnded
    <2> QED
      BY <2>1
  <1>8. \A i \in DOMAIN log : Recordable(steps[i]) /\ IntCodes(steps[i])
    BY <1>1, <1>2, <1>4 DEF Recordable, IntCodes
  <1>9. \A i \in DOMAIN log : IsEntry(log[i])
    BY <1>7, <1>8, EntryCodes
  <1>10. \A i \in DOMAIN log : \E step, cwd, e : Recordable(step) /\ log[i] = EntryOf(step, cwd, e, fs)
    BY <1>7, <1>8
  <1> QED
    BY <1>5, <1>6, <1>9, <1>10 DEF IsLog, log

\* What a write leaves of a file: every line with its entry and writer, and at most
\* one line more, with the entry that was written.
Adds(new, file, e, w) ==
  /\ IsFile(new)
  /\ \A i \in DOMAIN file : i \in DOMAIN new /\ new[i].entry = file[i].entry /\ new[i].by = file[i].by
  /\ \/ Len(new) = Len(file)
     \/ Len(new) = Len(file) + 1 /\ new[Len(new)].entry = e /\ new[Len(new)].by = w

LEMMA WholeAdds ==
  ASSUME NEW file, IsFile(file), NEW e, NEW w PROVE Adds(WriteWhole(file, e, w), file, e, w)
  <1>1. WriteWhole(file, e, w) = AddLine(file, Line(e, w))
    BY DEF WriteWhole
  <1>2. Line(e, w) = [entry |-> e, by |-> w, whole |-> TRUE, ended |-> TRUE]
    BY DEF Line
  <1>3. Line(e, w).entry = e /\ Line(e, w).by = w
    BY <1>2
  <1> QED
    BY <1>1, <1>2, <1>3, AddLineFacts DEF Adds

LEMMA PartAdds ==
  ASSUME NEW file, IsFile(file), NEW e, NEW w, NEW all PROVE Adds(WritePart(file, e, w, all), file, e, w)
  <1> DEFINE half == [Line(e, w) EXCEPT !.whole = all]
             line == [half EXCEPT !.ended = FALSE]
  <1>1. WritePart(file, e, w, all) = AddLine(file, line)
    BY DEF WritePart
  <1>2. DOMAIN half = {"entry", "by", "whole", "ended"} /\ half.entry = e /\ half.by = w
    BY DEF Line
  <1>3. line = [k \in DOMAIN half |-> IF k = "ended" THEN FALSE ELSE half[k]]
    OBVIOUS
  <1> HIDE DEF half, line
  <1>4. /\ DOMAIN line = {"entry", "by", "whole", "ended"} /\ line = [k \in DOMAIN line |-> line[k]]
        /\ line.entry = e /\ line.by = w
    BY <1>2, <1>3
  <1>5. line = [entry |-> line.entry, by |-> line.by, whole |-> line.whole, ended |-> line.ended]
    BY <1>4
  <1> QED
    BY <1>1, <1>4, <1>5, AddLineFacts DEF Adds

\* The new last line is the only new one.
LEMMA AddsFacts ==
  ASSUME NEW file, IsFile(file), NEW new, NEW e, NEW w, Adds(new, file, e, w), NEW i \in DOMAIN new
  PROVE  i \in DOMAIN file \/ (i = Len(file) + 1 /\ new[i].entry = e /\ new[i].by = w)
  <1>1. DOMAIN new = 1..Len(new) /\ DOMAIN file = 1..Len(file) /\ Len(new) \in Nat /\ Len(file) \in Nat
    BY SeqFacts DEF IsFile, Adds
  <1>2. Len(new) = Len(file) \/ (Len(new) = Len(file) + 1 /\ new[Len(new)].entry = e /\ new[Len(new)].by = w)
    BY DEF Adds
  <1>3. CASE Len(new) = Len(file)
    BY <1>1, <1>3
  <1>4. CASE Len(new) = Len(file) + 1 /\ new[Len(new)].entry = e /\ new[Len(new)].by = w
    <2>1. i \in 1..Len(file) \/ i = Len(file) + 1
      BY <1>1, <1>4
    <2> QED
      BY <1>1, <1>4, <2>1
  <1> QED
    BY <1>2, <1>3, <1>4

\* The files an earlier replay may have left have entries of the log it replayed,
\* and its name on every line.
LEMMA EarlierFileFacts ==
  ASSUME NEW log, IsLog(log), log # <<>>, NEW file \in EarlierFiles(log)
  PROVE  IsFile(file) /\ \A i \in DOMAIN file : IsEntry(file[i].entry) /\ file[i].by = "earlier"
  <1>0. \A e : Line(e, "earlier").entry = e /\ Line(e, "earlier").by = "earlier"
    BY DEF Line
  <1>1. CASE file = FileOf(log, "earlier")
    BY <1>0, <1>1, FileOfFacts DEF IsLog
  <1>2. CASE file = FileOf(Front(log), "earlier")
    <2>1. Len(log) \in Nat \ {0} /\ log \in Seq(Range(log)) /\ DOMAIN log = 1..Len(log)
      BY SeqFacts DEF IsLog, IsSeq
    <2>2. /\ Front(log) \in Seq(Range(log)) /\ Len(Front(log)) = Len(log) - 1
          /\ \A i \in 1..(Len(log) - 1) : Front(log)[i] = log[i]
      BY <2>1 DEF Front
    <2>3. IsSeq(Front(log)) /\ DOMAIN Front(log) = 1..(Len(log) - 1)
      BY <2>1, <2>2, IsSeqIn
    <2>4. IsLog(Front(log))
      BY <2>1, <2>2, <2>3 DEF IsLog
    <2> QED
      BY <1>0, <1>2, <2>4, FileOfFacts DEF IsLog
  <1>3. CASE file = WritePart(<<>>, Head(log), "earlier", FALSE)
    <2>1. IsFile(<<>>) /\ Len(<<>>) = 0 /\ DOMAIN <<>> = {}
      BY IsSeqOf DEF IsFile, IsSeq
    <2>2. IsEntry(Head(log))
      BY TailFacts, SeqFacts DEF IsLog
    <2>3. Adds(file, <<>>, Head(log), "earlier")
      BY <1>3, <2>1, PartAdds
    <2>4. \A i \in DOMAIN file : file[i].entry = Head(log) /\ file[i].by = "earlier"
      BY <2>1, <2>3, AddsFacts
    <2>5. IsFile(file)
      BY <2>3 DEF Adds
    <2> QED
      BY <2>2, <2>4, <2>5
  <1> QED
    BY <1>1, <1>2, <1>3 DEF EarlierFiles

\* The initial state has the shape.
LEMMA InitShape == Init => Shape
  <1> SUFFICES ASSUME Init PROVE Shape
    OBVIOUS
  <1>1. PICK steps \in Recordings : \E env \in StartEnvs :
          LET log == RecordedLog(steps, env, tree)
          IN  \/ disk = [f \in {0} |-> FileOf(log, "session")]
              \/ \E file \in EarlierFiles(log) :
                   disk = [f \in {0, 1} |-> IF f = 0 THEN FileOf(log, "session") ELSE file]
    BY DEF Init
  <1>2. PICK env \in StartEnvs :
          LET log == RecordedLog(steps, env, tree)
          IN  \/ disk = [f \in {0} |-> FileOf(log, "session")]
              \/ \E file \in EarlierFiles(log) :
                   disk = [f \in {0, 1} |-> IF f = 0 THEN FileOf(log, "session") ELSE file]
    BY <1>1
  <1> DEFINE log == RecordedLog(steps, env, tree)
  <1>3. IsLog(log) /\ log # <<>>
    BY RecordedLogFacts
  <1>4. IsFile(FileOf(log, "session")) /\ \A i \in DOMAIN FileOf(log, "session") :
                                            IsEntry(FileOf(log, "session")[i].entry)
    BY <1>3, FileOfFacts DEF IsLog, Line
  <1> HIDE DEF log
  <1>5. \A f \in DOMAIN disk : disk[f] = FileOf(log, "session") \/ disk[f] \in EarlierFiles(log)
    BY <1>2 DEF log
  <1>6. DOMAIN disk \subseteq {0, 1} /\ 0 \in DOMAIN disk
    BY <1>2
  <1>7. Files
    BY <1>3, <1>4, <1>5, <1>6, EarlierFileFacts DEF Files
  <1>8. Options /\ PerReplay
    BY DEF Init, Options, PerReplay
  <1>9. IsLog(<<>>) /\ Len(<<>>) = 0
    BY IsSeqOf DEF IsLog, IsSeq
  <1>10. ASSUME NEW p \in Replays PROVE Progress(p)
    BY <1>9 DEF Init, Progress, Running
  <1> QED
    BY <1>7, <1>8, <1>10 DEF Shape

-----------------------------------------------------------------------------
\* Nothing of another replay changes, and no file goes away.
OnlyAt(p) ==
  /\ \A q \in Replays \ {p} :
       /\ pc'[q] = pc[q] /\ traces'[q] = traces[q] /\ path'[q] = path[q]
       /\ ran'[q] = ran[q] /\ pending'[q] = pending[q] /\ exitCode'[q] = exitCode[q]
  /\ DOMAIN disk \subseteq DOMAIN disk' /\ UNCHANGED <<tree, disturbed, setting>>

LEMMA StepShape ==
  ASSUME Shape, NEW p \in Replays, OnlyAt(p), Files', PerReplay', Progress(p)' PROVE Shape'
  <1>1. Options'
    BY DEF Shape, Options, OnlyAt, setting
  <1>2. ASSUME NEW q \in Replays \ {p} PROVE Progress(q)'
    <2>1. Progress(q) /\ q \in Replays
      BY DEF Shape
    <2>2. UNCHANGED <<pc[q], traces[q], path[q], ran[q], pending[q], exitCode[q]>>
          /\ DOMAIN disk \subseteq DOMAIN disk'
      BY <1>2 DEF OnlyAt
    <2> QED
      BY <2>1, <2>2 DEF Progress, Template
  <1> QED
    BY <1>1, <1>2 DEF Shape

\* A replay that fails goes no further.
LEMMA FailShape ==
  ASSUME Shape, NEW p \in Replays, Fail(p),
         UNCHANGED <<tree, disturbed, disk, setting, traces, path, ran, pending, report>>
  PROVE  Shape'
  <1>1. pc' = [pc EXCEPT ![p] = "failed"] /\ exitCode' = [exitCode EXCEPT ![p] = 1]
    BY DEF Fail, Goto
  <1>2. PerReplay /\ Files /\ Progress(p)
    BY DEF Shape
  <1>3. OnlyAt(p) /\ PerReplay'
    BY <1>1, <1>2 DEF OnlyAt, PerReplay
  <1>4. Files'
    BY <1>2 DEF Files
  <1>5. pc'[p] = "failed" /\ exitCode'[p] = 1
    BY <1>1, <1>2 DEF PerReplay
  <1>6. Progress(p)'
    BY <1>2, <1>5 DEF Progress, Running
  <1> QED
    BY <1>3, <1>4, <1>6, StepShape

\* What a replay loads is comparable, and every log in it has an entry.
LEMMA LoadShape == ASSUME Shape, NEW p \in Replays, Load(p) PROVE Shape'
  <1> DEFINE logs == [t \in DOMAIN inputs |-> Entries(disk[inputs[t]])]
             ok == (\A f \in Range(inputs) : Loads(disk[f])) /\ Comparable(logs)
  <1>1. PerReplay /\ Files /\ Progress(p) /\ Options /\ pc[p] = "load"
    BY DEF Shape, Load
  <1>2. CASE ~ok
    <2>1. Fail(p) /\ UNCHANGED <<tree, disturbed, disk, setting, traces, path, ran, pending, report>>
      BY <1>2 DEF Load
    <2> QED
      BY <2>1, FailShape
  <1>3. CASE ok
    <2>1. /\ traces' = [traces EXCEPT ![p] = logs] /\ pc' = [pc EXCEPT ![p] = "choose"]
          /\ UNCHANGED <<exitCode, tree, disturbed, disk, setting, path, ran, pending, report>>
      BY <1>3 DEF Load, Goto
    <2>2. DOMAIN inputs = 1..Len(inputs) /\ Len(inputs) \in {1, 2}
          /\ \A t \in DOMAIN inputs : inputs[t] \in DOMAIN disk /\ inputs[t] \in Range(inputs)
      <3>1. \A t \in DOMAIN inputs : inputs[t] \in Range(inputs)
        BY DEF Range
      <3> QED
        BY <1>1, <3>1 DEF Options
    <2>3. \A t \in DOMAIN logs : IsLog(logs[t]) /\ logs[t] # <<>>
      <3> SUFFICES ASSUME NEW t \in DOMAIN inputs
                   PROVE  IsLog(Entries(disk[inputs[t]])) /\ Entries(disk[inputs[t]]) # <<>>
        OBVIOUS
      <3>1. PICK file : file = disk[inputs[t]]
        OBVIOUS
      <3>2. IsFile(file) /\ (\A i \in DOMAIN file : IsEntry(file[i].entry)) /\ Loads(file)
        BY <1>1, <1>3, <2>2, <3>1 DEF Files
      <3>3. IsLog(Entries(file)) /\ Len(Entries(file)) = Len(file)
        BY <3>2, EntriesFacts
      <3>4. Len(file) # 0
        BY <3>2, SeqFacts DEF Loads, IsFile
      <3>5. Entries(file) # <<>>
        BY <3>3, <3>4, SeqFacts DEF IsLog
      <3> QED
        BY <3>1, <3>3, <3>5
    <2>4. Comparable(logs)
      BY <1>3
    <2>5. logs = [t \in 1..Len(inputs) |-> logs[t]]
      BY <2>2
    <2>6. IsSeq(logs) /\ Len(logs) = Len(inputs)
      <3>1. Len(inputs) \in Nat
        BY <2>2
      <3> HIDE DEF logs
      <3> QED
        BY <2>5, <3>1, IsSeqOf
    <2> HIDE DEF logs, ok
    <2>7. IsInput(logs)
      BY <2>2, <2>3, <2>4, <2>6 DEF IsInput
    <2>8. OnlyAt(p) /\ PerReplay' /\ Files' /\ pc'[p] = "choose" /\ traces'[p] = logs
      BY <1>1, <2>1 DEF OnlyAt, PerReplay, Files
    <2>9. Progress(p)'
      BY <1>1, <2>1, <2>7, <2>8 DEF Progress, Running
    <2> QED
      BY <2>8, <2>9, StepShape
  <1> QED
    BY <1>2, <1>3

\* The file a replay chooses has one of the names.
LEMMA ChoosePathShape == ASSUME Shape, NEW p \in Replays, ChoosePath(p) PROVE Shape'
  <1>1. PerReplay /\ Files /\ Progress(p) /\ Options /\ pc[p] = "choose"
    BY DEF Shape, ChoosePath
  <1>2. CASE logFile = Unnamed /\ Free = {}
    <2>1. Fail(p) /\ UNCHANGED <<tree, disturbed, disk, setting, traces, path, ran, pending, report>>
      BY <1>2 DEF ChoosePath
    <2> QED
      BY <2>1, FailShape
  <1>3. CASE ~(logFile = Unnamed /\ Free = {})
    <2> DEFINE new == IF logFile # Unnamed THEN logFile
                      ELSE CHOOSE n \in Free : \A m \in Free : n <= m
    <2>1. /\ path' = [path EXCEPT ![p] = new] /\ pc' = [pc EXCEPT ![p] = "open"]
          /\ UNCHANGED <<exitCode, tree, disturbed, disk, setting, traces, ran, pending, report>>
      BY <1>3 DEF ChoosePath, Goto
    <2>2. new \in 1..MaxAttempts
      <3>1. CASE logFile # Unnamed
        BY <1>1, <3>1 DEF Options
      <3>2. CASE logFile = Unnamed
        <4>1. Free \in SUBSET Nat /\ Free # {} /\ Free \subseteq 1..MaxAttempts
          BY <1>3, <3>2 DEF Free
        <4>2. \E n \in Free : \A m \in Free : n <= m
          BY <4>1, LeastFree
        <4> QED
          BY <3>2, <4>1, <4>2
      <3> QED
        BY <3>1, <3>2
    <2> HIDE DEF new
    <2>3. OnlyAt(p) /\ PerReplay' /\ Files' /\ pc'[p] = "open" /\ path'[p] = new
      BY <1>1, <2>1 DEF OnlyAt, PerReplay, Files
    <2>4. Len(<<>>) = 0 /\ Len(traces[p][1]) \in Nat
      <3>1. IsInput(traces[p]) /\ 1 \in DOMAIN traces[p]
        BY <1>1, SeqFacts DEF Progress, IsInput
      <3> QED
        BY <3>1, SeqFacts DEF IsInput, IsLog
    <2>5. Progress(p)'
      BY <1>1, <2>1, <2>2, <2>3, <2>4 DEF Progress, Running, Template
    <2> QED
      BY <2>3, <2>5, StepShape
  <1> QED
    BY <1>2, <1>3

\* Opening leaves a file where there was none.
LEMMA OpenLogShape == ASSUME Shape, NEW p \in Replays, OpenLog(p) PROVE Shape'
  <1>1. PerReplay /\ Files /\ Progress(p) /\ Options /\ pc[p] = "open"
    BY DEF Shape, OpenLog
  <1>2. /\ disk' = [f \in DOMAIN disk \cup {path[p]} |-> IF f \in DOMAIN disk THEN disk[f] ELSE <<>>]
        /\ pc' = [pc EXCEPT ![p] = "run"]
        /\ UNCHANGED <<exitCode, tree, disturbed, setting, traces, path, ran, pending, report>>
    BY DEF OpenLog, Goto
  <1>3. path[p] \in 1..MaxAttempts
    BY <1>1 DEF Progress, Running
  <1>4. IsFile(<<>>) /\ DOMAIN <<>> = {} /\ Len(<<>>) = 0
    BY IsSeqOf DEF IsFile, IsSeq
  <1>5. DOMAIN disk' = DOMAIN disk \cup {path[p]} /\ path'[p] \in DOMAIN disk'
    BY <1>2
  <1>6. \A f \in DOMAIN disk' : disk'[f] = IF f \in DOMAIN disk THEN disk[f] ELSE <<>>
    BY <1>2, <1>5, Zenon
  <1>7. Files'
    BY <1>1, <1>3, <1>4, <1>5, <1>6 DEF Files
  <1>8. OnlyAt(p) /\ PerReplay' /\ pc'[p] = "run"
    BY <1>1, <1>2, <1>5 DEF OnlyAt, PerReplay
  <1>9. Len(traces[p][1]) \in Nat \ {0}
    <2>1. IsInput(traces[p]) /\ 1 \in DOMAIN traces[p]
      BY <1>1, SeqFacts DEF Progress, IsInput, Running
    <2> QED
      BY <2>1, SeqFacts DEF IsInput, IsLog
  <1>10. Progress(p)'
    BY <1>1, <1>2, <1>4, <1>5, <1>8, <1>9 DEF Progress, Running, Template
  <1> QED
    BY <1>7, <1>8, <1>10, StepShape

\* A command is run while there is one left, and its entry is like those recorded.
LEMMA RunEntryShape ==
  ASSUME Shape, NEW p \in Replays, NEW code \in ChildCodes, RunEntry(p, code) PROVE Shape'
  <1> DEFINE n == Len(ran[p])
             entry == ReplayEntry(Template(p)[n + 1], code)
  <1>1. PerReplay /\ Files /\ Progress(p) /\ Options /\ pc[p] = "run"
    BY DEF Shape, RunEntry
  <1>2. /\ ran' = [ran EXCEPT ![p] = Append(@, entry)]
        /\ Offer(p, entry)
        /\ IF (failOnError /\ entry.code # 0) \/ Len(ran'[p]) = Len(Template(p))
             THEN Goto(p, "close") ELSE UNCHANGED pc
        /\ UNCHANGED <<tree, disturbed, disk, setting, traces, path, report, exitCode>>
    BY DEF RunEntry
  <1>3. /\ IsLog(Template(p)) /\ Len(Template(p)) \in Nat /\ DOMAIN Template(p) = 1..Len(Template(p))
        /\ n \in Nat /\ n < Len(Template(p)) /\ IsSeq(ran[p]) /\ DOMAIN ran[p] = 1..n
    <2>1. IsInput(traces[p]) /\ 1 \in DOMAIN traces[p] /\ IsLog(ran[p])
      BY <1>1, SeqFacts DEF Progress, IsInput, Running
    <2> QED
      BY <1>1, <2>1, SeqFacts DEF IsInput, IsLog, Template, Progress
  <1>4. IsEntry(entry)
    <2>1. n + 1 \in DOMAIN Template(p)
      <3> HIDE DEF n
      <3> QED
        BY <1>3
    <2>2. IsEntry(Template(p)[n + 1]) /\ code \in Int
      BY <1>3, <2>1 DEF IsLog
    <2> QED
      BY <2>2, AgainCodes, EntryCodes DEF ReplayEntry, IsEntry
  <1> HIDE DEF entry
  <1>5. ran'[p] = Append(ran[p], entry) /\ \A q \in Replays \ {p} : ran'[q] = ran[q]
    BY <1>1, <1>2 DEF PerReplay
  <1>6. /\ IsSeq(ran'[p]) /\ Len(ran'[p]) = n + 1 /\ ran'[p] # <<>>
        /\ \A i \in 1..n : ran'[p][i] = ran[p][i]
        /\ ran'[p][n + 1] = entry
    BY <1>3, <1>5, AppendFacts
  <1>7. IsLog(ran'[p])
    <2>1. DOMAIN ran'[p] = 1..(n + 1)
      BY <1>6, SeqFacts
    <2>2. \A i \in 1..(n + 1) : i \in 1..n \/ i = n + 1
      BY <1>3
    <2>3. \A i \in 1..n : IsEntry(ran[p][i])
      BY <1>1, <1>3 DEF Progress, IsLog
    <2> QED
      BY <1>4, <1>6, <2>1, <2>2, <2>3 DEF IsLog
  <1>8. /\ IsLog(pending'[p]) /\ Len(pending'[p]) <= QueueSize + 1 /\ Len(pending'[p]) <= n + 1
        /\ \A q \in Replays \ {p} : pending'[q] = pending[q]
        /\ DOMAIN pending' = Replays
    <2>1. /\ IsLog(pending[p]) /\ IsSeq(pending[p]) /\ Len(pending[p]) \in Nat
          /\ Len(pending[p]) <= n /\ Len(pending[p]) <= QueueSize + 1 /\ DOMAIN pending[p] = 1..Len(pending[p])
      BY <1>1, SeqFacts DEF Progress, IsLog
    <2>2. CASE UNCHANGED pending
      BY <1>1, <1>3, <2>1, <2>2 DEF PerReplay
    <2>3. CASE Len(pending[p]) <= QueueSize /\ pending' = [pending EXCEPT ![p] = Append(@, entry)]
      <3>1. pending'[p] = Append(pending[p], entry) /\ DOMAIN pending' = Replays
            /\ \A q \in Replays \ {p} : pending'[q] = pending[q]
        BY <1>1, <2>3 DEF PerReplay
      <3>2. /\ IsSeq(pending'[p]) /\ Len(pending'[p]) = Len(pending[p]) + 1
            /\ \A i \in 1..Len(pending[p]) : pending'[p][i] = pending[p][i]
            /\ pending'[p][Len(pending[p]) + 1] = entry
        BY <2>1, <3>1, AppendFacts
      <3>3. DOMAIN pending'[p] = 1..(Len(pending[p]) + 1)
        BY <3>2, SeqFacts
      <3>4. \A i \in 1..(Len(pending[p]) + 1) : i \in 1..Len(pending[p]) \/ i = Len(pending[p]) + 1
        BY <2>1
      <3>5. IsLog(pending'[p])
        BY <1>4, <2>1, <3>2, <3>3, <3>4 DEF IsLog
      <3>6. Len(pending'[p]) <= QueueSize + 1 /\ Len(pending'[p]) <= n + 1
        BY <1>3, <2>1, <2>3, <3>2
      <3> QED
        BY <3>1, <3>5, <3>6
    <2> QED
      BY <1>2, <2>2, <2>3 DEF Offer
  <1>9. DOMAIN pc' = Replays /\ (\A q \in Replays \ {p} : pc'[q] = pc[q])
        /\ (pc'[p] = "close" \/ (pc'[p] = "run" /\ n + 1 # Len(Template(p))))
    BY <1>1, <1>2, <1>6 DEF Goto, PerReplay
  <1>10. OnlyAt(p) /\ PerReplay' /\ Files'
    BY <1>1, <1>2, <1>5, <1>8, <1>9 DEF OnlyAt, PerReplay, Files
  <1>11. Progress(p)'
    <2>1. Template(p)' = Template(p)
      BY <1>2 DEF Template
    <2>2. n + 1 <= Len(Template(p)) /\ (pc'[p] = "run" => n + 1 < Len(Template(p)))
      <3> HIDE DEF n
      <3>1. \A a, b \in Nat : a < b => a + 1 <= b /\ (a + 1 # b => a + 1 < b)
        OBVIOUS
      <3>2. n \in Nat /\ Len(Template(p)) \in Nat /\ n < Len(Template(p))
        BY <1>3
      <3>3. pc'[p] = "run" => n + 1 # Len(Template(p))
        BY <1>9
      <3> QED
        BY <3>1, <3>2, <3>3
    <2> HIDE DEF n
    <2>3. path'[p] = path[p] /\ DOMAIN disk' = DOMAIN disk /\ traces'[p] = traces[p] /\ exitCode'[p] = exitCode[p]
      BY <1>2
    <2> QED
      BY <1>1, <1>6, <1>7, <1>8, <1>9, <2>1, <2>2, <2>3 DEF Progress, Running
  <1> QED
    BY <1>10, <1>11, StepShape

\* What is written is the entry that was at the head of the queue, or a part of it.
LEMMA WorkerWrites ==
  ASSUME Shape, NEW p \in Replays, Worker(p)
  PROVE  /\ pc[p] \in Running \ {"open"} /\ path[p] \in DOMAIN disk /\ pending[p] # <<>>
         /\ pending'[p] = Tail(pending[p]) /\ \A q \in Replays \ {p} : pending'[q] = pending[q]
         /\ UNCHANGED <<pc, traces, path, ran, report>>
         /\ \E new : /\ Adds(new, disk[path[p]], Head(pending[p]), p)
                     /\ disk' = [disk EXCEPT ![path[p]] = new]
  <1>1. PerReplay /\ Files /\ Progress(p)
    BY DEF Shape
  <1>2. /\ pending[p] # <<>> /\ pc[p] # "failed"
        /\ pending' = [pending EXCEPT ![p] = Tail(@)]
        /\ UNCHANGED <<pc, traces, path, ran, report>>
    BY DEF Worker
  <1>3. pc[p] \in Running \ {"open"}
    <2>1. Len(pending[p]) \in Nat \ {0} /\ Len(pending[p]) <= Len(ran[p]) /\ Len(<<>>) = 0
      BY <1>1, <1>2, SeqFacts DEF Progress, IsLog
    <2>2. ran[p] # <<>>
      BY <2>1
    <2> QED
      BY <1>1, <1>2, <2>2 DEF Progress
  <1>4. path[p] \in DOMAIN disk
    BY <1>1, <1>3 DEF Progress
  <1>5. PICK f : f = path[p]
    OBVIOUS
  <1>6. PICK file : file = disk[f]
    OBVIOUS
  <1>7. PICK e : e = Head(pending[p])
    OBVIOUS
  <1>8. PICK new \in {file, WriteWhole(file, e, p)} \cup {WritePart(file, e, p, all) : all \in BOOLEAN} :
          disk' = [disk EXCEPT ![f] = new]
    <2>1. PICK left \in {disk[path[p]], WriteWhole(disk[path[p]], Head(pending[p]), p)}
                    \cup {WritePart(disk[path[p]], Head(pending[p]), p, all) : all \in BOOLEAN} :
            disk' = [disk EXCEPT ![path[p]] = left]
      BY Zenon DEF Worker
    <2>2. left \in {file, WriteWhole(file, e, p)} \cup {WritePart(file, e, p, all) : all \in BOOLEAN}
      BY <1>5, <1>6, <1>7, <2>1
    <2>3. disk' = [disk EXCEPT ![f] = left]
      BY <1>5, <2>1
    <2> QED
      BY <2>2, <2>3
  <1>9. IsFile(file)
    BY <1>1, <1>4, <1>5, <1>6 DEF Files
  <1>10. Adds(new, file, e, p)
    <2>1. CASE new = file
      BY <1>9, <2>1 DEF Adds
    <2> QED
      BY <1>8, <1>9, <2>1, WholeAdds, PartAdds
  <1> QED
    BY <1>1, <1>2, <1>3, <1>4, <1>5, <1>6, <1>7, <1>8, <1>10 DEF PerReplay

\* The worker takes the oldest entry and adds to a file what WriteFacts says.
LEMMA WorkerShape == ASSUME Shape, NEW p \in Replays, Worker(p) PROVE Shape'
  <1>1. PerReplay /\ Files /\ Progress(p) /\ Options
    BY DEF Shape
  <1>2. /\ pending[p] # <<>> /\ pending' = [pending EXCEPT ![p] = Tail(@)]
        /\ UNCHANGED <<tree, disturbed, setting, pc, traces, path, ran, report, exitCode>>
    BY DEF Worker
  <1>3. PICK f : f = path[p]
    OBVIOUS
  <1>4. PICK file : file = disk[f]
    OBVIOUS
  <1>5. PICK e : e = Head(pending[p])
    OBVIOUS
  <1>6. f \in DOMAIN disk /\ \E new : Adds(new, file, e, p) /\ disk' = [disk EXCEPT ![f] = new]
    BY <1>3, <1>4, <1>5, WorkerWrites
  <1>7. PICK new : Adds(new, file, e, p) /\ disk' = [disk EXCEPT ![f] = new]
    BY <1>6
  <1>8. /\ IsSeq(pending[p]) /\ IsLog(pending[p]) /\ IsSeq(Tail(pending[p]))
        /\ Len(Tail(pending[p])) = Len(pending[p]) - 1 /\ Len(pending[p]) \in Nat \ {0}
        /\ \A i \in 1..(Len(pending[p]) - 1) : Tail(pending[p])[i] = pending[p][i + 1]
        /\ e = pending[p][1] /\ DOMAIN pending[p] = 1..Len(pending[p])
    BY <1>1, <1>2, <1>5, TailFacts, SeqFacts DEF Progress, IsLog
  <1>9. IsEntry(e)
    BY <1>8 DEF IsLog
  <1>10. IsLog(Tail(pending[p]))
    <2>1. DOMAIN Tail(pending[p]) = 1..(Len(pending[p]) - 1)
      BY <1>8, SeqFacts
    <2>2. \A i \in 1..(Len(pending[p]) - 1) : i + 1 \in 1..Len(pending[p])
      BY <1>8
    <2> QED
      BY <1>8, <2>1, <2>2 DEF IsLog
  <1>11. IsFile(file) /\ \A i \in DOMAIN file : IsEntry(file[i].entry)
    BY <1>1, <1>4, <1>6 DEF Files
  <1>12. IsFile(new) /\ \A i \in DOMAIN new : IsEntry(new[i].entry)
    <2>1. \A i \in DOMAIN new : i \in DOMAIN file \/ new[i].entry = e
      BY <1>7, <1>11, AddsFacts
    <2> QED
      BY <1>9, <1>7, <1>11, <2>1 DEF Adds
  <1>13. DOMAIN disk' = DOMAIN disk /\ \A g \in DOMAIN disk : disk'[g] = new \/ disk'[g] = disk[g]
    BY <1>7
  <1>14. Files'
    BY <1>1, <1>12, <1>13 DEF Files
  <1>15. /\ pending'[p] = Tail(pending[p]) /\ DOMAIN pending' = Replays
         /\ \A q \in Replays \ {p} : pending'[q] = pending[q]
    BY <1>1, <1>2 DEF PerReplay
  <1>16. OnlyAt(p) /\ PerReplay'
    BY <1>1, <1>2, <1>13, <1>15 DEF OnlyAt, PerReplay
  <1>17. Len(pending'[p]) <= QueueSize + 1 /\ Len(pending'[p]) <= Len(ran[p])
    <2>1. Len(ran[p]) \in Nat
      BY <1>1, SeqFacts DEF Progress, IsLog
    <2> QED
      BY <1>1, <1>8, <1>15, <2>1 DEF Progress
  <1>18. Progress(p)'
    BY <1>1, <1>2, <1>10, <1>13, <1>15, <1>17 DEF Progress, Template
  <1> QED
    BY <1>14, <1>16, <1>18, StepShape

\* A replay that reads its file back has run a command, whose code it ends with.
LEMMA ReadBackShape == ASSUME Shape, NEW p \in Replays, ReadBack(p) PROVE Shape'
  <1>1. PerReplay /\ Files /\ Progress(p) /\ Options /\ pc[p] = "readBack"
    BY DEF Shape, ReadBack
  <1>2. CASE ~Loads(disk[path[p]])
    <2>1. Fail(p) /\ UNCHANGED <<tree, disturbed, disk, setting, traces, path, ran, pending, report>>
      BY <1>2 DEF ReadBack
    <2> QED
      BY <2>1, FailShape
  <1>3. CASE Loads(disk[path[p]])
    <2>1. /\ \E new : report' = [report EXCEPT ![p] = new]
          /\ exitCode' = [exitCode EXCEPT ![p] = Last(ran[p]).code]
          /\ pc' = [pc EXCEPT ![p] = "done"]
          /\ UNCHANGED <<tree, disturbed, disk, setting, traces, path, ran, pending>>
      BY <1>3 DEF ReadBack, Goto
    <2>2. Last(ran[p]).code \in Int
      <3>1. IsLog(ran[p]) /\ ran[p] # <<>>
        BY <1>1 DEF Progress
      <3>2. Len(ran[p]) \in DOMAIN ran[p]
        BY <3>1, SeqFacts DEF IsLog
      <3> QED
        BY <3>1, <3>2 DEF IsLog, IsEntry, IntCodes, Last
    <2>3. OnlyAt(p) /\ PerReplay' /\ Files' /\ pc'[p] = "done" /\ exitCode'[p] \in Int
      BY <1>1, <2>1, <2>2 DEF OnlyAt, PerReplay, Files
    <2>4. Progress(p)'
      BY <1>1, <2>1, <2>3 DEF Progress, Running, Template
    <2> QED
      BY <2>3, <2>4, StepShape
  <1> QED
    BY <1>2, <1>3

\* Every step keeps the shape.
LEMMA NextShape == Shape /\ [Next]_vars => Shape'
  <1> SUFFICES ASSUME Shape, [Next]_vars PROVE Shape'
    OBVIOUS
  <1>1. ASSUME NEW p \in Replays, OpenLogFails(p) \/ RunEntryFails(p) \/ CloseTimesOut(p) PROVE Shape'
    <2>1. Fail(p) /\ UNCHANGED <<tree, disturbed, disk, setting, traces, path, ran, pending, report>>
      BY <1>1 DEF OpenLogFails, RunEntryFails, CloseTimesOut
    <2> QED
      BY <2>1, FailShape
  <1>2. ASSUME NEW p \in Replays, CloseFlushed(p) PROVE Shape'
    <2>1. /\ pc[p] = "close" /\ pc' = [pc EXCEPT ![p] = "readBack"]
          /\ UNCHANGED <<tree, disturbed, disk, setting, traces, path, ran, pending, report, exitCode>>
      BY <1>2 DEF CloseFlushed, Goto
    <2>2. PerReplay /\ Files /\ Progress(p)
      BY DEF Shape
    <2>3. OnlyAt(p) /\ PerReplay' /\ Files' /\ pc'[p] = "readBack"
      BY <2>1, <2>2 DEF OnlyAt, PerReplay, Files
    <2>4. Progress(p)'
      BY <2>1, <2>2, <2>3 DEF Progress, Running, Template
    <2> QED
      BY <2>3, <2>4, StepShape
  <1>3. CASE TreeChanges
    BY <1>3 DEF TreeChanges, Shape, Options, Files, PerReplay, Progress, Template, setting
  <1>4. CASE UNCHANGED vars
    BY <1>4 DEF vars, Shape, Options, Files, PerReplay, Progress, Template, setting
  <1> QED
    BY <1>1, <1>2, <1>3, <1>4, LoadShape, ChoosePathShape, OpenLogShape, RunEntryShape,
       WorkerShape, ReadBackShape DEF Next

THEOREM ShapeInvariance == Spec => []Shape
  BY InitShape, NextShape, PTL DEF Spec

\* A replay is always at a step of its own, with a file it may use, an exit code, and
\* a logger that holds no more than its queue and the entry in the worker's hands.
THEOREM TypeIsCorrect == Spec => []TypeOK
  <1>1. Shape => TypeOK
    BY DEF Shape, Options, Files, Progress, Running, TypeOK
  <1> QED
    BY <1>1, ShapeInvariance, PTL

-----------------------------------------------------------------------------
\* What a recorded entry says of how its command was started.
StartedAs(e) ==
  /\ e.cmd.op \in BuiltinOps => "line" \notin DOMAIN e.cmd
  /\ e.mode = "direct" => e.via = "direct" /\ e.cmd.op \notin BuiltinOps
  /\ e.mode \notin {"direct", "replay"} => e.via = "line" /\ "line" \notin DOMAIN e.cmd

\* What it says of a builtin is what that does from the state it began in.
DoesAgain(e, fs) ==
  e.cmd.op \in BuiltinOps =>
    LET out == RunBuiltin(e.cmd, e.beforeCwd, e.beforeEnv, fs)
    IN  /\ e.cwd = out.cwd /\ e.env = out.env /\ e.code = out.code
        /\ e.stdout = IF e.cmd.op = "pwd" THEN e.beforeCwd ELSE <<>>

\* The recording and what was loaded of it are such entries, while the tree is as it
\* was when they were made; and what has been run of them is as they say.
Recorded(log) ==
  \A i \in DOMAIN log : StartedAs(log[i]) /\ (~disturbed => DoesAgain(log[i], tree))

Recording ==
  /\ \A i \in DOMAIN disk[0] :
       /\ StartedAs(disk[0][i].entry)
       /\ ~disturbed => DoesAgain(disk[0][i].entry, tree)
  /\ \A p \in Replays : pc[p] \in {"choose"} \cup Running => Recorded(Template(p))
  /\ ReplayedAsRecorded

\* A builtin that began with no environment does the same from the one it left: only
\* export makes one, and sets the same variable to the same value again.
EndsTheSame(cmd, cwd, env, fs) ==
  LET out   == RunBuiltin(cmd, cwd, env, fs)
      again == RunBuiltin(cmd, cwd, out.env, fs)
  IN  again.cwd = out.cwd /\ again.env = out.env /\ again.code = out.code

LEMMA BuiltinAgain ==
  ASSUME NEW cmd, cmd.op \in BuiltinOps, NEW cwd, NEW env, DOMAIN env = {}, NEW fs
  PROVE  EndsTheSame(cmd, cwd, env, fs)
  <1> USE DEF EndsTheSame
  <1> DEFINE Does(e) == RunBuiltin(cmd, cwd, e, fs)
  <1>1. CASE cmd.op = "pwd"
    <2>1. \A e : Does(e) = RunPwd(cwd, e)
      BY <1>1, Zenon DEF RunBuiltin
    <2> HIDE DEF Does
    <2> QED
      BY <2>1 DEF RunPwd, Outcome, Does
  <1>2. CASE cmd.op = "exit"
    <2>1. \A e : Does(e) = RunExit(cwd, e, cmd.code)
      BY <1>2 DEF RunBuiltin
    <2> HIDE DEF Does
    <2> QED
      BY <2>1 DEF RunExit, Outcome, Does
  <1>3. CASE cmd.op = "exitNotANumber"
    <2>1. \A e : Does(e) = RunExitNotANumber(cwd, e)
      BY <1>3 DEF RunBuiltin
    <2> HIDE DEF Does
    <2> QED
      BY <2>1 DEF RunExitNotANumber, Outcome, Does
  <1>4. CASE cmd.op = "cd"
    <2>1. \A e : Does(e) = RunCd(cwd, e, cmd.target, fs)
      BY <1>4 DEF RunBuiltin
    <2> HIDE DEF Does
    <2> QED
      BY <2>1 DEF RunCd, Outcome, Does
  <1>5. CASE cmd.op = "export"
    <2>1. \A e : Does(e) = RunExport(cwd, e, cmd.key, cmd.value)
      BY <1>5 DEF RunBuiltin
    <2> HIDE DEF Does
    <2>2. \A e : /\ Does(e).cwd = cwd /\ Does(e).code = 0
                 /\ Does(e).env = [k \in DOMAIN e \cup {cmd.key} |-> IF k = cmd.key THEN cmd.value ELSE e[k]]
      BY <2>1 DEF RunExport, Outcome
    <2>3. PICK one : one = [k \in {cmd.key} |-> cmd.value]
      OBVIOUS
    <2>4. ASSUME NEW e, DOMAIN e \subseteq {cmd.key} PROVE Does(e).env = one
      <3>1. DOMAIN e \cup {cmd.key} = {cmd.key}
        BY <2>4
      <3>2. Does(e).env = [k \in {cmd.key} |-> IF k = cmd.key THEN cmd.value ELSE e[k]]
        BY <2>2, <3>1
      <3> QED
        BY <2>3, <3>2
    <2>5. Does(env).env = one /\ DOMAIN one = {cmd.key}
      BY <2>3, <2>4
    <2>6. Does(one).env = one
      BY <2>4, <2>5
    <2> QED
      BY <2>2, <2>5, <2>6 DEF Does
  <1>6. CASE cmd.op = "unset"
    <2>1. \A e : Does(e) = RunUnset(cwd, e, cmd.key)
      BY <1>6 DEF RunBuiltin
    <2> HIDE DEF Does
    <2>2. \A e : /\ Does(e).cwd = cwd /\ Does(e).code = 0
                 /\ Does(e).env = [k \in DOMAIN e \ {cmd.key} |-> e[k]]
      BY <2>1 DEF RunUnset, Outcome
    <2>3. Does(env).env = [k \in {} |-> <<>>]
      BY <2>2
    <2>4. Does([k \in {} |-> <<>>]).env = [k \in {} |-> <<>>]
      BY <2>2
    <2> QED
      BY <2>2, <2>3, <2>4 DEF Does
  <1>7. CASE cmd.op = "malformed"
    <2>1. \A e : Does(e) = RunMalformed(cwd, e)
      BY <1>7 DEF RunBuiltin
    <2> HIDE DEF Does
    <2> QED
      BY <2>1 DEF RunMalformed, Outcome, Does
  <1> QED
    BY <1>1, <1>2, <1>3, <1>4, <1>5, <1>6, <1>7 DEF BuiltinOps

\* So an entry says the same when it is read back.
LEMMA DecodeRecorded ==
  ASSUME NEW e, IsEntry(e), StartedAs(e), NEW fs
  PROVE  StartedAs(Decode(e)) /\ (DoesAgain(e, fs) => DoesAgain(Decode(e), fs))
  <1> DEFINE d == Decode(e)
  <1>1. /\ d.cmd = e.cmd /\ d.via = e.via /\ d.mode = e.mode /\ d.beforeCwd = e.beforeCwd
        /\ d.cwd = e.cwd /\ d.env = e.env /\ d.code = e.code /\ d.stdout = e.stdout
        /\ d.beforeEnv = IF DOMAIN e.beforeEnv = {} THEN e.env ELSE e.beforeEnv
    BY DecodeFacts DEF IsEntry
  <1> HIDE DEF d
  <1>2. StartedAs(d)
    BY <1>1 DEF StartedAs
  <1>3. ASSUME DoesAgain(e, fs), e.cmd.op \in BuiltinOps PROVE DoesAgain(d, fs)
    <2>1. CASE DOMAIN e.beforeEnv # {}
      BY <1>1, <1>3, <2>1 DEF DoesAgain
    <2>2. CASE DOMAIN e.beforeEnv = {}
      <3> DEFINE out   == RunBuiltin(e.cmd, e.beforeCwd, e.beforeEnv, fs)
                 again == RunBuiltin(e.cmd, e.beforeCwd, out.env, fs)
      <3>1. again.cwd = out.cwd /\ again.env = out.env /\ again.code = out.code
        <4>1. EndsTheSame(e.cmd, e.beforeCwd, e.beforeEnv, fs)
          BY <1>3, <2>2, BuiltinAgain
        <4> QED
          BY <4>1 DEF EndsTheSame
      <3>2. e.env = out.env /\ e.cwd = out.cwd /\ e.code = out.code
            /\ e.stdout = IF e.cmd.op = "pwd" THEN e.beforeCwd ELSE <<>>
        BY <1>3 DEF DoesAgain
      <3>3. RunBuiltin(d.cmd, d.beforeCwd, d.beforeEnv, fs) = again
        BY <1>1, <2>2, <3>2
      <3> HIDE DEF out, again
      <3> QED
        BY <1>1, <3>1, <3>2, <3>3 DEF DoesAgain
    <2> QED
      BY <2>1, <2>2
  <1>4. e.cmd.op \notin BuiltinOps => DoesAgain(d, fs)
    BY <1>1 DEF DoesAgain
  <1> QED
    BY <1>2, <1>3, <1>4 DEF d

\* The entry of a recorded step says what it does.
LEMMA RecordableEntry ==
  ASSUME NEW step, Recordable(step), NEW cwd, NEW env, NEW fs
  PROVE  StartedAs(EntryOf(step, cwd, env, fs)) /\ DoesAgain(EntryOf(step, cwd, env, fs), fs)
  <1> DEFINE e == EntryOf(step, cwd, env, fs)
             out == Outcomes(step, cwd, env, fs)
  <1>1. /\ e.cmd = step.cmd /\ e.via = step.via /\ e.mode = step.mode /\ e.beforeCwd = cwd /\ e.beforeEnv = env
        /\ e.cwd = out.cwd /\ e.env = out.env /\ e.code = out.code
        /\ e.stdout = IF step.cmd.op = "pwd" THEN cwd ELSE <<>>
    BY DEF EntryOf
  <1>2. step.cmd.op \in BuiltinOps => out = RunBuiltin(step.cmd, cwd, env, fs)
    BY DEF Outcomes
  <1> HIDE DEF e, out
  <1>3. StartedAs(e)
    BY <1>1 DEF StartedAs, Recordable
  <1>4. DoesAgain(e, fs)
    BY <1>1, <1>2 DEF DoesAgain
  <1> QED
    BY <1>3, <1>4 DEF e

\* A recorded command is run again as it was started, and a builtin ends as it did.
LEMMA ReplayedEntry ==
  ASSUME NEW recorded, StartedAs(recorded), NEW code
  PROVE  LET entry == ReplayEntry(recorded, code)
         IN  /\ DoesAgain(recorded, tree) /\ recorded.cmd.op \in BuiltinOps =>
                  /\ SameOutput(entry, recorded)
                  /\ entry.cwd = recorded.cwd /\ entry.env = recorded.env
             /\ recorded.mode # "replay" => entry.cmd = recorded.cmd /\ entry.via = recorded.via
  <1> DEFINE step == Again(recorded, code)
             entry == ReplayEntry(recorded, code)
             out == Outcomes(step, recorded.beforeCwd, recorded.beforeEnv, tree)
  <1>1. /\ entry.cmd = step.cmd /\ entry.via = step.via
        /\ entry.cwd = out.cwd /\ entry.env = out.env /\ entry.code = out.code
        /\ entry.stdout = IF step.cmd.op = "pwd" THEN recorded.beforeCwd ELSE <<>>
    BY DEF ReplayEntry, EntryOf
  <1>2. recorded.cmd.op \in BuiltinOps => step.cmd = recorded.cmd
    BY DEF Again, StartedAs
  <1>3. step.cmd.op \in BuiltinOps =>
          out = RunBuiltin(step.cmd, recorded.beforeCwd, recorded.beforeEnv, tree)
    BY DEF Outcomes
  <1>4. recorded.mode = "direct" => step.cmd = recorded.cmd /\ step.via = recorded.via
    BY DEF Again, StartedAs
  <1>5. recorded.mode \notin {"direct", "replay"} => step.cmd = recorded.cmd /\ step.via = recorded.via
    BY DEF Again, StartedAs
  <1> HIDE DEF step, entry, out
  <1>6. recorded.mode # "replay" => entry.cmd = recorded.cmd /\ entry.via = recorded.via
    BY <1>1, <1>4, <1>5
  <1>7. ASSUME DoesAgain(recorded, tree), recorded.cmd.op \in BuiltinOps
        PROVE  /\ SameOutput(entry, recorded)
               /\ entry.cwd = recorded.cwd /\ entry.env = recorded.env
    BY <1>1, <1>2, <1>3, <1>7 DEF DoesAgain, SameOutput
  <1> QED
    BY <1>6, <1>7 DEF entry

\* At the start the tree is the one the recording was made in.
LEMMA InitRecording == Init => Recording
  <1> SUFFICES ASSUME Init PROVE Recording
    OBVIOUS
  <1>1. PICK steps \in Recordings : \E env \in StartEnvs :
          disk[0] = FileOf(RecordedLog(steps, env, tree), "session")
    BY DEF Init
  <1>2. PICK env \in StartEnvs : disk[0] = FileOf(RecordedLog(steps, env, tree), "session")
    BY <1>1
  <1>3. PICK log : log = RecordedLog(steps, env, tree)
    OBVIOUS
  <1>4. /\ IsLog(log)
        /\ \A i \in DOMAIN log : \E step, cwd, e : Recordable(step) /\ log[i] = EntryOf(step, cwd, e, tree)
    BY <1>3, RecordedLogFacts
  <1>5. \A i \in DOMAIN log : StartedAs(log[i]) /\ DoesAgain(log[i], tree)
    BY <1>4, RecordableEntry
  <1>6. DOMAIN disk[0] = DOMAIN log /\ \A i \in DOMAIN log : disk[0][i].entry = log[i]
    BY <1>2, <1>3, <1>4, FileOfFacts DEF IsLog, Line
  <1>7. \A p \in Replays : pc[p] = "load" /\ ran[p] = <<>>
    BY DEF Init
  <1>8. DOMAIN <<>> = {}
    OBVIOUS
  <1> QED
    BY <1>5, <1>6, <1>7, <1>8 DEF Recording, Running, ReplayedAsRecorded

\* No step changes the recording: a replay's own file is another.
LEMMA RecordingKept == Shape /\ [Next]_vars => disk'[0] = disk[0]
  <1> SUFFICES ASSUME Shape, [Next]_vars PROVE disk'[0] = disk[0]
    OBVIOUS
  <1>1. 0 \in DOMAIN disk
    BY DEF Shape, Files
  <1>2. ASSUME NEW p \in Replays, OpenLog(p) PROVE disk'[0] = disk[0]
    BY <1>1, <1>2 DEF OpenLog
  <1>3. ASSUME NEW p \in Replays, Worker(p) PROVE disk'[0] = disk[0]
    <2>1. pc[p] \in Running /\ \E new : disk' = [disk EXCEPT ![path[p]] = new]
      BY <1>3, WorkerWrites
    <2>2. path[p] \in 1..MaxAttempts
      BY <2>1 DEF Shape, Progress
    <2> QED
      BY <1>1, <2>1, <2>2
  <1>4. \/ UNCHANGED disk
        \/ \E p \in Replays : OpenLog(p) \/ Worker(p)
    BY DEF Next, vars, Load, ChoosePath, OpenLogFails, RunEntry, RunEntryFails, CloseFlushed,
           CloseTimesOut, ReadBack, TreeChanges
  <1> QED
    BY <1>2, <1>3, <1>4

\* A step that loads nothing and runs nothing changes nothing of it.
LEMMA MoveRecording ==
  ASSUME Shape, Recording, disk'[0] = disk[0], UNCHANGED <<tree, disturbed, traces, ran>>,
         NEW p \in Replays, NEW step,
         (step \in {"choose"} \cup Running) => (pc[p] \in {"choose"} \cup Running),
         pc' = pc \/ pc' = [pc EXCEPT ![p] = step]
  PROVE  Recording'
  <1>1. \A q \in Replays : pc'[q] \in {"choose"} \cup Running => pc[q] \in {"choose"} \cup Running
    BY DEF Shape, PerReplay
  <1> QED
    BY <1>1 DEF Recording, Recorded, ReplayedAsRecorded, Template, SameOutput

LEMMA NextRecording == Shape /\ Recording /\ [Next]_vars => Recording'
  <1> SUFFICES ASSUME Shape, Recording, [Next]_vars PROVE Recording'
    OBVIOUS
  <1>0. disk'[0] = disk[0]
    BY RecordingKept
  <1>1. ASSUME NEW p \in Replays, Load(p) PROVE Recording'
    <2> DEFINE logs == [t \in DOMAIN inputs |-> Entries(disk[inputs[t]])]
    <2>1. CASE Fail(p) /\ UNCHANGED traces
      <3>1. pc' = [pc EXCEPT ![p] = "failed"] /\ UNCHANGED <<tree, disturbed, traces, ran>>
        BY <1>1, <2>1 DEF Load, Fail, Goto
      <3> QED
        BY <1>0, <3>1, MoveRecording DEF Running
    <2>2. CASE traces' = [traces EXCEPT ![p] = logs] /\ Goto(p, "choose")
      <3>1. pc' = [pc EXCEPT ![p] = "choose"] /\ UNCHANGED <<tree, disturbed, ran>> /\ pc[p] = "load"
        BY <1>1, <2>2 DEF Load, Goto
      <3>2. 1 \in DOMAIN inputs /\ inputs[1] = 0
        BY DEF Shape, Options
      <3>3. Template(p)' = Entries(disk[0])
        <4>1. traces'[p] = logs
          BY <2>2 DEF Shape, PerReplay
        <4> QED
          BY <3>2, <4>1 DEF Template
      <3>4. IsFile(disk[0]) /\ \A i \in DOMAIN disk[0] : IsEntry(disk[0][i].entry)
        BY DEF Shape, Files
      <3>5. /\ DOMAIN Entries(disk[0]) = DOMAIN disk[0]
            /\ \A i \in DOMAIN disk[0] : Entries(disk[0])[i] = Decode(disk[0][i].entry)
        BY <3>4, EntriesFacts
      <3>6. Recorded(Entries(disk[0]))
        <4> SUFFICES ASSUME NEW i \in DOMAIN disk[0]
                     PROVE  /\ StartedAs(Entries(disk[0])[i])
                            /\ ~disturbed => DoesAgain(Entries(disk[0])[i], tree)
          BY <3>5 DEF Recorded
        <4>1. PICK e : e = disk[0][i].entry
          OBVIOUS
        <4>2. IsEntry(e) /\ StartedAs(e) /\ (~disturbed => DoesAgain(e, tree))
          BY <3>4, <4>1 DEF Recording
        <4>3. StartedAs(Decode(e)) /\ (DoesAgain(e, tree) => DoesAgain(Decode(e), tree))
          BY <4>2, DecodeRecorded
        <4> QED
          BY <3>5, <4>1, <4>2, <4>3
      <3>7. Recorded(Template(p))'
        BY <3>1, <3>3, <3>6 DEF Recorded
      <3>8. \A q \in Replays \ {p} : Template(q)' = Template(q) /\ pc'[q] = pc[q]
        BY <2>2, <3>1 DEF Shape, PerReplay, Template
      <3>9. \A q \in Replays : pc'[q] \in {"choose"} \cup Running => Recorded(Template(q))'
        BY <3>1, <3>7, <3>8 DEF Recording, Recorded
      <3>10. ran'[p] = <<>> /\ DOMAIN <<>> = {}
        BY <3>1 DEF Shape, Progress
      <3>11. ReplayedAsRecorded'
        BY <3>1, <3>8, <3>10 DEF Recording, ReplayedAsRecorded, SameOutput
      <3> QED
        BY <1>0, <3>1, <3>9, <3>11 DEF Recording
    <2> QED
      BY <1>1, <2>1, <2>2 DEF Load
  <1>2. ASSUME NEW p \in Replays, NEW code \in ChildCodes, RunEntry(p, code) PROVE Recording'
    <2> DEFINE n == Len(ran[p])
               recorded == Template(p)[n + 1]
               entry == ReplayEntry(recorded, code)
    <2>1. /\ pc[p] = "run" /\ ran' = [ran EXCEPT ![p] = Append(@, entry)]
          /\ UNCHANGED <<tree, disturbed, traces>>
          /\ pc' = pc \/ pc' = [pc EXCEPT ![p] = "close"]
      BY <1>2 DEF RunEntry, Goto
    <2>2. /\ IsSeq(ran[p]) /\ n \in Nat /\ n < Len(Template(p)) /\ Len(Template(p)) \in Nat
          /\ DOMAIN Template(p) = 1..Len(Template(p)) /\ DOMAIN ran[p] = 1..n
      <3>1. Progress(p)
        BY DEF Shape
      <3>2. IsInput(traces[p]) /\ 1 \in DOMAIN traces[p] /\ IsLog(ran[p])
        BY <2>1, <3>1, SeqFacts DEF Progress, IsInput, Running
      <3> QED
        BY <2>1, <3>1, <3>2, SeqFacts DEF IsInput, IsLog, Template, Progress
    <2>3. n + 1 \in DOMAIN Template(p)
      <3> HIDE DEF n
      <3> QED
        BY <2>2
    <2>4. StartedAs(recorded) /\ (~disturbed => DoesAgain(recorded, tree))
      BY <2>1, <2>3 DEF Recording, Recorded, Running
    <2>5. /\ ~disturbed /\ recorded.cmd.op \in BuiltinOps =>
               /\ SameOutput(entry, recorded)
               /\ entry.cwd = recorded.cwd /\ entry.env = recorded.env
          /\ recorded.mode # "replay" => entry.cmd = recorded.cmd /\ entry.via = recorded.via
      BY <2>4, ReplayedEntry
    <2> HIDE DEF entry
    <2>6. ran'[p] = Append(ran[p], entry) /\ \A q \in Replays \ {p} : ran'[q] = ran[q]
      BY <2>1 DEF Shape, PerReplay
    <2>7. /\ IsSeq(ran'[p]) /\ Len(ran'[p]) = n + 1
          /\ \A i \in 1..n : ran'[p][i] = ran[p][i]
          /\ ran'[p][n + 1] = entry
      BY <2>2, <2>6, AppendFacts
    <2>8. DOMAIN ran'[p] = 1..(n + 1)
      BY <2>7, SeqFacts
    <2>9. \A i \in DOMAIN ran'[p] : (i \in DOMAIN ran[p] /\ ran'[p][i] = ran[p][i]) \/ (i = n + 1 /\ ran'[p][i] = entry)
      <3> HIDE DEF n
      <3> QED
        BY <2>2, <2>7, <2>8
    <2>10. \A q \in Replays : Template(q)' = Template(q)
      BY <2>1 DEF Template
    <2>11. ASSUME NEW i \in DOMAIN ran'[p]
           PROVE  /\ ~disturbed /\ Template(p)[i].cmd.op \in BuiltinOps =>
                       /\ SameOutput(ran'[p][i], Template(p)[i])
                       /\ ran'[p][i].cwd = Template(p)[i].cwd /\ ran'[p][i].env = Template(p)[i].env
                  /\ Template(p)[i].mode # "replay" =>
                       ran'[p][i].cmd = Template(p)[i].cmd /\ ran'[p][i].via = Template(p)[i].via
      <3>1. CASE i \in DOMAIN ran[p] /\ ran'[p][i] = ran[p][i]
        BY <3>1 DEF Recording, ReplayedAsRecorded
      <3>2. CASE i = n + 1 /\ ran'[p][i] = entry
        BY <2>5, <3>2
      <3> QED
        BY <2>9, <3>1, <3>2
    <2>12. ReplayedAsRecorded'
      BY <2>1, <2>6, <2>10, <2>11 DEF Recording, ReplayedAsRecorded, SameOutput
    <2>13. \A q \in Replays : pc'[q] \in {"choose"} \cup Running => pc[q] \in {"choose"} \cup Running
      BY <2>1 DEF Shape, PerReplay, Running
    <2>14. \A q \in Replays : pc'[q] \in {"choose"} \cup Running => Recorded(Template(q))'
      BY <2>1, <2>10, <2>13 DEF Recording, Recorded
    <2> QED
      BY <1>0, <2>1, <2>12, <2>14 DEF Recording
  <1>3. CASE TreeChanges
    <2>1. disturbed' = TRUE /\ UNCHANGED <<pc, traces, ran>>
      BY <1>3 DEF TreeChanges
    <2>2. \A q \in Replays : Template(q)' = Template(q)
      BY <2>1 DEF Template
    <2> QED
      BY <1>0, <2>1, <2>2 DEF Recording, Recorded, ReplayedAsRecorded
  <1>4. CASE UNCHANGED vars
    BY <1>4 DEF vars, Recording, Recorded, ReplayedAsRecorded, Template, SameOutput
  <1>5. ASSUME NEW p \in Replays,
               \/ ChoosePath(p) \/ OpenLog(p) \/ OpenLogFails(p) \/ RunEntryFails(p)
               \/ Worker(p) \/ CloseFlushed(p) \/ CloseTimesOut(p) \/ ReadBack(p)
        PROVE  Recording'
    <2>1. UNCHANGED <<tree, disturbed, traces, ran>>
      BY <1>5 DEF ChoosePath, OpenLog, OpenLogFails, RunEntryFails, Worker, CloseFlushed, CloseTimesOut, ReadBack
    <2>2. \/ pc' = pc \/ pc' = [pc EXCEPT ![p] = "failed"]
          \/ pc[p] \in {"choose"} \cup Running /\ \E step : pc' = [pc EXCEPT ![p] = step]
      BY <1>5 DEF ChoosePath, OpenLog, OpenLogFails, RunEntryFails, Worker, CloseFlushed, CloseTimesOut,
                  ReadBack, Fail, Goto, Running
    <2> QED
      BY <1>0, <2>1, <2>2, MoveRecording DEF Running
  <1> QED
    BY <1>1, <1>2, <1>3, <1>4, <1>5 DEF Next

\* While the file system is as it was, a builtin that is replayed ends, prints and
\* leaves directory and environment as recorded, and a command is started again the
\* way it was, for any recordings, commands and number of replays.
THEOREM ReplaysAreAsRecorded == Spec => []ReplayedAsRecorded
  <1>1. Recording => ReplayedAsRecorded
    BY DEF Recording
  <1> QED
    BY <1>1, InitRecording, NextRecording, ShapeInvariance, PTL DEF Spec

-----------------------------------------------------------------------------
\* The lines of one writer, and then what it has yet to write, are entries of what it
\* ran, in the order it ran them: at and next say which.
Placed(file, writer, run, left, at, next) ==
  /\ \A i \in DOMAIN file : file[i].by = writer => at[i] \in DOMAIN run /\ file[i].entry = run[at[i]]
  /\ \A i, k \in DOMAIN file :
       file[i].by = writer /\ file[k].by = writer /\ i < k => at[i] < at[k]
  /\ \A j \in DOMAIN left : next[j] \in DOMAIN run /\ left[j] = run[next[j]]
  /\ \A j, k \in DOMAIN left : j < k => next[j] < next[k]
  /\ \A i \in DOMAIN file, j \in DOMAIN left : file[i].by = writer => at[i] < next[j]

InOrder(file, writer, run, left) == \E at, next : Placed(file, writer, run, left, at, next)

\* One more command was run, and its entry accepted or lost.
LEMMA RunKeepsOrder ==
  ASSUME NEW file, NEW writer, NEW run, NEW left, IsSeq(run), IsSeq(left),
         InOrder(file, writer, run, left),
         NEW e, NEW rest, rest = left \/ rest = Append(left, e)
  PROVE  InOrder(file, writer, Append(run, e), rest)
  <1>1. PICK at, next : Placed(file, writer, run, left, at, next)
    BY DEF InOrder
  <1>2. PICK more : more = Append(run, e)
    OBVIOUS
  <1>3. PICK n \in Nat : n = Len(run) /\ DOMAIN run = 1..n
    BY SeqFacts
  <1>4. DOMAIN more = 1..(n + 1) /\ more[n + 1] = e /\ \A i \in 1..n : more[i] = run[i]
    <2>1. /\ IsSeq(more) /\ Len(more) = n + 1 /\ more[n + 1] = e
          /\ \A i \in 1..n : more[i] = run[i]
      BY <1>2, <1>3, AppendFacts
    <2> QED
      BY <2>1, SeqFacts
  <1>5. /\ DOMAIN left \subseteq DOMAIN rest /\ DOMAIN rest \subseteq Nat
        /\ \A j \in DOMAIN left : rest[j] = left[j]
        /\ \A j \in DOMAIN rest \ DOMAIN left : rest[j] = e
        /\ \A j \in DOMAIN left, k \in DOMAIN rest \ DOMAIN left : j < k
        /\ \A j, k \in DOMAIN rest \ DOMAIN left : j = k
    <2>1. PICK m \in Nat : m = Len(left) /\ DOMAIN left = 1..m
      BY SeqFacts
    <2>2. CASE rest = left
      BY <2>1, <2>2
    <2>3. CASE rest = Append(left, e)
      <3>1. /\ IsSeq(rest) /\ Len(rest) = m + 1 /\ rest[m + 1] = e
            /\ \A i \in 1..m : rest[i] = left[i]
        BY <2>1, <2>3, AppendFacts
      <3>2. DOMAIN rest = 1..(m + 1)
        BY <3>1, SeqFacts
      <3>3. \A j \in DOMAIN rest \ DOMAIN left : j = m + 1
        BY <2>1, <3>2
      <3> QED
        BY <2>1, <3>1, <3>2, <3>3
    <2> QED
      BY <2>2, <2>3
  <1> DEFINE then == [j \in DOMAIN rest |-> IF j \in DOMAIN left THEN next[j] ELSE n + 1]
  <1>6. \A j \in DOMAIN rest : /\ j \in DOMAIN left => then[j] = next[j]
                               /\ j \notin DOMAIN left => then[j] = n + 1
    OBVIOUS
  <1> HIDE DEF then
  <1>7. \A i \in DOMAIN file : file[i].by = writer =>
          at[i] \in 1..n /\ at[i] \in DOMAIN more /\ file[i].entry = more[at[i]]
    BY <1>1, <1>3, <1>4 DEF Placed
  <1>8. \A j \in DOMAIN left : next[j] \in 1..n /\ next[j] \in DOMAIN more /\ left[j] = more[next[j]]
    BY <1>1, <1>3, <1>4 DEF Placed
  <1>9. \A j \in DOMAIN rest : then[j] \in DOMAIN more /\ rest[j] = more[then[j]]
    BY <1>4, <1>5, <1>6, <1>8
  <1>10. ASSUME NEW j \in DOMAIN rest, NEW k \in DOMAIN rest, j < k PROVE then[j] < then[k]
    <2>1. CASE k \in DOMAIN left
      <3>1. j \in DOMAIN left
        BY <1>5, <1>10, <2>1
      <3> QED
        BY <1>1, <1>6, <1>10, <2>1, <3>1 DEF Placed
    <2>2. CASE k \notin DOMAIN left
      <3>1. j \in DOMAIN left
        BY <1>5, <1>10, <2>2
      <3> QED
        BY <1>6, <1>8, <2>2, <3>1
    <2> QED
      BY <2>1, <2>2
  <1>11. ASSUME NEW i \in DOMAIN file, NEW j \in DOMAIN rest, file[i].by = writer PROVE at[i] < then[j]
    <2>1. CASE j \in DOMAIN left
      BY <1>1, <1>6, <1>11, <2>1 DEF Placed
    <2>2. CASE j \notin DOMAIN left
      BY <1>6, <1>7, <1>11, <2>2
    <2> QED
      BY <2>1, <2>2
  <1>12. Placed(file, writer, more, rest, at, then)
    BY <1>1, <1>7, <1>9, <1>10, <1>11 DEF Placed
  <1> QED
    BY <1>2, <1>12 DEF InOrder

\* A write, the writer's own of the first that is left, or anybody else's.
LEMMA WriteKeepsOrder ==
  ASSUME NEW file, NEW writer, NEW run, NEW left, IsFile(file), IsSeq(run), IsSeq(left),
         InOrder(file, writer, run, left),
         NEW new, NEW e, NEW by, Adds(new, file, e, by), NEW rest,
         \/ by # writer /\ rest = left
         \/ by = writer /\ left # <<>> /\ e = Head(left) /\ rest = Tail(left)
  PROVE  InOrder(new, writer, run, rest)
  <1>1. PICK at, next : Placed(file, writer, run, left, at, next)
    BY DEF InOrder
  <1>2. PICK n \in Nat : DOMAIN run = 1..n
    BY SeqFacts
  <1>3. PICK size \in Nat : size = Len(file) /\ DOMAIN file = 1..size
    BY SeqFacts DEF IsFile
  <1>4. DOMAIN new \subseteq Nat
    BY SeqFacts DEF IsFile, Adds
  <1>5. \A i \in DOMAIN new : \/ i \in DOMAIN file /\ new[i].entry = file[i].entry /\ new[i].by = file[i].by
                              \/ i = size + 1 /\ i \notin DOMAIN file /\ new[i].entry = e /\ new[i].by = by
    <2>1. ASSUME NEW i \in DOMAIN new
          PROVE  i \in DOMAIN file \/ (i = Len(file) + 1 /\ new[i].entry = e /\ new[i].by = by)
      BY <2>1, AddsFacts
    <2>2. size + 1 \notin DOMAIN file
      BY <1>3
    <2> QED
      BY <1>3, <2>1, <2>2 DEF Adds
  <1>6. CASE by # writer /\ rest = left
    <2>1. \A i \in DOMAIN new : new[i].by = writer =>
            i \in DOMAIN file /\ new[i].entry = file[i].entry /\ file[i].by = writer
      BY <1>5, <1>6
    <2>2. Placed(new, writer, run, left, at, next)
      BY <1>1, <2>1 DEF Placed
    <2> QED
      BY <1>6, <2>2 DEF InOrder
  <1>7. CASE by = writer /\ left # <<>> /\ e = Head(left) /\ rest = Tail(left)
    <2>1. PICK m \in Nat \ {0} : m = Len(left) /\ DOMAIN left = 1..m
      BY <1>7, SeqFacts, TailFacts
    <2>2. /\ IsSeq(rest) /\ Len(rest) = m - 1 /\ e = left[1]
          /\ \A j \in 1..(m - 1) : rest[j] = left[j + 1]
      BY <1>7, <2>1, TailFacts
    <2>3. DOMAIN rest = 1..(m - 1)
      BY <2>2, SeqFacts
    <2> DEFINE where == [i \in DOMAIN new |-> IF i \in DOMAIN file THEN at[i] ELSE next[1]]
               then == [j \in DOMAIN rest |-> next[j + 1]]
    <2>4. \A i \in DOMAIN new : /\ i \in DOMAIN file => where[i] = at[i]
                                /\ i \notin DOMAIN file => where[i] = next[1]
      OBVIOUS
    <2>5. \A j \in DOMAIN rest : then[j] = next[j + 1]
      OBVIOUS
    <2> HIDE DEF where, then
    <2>6. 1 \in DOMAIN left /\ \A j \in DOMAIN rest : j + 1 \in DOMAIN left /\ 1 < j + 1
      BY <2>1, <2>3
    <2>7. \A j \in DOMAIN left : next[j] \in 1..n
      BY <1>1, <1>2 DEF Placed
    <2>8. \A i \in DOMAIN file : file[i].by = writer => at[i] \in 1..n /\ at[i] < next[1]
      BY <1>1, <1>2, <2>6 DEF Placed
    <2>9. \A j \in DOMAIN rest : next[1] < next[j + 1]
      BY <1>1, <2>6 DEF Placed
    <2>10. \A i \in DOMAIN new : new[i].by = writer =>
             where[i] \in DOMAIN run /\ new[i].entry = run[where[i]] /\ where[i] <= next[1]
      <3> SUFFICES ASSUME NEW i \in DOMAIN new, new[i].by = writer
                   PROVE  where[i] \in DOMAIN run /\ new[i].entry = run[where[i]] /\ where[i] <= next[1]
        OBVIOUS
      <3>1. CASE i \in DOMAIN file /\ new[i].entry = file[i].entry /\ new[i].by = file[i].by
        <4>1. where[i] = at[i] /\ at[i] \in DOMAIN run /\ file[i].entry = run[at[i]]
          BY <1>1, <2>4, <3>1 DEF Placed
        <4>2. at[i] <= next[1]
          BY <2>6, <2>7, <2>8, <3>1
        <4> QED
          BY <3>1, <4>1, <4>2
      <3>2. CASE i = size + 1 /\ i \notin DOMAIN file /\ new[i].entry = e
        <4>1. where[i] = next[1] /\ next[1] \in DOMAIN run /\ left[1] = run[next[1]]
          BY <1>1, <2>4, <2>6, <3>2 DEF Placed
        <4>2. next[1] <= next[1]
          BY <2>6, <2>7
        <4> QED
          BY <2>2, <3>2, <4>1, <4>2
      <3> QED
        BY <1>5, <3>1, <3>2
    <2>11. ASSUME NEW i \in DOMAIN new, NEW k \in DOMAIN new, new[i].by = writer, new[k].by = writer, i < k
           PROVE  where[i] < where[k]
      <3>1. i \in DOMAIN file /\ file[i].by = writer
        <4>1. CASE i = size + 1
          <5>1. k = size + 1 \/ k \in 1..size
            BY <1>3, <1>5
          <5> QED
            BY <2>11, <4>1, <5>1
        <4> QED
          BY <1>5, <2>11, <4>1
      <3>2. CASE k \in DOMAIN file /\ new[k].by = file[k].by
        BY <1>1, <2>4, <2>11, <3>1, <3>2 DEF Placed
      <3>3. CASE k \notin DOMAIN file
        BY <2>4, <2>8, <3>1, <3>3
      <3> QED
        BY <1>5, <3>2, <3>3
    <2>12. \A j \in DOMAIN rest : then[j] \in DOMAIN run /\ rest[j] = run[then[j]]
      BY <1>1, <2>2, <2>3, <2>5, <2>6 DEF Placed
    <2>13. ASSUME NEW j \in DOMAIN rest, NEW k \in DOMAIN rest, j < k PROVE then[j] < then[k]
      <3>1. j + 1 < k + 1
        BY <2>3, <2>13
      <3> QED
        BY <1>1, <2>5, <2>6, <3>1 DEF Placed
    <2>14. ASSUME NEW i \in DOMAIN new, NEW j \in DOMAIN rest, new[i].by = writer PROVE where[i] < then[j]
      <3>1. where[i] \in 1..n /\ where[i] <= next[1]
        BY <1>2, <2>10, <2>14
      <3>2. next[1] < then[j] /\ next[1] \in 1..n /\ then[j] \in 1..n
        BY <2>5, <2>6, <2>7, <2>9
      <3> QED
        BY <3>1, <3>2
    <2>15. Placed(new, writer, run, rest, where, then)
      BY <2>10, <2>11, <2>12, <2>13, <2>14 DEF Placed
    <2> QED
      BY <2>15 DEF InOrder
  <1> QED
    BY <1>6, <1>7

\* Numbers that rise, as many as there are to rise through, are all of them.
LEMMA Rising ==
  ASSUME NEW n \in Nat, NEW m \in Nat, m <= n, NEW at, \A i \in 1..n : at[i] \in 1..m,
         \A i, k \in 1..n : i < k => at[i] < at[k]
  PROVE  \A i \in 1..n : at[i] = i
  <1>1. \A i \in 1..n : at[i] >= i
    <2> DEFINE behind == {i \in 1..n : at[i] < i}
    <2> SUFFICES ASSUME behind # {} PROVE FALSE
      OBVIOUS
    <2>0. behind \in SUBSET Nat
      OBVIOUS
    <2>1. PICK i \in behind : \A j \in behind : i <= j
      <3> HIDE DEF behind
      <3> QED
        BY <2>0, LeastFree
    <2>2. i \in 1..n /\ at[i] < i /\ at[i] \in 1..m
      OBVIOUS
    <2>3. i - 1 \in 1..n /\ i - 1 < i
      BY <2>2
    <2>4. i - 1 \notin behind /\ at[i - 1] \in 1..m
      BY <2>1, <2>3
    <2>5. at[i - 1] >= i - 1 /\ at[i - 1] < at[i]
      BY <2>2, <2>3, <2>4
    <2> HIDE DEF behind
    <2> QED
      BY <2>2, <2>3, <2>4, <2>5
  <1>2. \A i \in 1..n : at[i] <= i
    <2> DEFINE ahead == {d \in 0..(n - 1) : at[n - d] > n - d}
    <2>1. ahead = {}
      <3> SUFFICES ASSUME ahead # {} PROVE FALSE
        OBVIOUS
      <3>0. ahead \in SUBSET Nat
        OBVIOUS
      <3>1. PICK d \in ahead : \A c \in ahead : d <= c
        <4> HIDE DEF ahead
        <4> QED
          BY <3>0, LeastFree
      <3>2. d \in 0..(n - 1) /\ at[n - d] > n - d /\ n - d \in 1..n
        OBVIOUS
      <3>3. at[n - d] \in 1..m
        BY <3>2
      <3>4. d # 0
        BY <3>2, <3>3
      <3>5. d - 1 \in 0..(n - 1) /\ n - (d - 1) \in 1..n /\ n - d < n - (d - 1) /\ n - (d - 1) = n - d + 1
        BY <3>2, <3>4
      <3>6. at[n - d] < at[n - (d - 1)] /\ at[n - (d - 1)] \in 1..m
        BY <3>2, <3>5
      <3>7. at[n - (d - 1)] > n - (d - 1)
        BY <3>2, <3>3, <3>5, <3>6
      <3>8. d - 1 \in ahead
        BY <3>5, <3>7
      <3> HIDE DEF ahead
      <3> QED
        BY <3>1, <3>2, <3>8
    <2> SUFFICES ASSUME NEW i \in 1..n PROVE at[i] <= i
      OBVIOUS
    <2>2. n - i \in 0..(n - 1) /\ n - (n - i) = i
      OBVIOUS
    <2>3. ~(at[n - (n - i)] > n - (n - i))
      BY <2>1, <2>2
    <2>4. at[i] \in 1..m
      OBVIOUS
    <2> HIDE DEF ahead
    <2> QED
      BY <2>2, <2>3, <2>4
  <1> SUFFICES ASSUME NEW i \in 1..n PROVE at[i] = i
    OBVIOUS
  <1>3. at[i] \in 1..m /\ at[i] >= i /\ at[i] <= i
    BY <1>1, <1>2
  <1> QED
    BY <1>3

\* A file whose first lines are one writer's, as many as it was to run, says what ran.
LEMMA WholeLog ==
  ASSUME NEW file, NEW writer, NEW run, NEW left, IsSeq(run), InOrder(file, writer, run, left),
         NEW n \in Nat, Len(run) <= n, 1..n \subseteq DOMAIN file,
         \A i \in 1..n : file[i].by = writer
  PROVE  \A i \in 1..n : i \in DOMAIN run /\ file[i].entry = run[i]
  <1>1. PICK at, next : Placed(file, writer, run, left, at, next)
    BY DEF InOrder
  <1>2. PICK m \in Nat : m = Len(run) /\ DOMAIN run = 1..m
    BY SeqFacts
  <1>3. \A i \in 1..n : at[i] \in 1..m /\ file[i].entry = run[at[i]]
    BY <1>1, <1>2 DEF Placed
  <1>6. m <= n /\ \A i \in 1..n : at[i] \in 1..m
    BY <1>2, <1>3
  <1>4. \A i, k \in 1..n : i < k => at[i] < at[k]
    BY <1>1 DEF Placed
  <1>5. \A i \in 1..n : at[i] = i
    BY <1>4, <1>6, Rising
  <1> QED
    BY <1>2, <1>3, <1>5

-----------------------------------------------------------------------------
\* The comparison that p printed is of what it had loaded and of the first k lines of
\* its file.
Compared(p, k) ==
  report[p] = Comparison(Append(traces[p], [i \in 1..k |-> Decode(disk[path[p]][i].entry)]))

\* Comparison tells as many commands as there are lines, and differences where there are.
LEMMA ComparisonFacts ==
  ASSUME NEW logs, IsInput(logs), NEW own, IsSeq(own), Len(own) = Len(logs[1])
  PROVE  Comparison(Append(logs, own)).match <=>
           /\ \A t \in DOMAIN logs : \A i \in DOMAIN logs[1] : SameOutput(logs[1][i], logs[t][i])
           /\ \A i \in DOMAIN logs[1] : SameOutput(logs[1][i], own[i])
  <1>1. PICK all : all = Append(logs, own)
    OBVIOUS
  <1>2. PICK n \in Nat : n = Len(logs) /\ DOMAIN logs = 1..n /\ n >= 1
    BY SeqFacts DEF IsInput
  <1>3. /\ Len(all) = n + 1 /\ all[n + 1] = own
        /\ \A t \in 1..n : all[t] = logs[t]
    BY <1>1, <1>2, AppendFacts DEF IsInput
  <1>4. \A t \in 1..n : Len(logs[t]) = Len(logs[1]) /\ IsSeq(logs[t])
    BY <1>2 DEF IsInput, Comparable, IsLog
  <1>5. PICK m \in Nat : m = Len(logs[1]) /\ DOMAIN logs[1] = 1..m
    BY <1>2, <1>4, SeqFacts
  <1>6. \A t \in 1..(n + 1) : Len(all[t]) = m
    BY <1>2, <1>3, <1>4, <1>5
  <1>7. Comparison(all).match <=> Differences(all) = {}
    BY DEF Comparison
  <1>8. all[1] = logs[1]
    BY <1>2, <1>3
  <1>9. Differences(all) = {} <=> \A t \in 2..(n + 1), i \in 1..m : SameOutput(logs[1][i], all[t][i])
    <2>1. ASSUME NEW t \in 2..(n + 1), NEW i \in 1..m
          PROVE  <<t, i>> \in Differences(all) <=> ~SameOutput(logs[1][i], all[t][i])
      BY <1>3, <1>5, <1>6, <1>8 DEF Differences
    <2>2. \A at \in Differences(all) : \E t \in 2..(n + 1), i \in 1..m : at = <<t, i>>
      BY <1>3, <1>5, <1>8 DEF Differences
    <2>3. ASSUME Differences(all) = {}, NEW t \in 2..(n + 1), NEW i \in 1..m
          PROVE  SameOutput(logs[1][i], all[t][i])
      BY <2>1, <2>3
    <2>4. ASSUME \A t \in 2..(n + 1), i \in 1..m : SameOutput(logs[1][i], all[t][i]), Differences(all) # {}
          PROVE  FALSE
      <3>1. PICK at : at \in Differences(all)
        BY <2>4
      <3>2. PICK t \in 2..(n + 1) : \E i \in 1..m : at = <<t, i>>
        BY <2>2, <3>1
      <3>3. PICK i \in 1..m : at = <<t, i>>
        BY <3>2
      <3> QED
        BY <2>1, <2>4, <3>1, <3>3
    <2> QED
      BY <2>3, <2>4
  <1>10. \A i \in 1..m : SameOutput(logs[1][i], logs[1][i])
    BY DEF SameOutput
  <1>11. (\A t \in 2..(n + 1), i \in 1..m : SameOutput(logs[1][i], all[t][i])) <=>
           /\ \A t \in 1..n : \A i \in 1..m : SameOutput(logs[1][i], logs[t][i])
           /\ \A i \in 1..m : SameOutput(logs[1][i], own[i])
    <2>1. \A t \in 1..(n + 1) : t = 1 \/ t \in 2..(n + 1)
      OBVIOUS
    <2>2. \A t \in 2..(n + 1) : t \in 1..n \/ t = n + 1
      OBVIOUS
    <2>3. n + 1 \in 2..(n + 1)
      BY <1>2
    <2>4. \A t \in 1..n : t \in 1..(n + 1)
      OBVIOUS
    <2> HIDE DEF SameOutput
    <2> QED
      BY <1>3, <1>10, <2>1, <2>2, <2>3, <2>4
  <1> QED
    BY <1>1, <1>2, <1>5, <1>7, <1>9, <1>11

\* Who has written where: nobody before its log is open, and only into its own file.
Authored ==
  \A f \in DOMAIN disk : \A i \in DOMAIN disk[f] : \A p \in Replays :
    disk[f][i].by = p => pc[p] \notin {"load", "choose", "open"} /\ path[p] = f

\* What a replay wrote and has yet to write is what it ran, in order. Nothing is left
\* when its logger is closed, and the report is of what its file then began with.
Tracked(p) ==
  /\ pc[p] \in Running \ {"open"} => InOrder(disk[path[p]], p, ran[p], pending[p])
  /\ pc[p] \in {"readBack", "done"} => pending[p] = <<>>
  /\ pc[p] = "done" => \E k \in Nat : 1..k \subseteq DOMAIN disk[path[p]] /\ Compared(p, k)

Accounted == Authored /\ \A p \in Replays : Tracked(p)

\* A command whose own lines are as many as the first run has says what ran.
LEMMA TrueReport == Shape /\ Accounted => ReportIsTrue
  <1> SUFFICES ASSUME Shape, Accounted, NEW p \in Replays, ReadOwnWholeLog(p)
               PROVE  report[p].match <=>
                        \A log \in Range(traces[p]) \cup {ran[p]} :
                          \A i \in DOMAIN Template(p) : SameOutput(Template(p)[i], log[i])
    BY DEF ReportIsTrue
  <1>1. /\ pc[p] = "done" /\ Last(report[p].commands) = Len(Template(p))
        /\ \A i \in 1..Len(Template(p)) : disk[path[p]][i].by = p
    BY DEF ReadOwnWholeLog
  <1>2. Progress(p) /\ Tracked(p) /\ Files
    BY DEF Shape, Accounted
  <1>3. PICK k \in Nat : 1..k \subseteq DOMAIN disk[path[p]] /\ Compared(p, k)
    BY <1>1, <1>2 DEF Tracked
  <1>4. PICK logs : logs = traces[p]
    OBVIOUS
  <1>5. IsInput(logs) /\ Len(ran[p]) <= Len(logs[1]) /\ IsSeq(ran[p])
    BY <1>1, <1>2, <1>4 DEF Progress, Running, Template, IsLog
  <1>6. PICK own : own = [i \in 1..k |-> Decode(disk[path[p]][i].entry)]
    OBVIOUS
  <1>7. IsSeq(own) /\ Len(own) = k /\ \A i \in 1..k : own[i] = Decode(disk[path[p]][i].entry)
    <2>1. own = [i \in 1..k |-> own[i]]
      BY <1>6
    <2> QED
      BY <1>6, <2>1, IsSeqOf
  <1>8. report[p] = Comparison(Append(logs, own))
    BY <1>3, <1>4, <1>6 DEF Compared
  <1>9. Last(report[p].commands) = k
    <2>1. PICK all : all = Append(logs, own)
      OBVIOUS
    <2>2. IsSeq(all) /\ Len(logs) \in Nat /\ Len(all) = Len(logs) + 1 /\ all[Len(logs) + 1] = own
      BY <1>5, <2>1, AppendFacts, SeqFacts DEF IsInput
    <2>3. PICK commands : commands = [t \in DOMAIN all |-> Len(all[t])]
      OBVIOUS
    <2>4. report[p].commands = commands
      BY <1>8, <2>1, <2>3 DEF Comparison
    <2>5. DOMAIN all = 1..Len(all) /\ Len(all) \in Nat
      BY <2>2, SeqFacts
    <2>6. Len(commands) = Len(all)
      <3>1. commands = [t \in 1..Len(all) |-> commands[t]]
        BY <2>3, <2>5
      <3> QED
        BY <2>5, <3>1, IsSeqOf
    <2>7. commands[Len(all)] = k
      <3>1. Len(all) \in DOMAIN all
        BY <2>2, <2>5
      <3> QED
        BY <1>7, <2>2, <2>3, <3>1
    <2> QED
      BY <2>4, <2>6, <2>7 DEF Last
  <1>10. Len(logs[1]) = k
    BY <1>1, <1>4, <1>9 DEF Template
  <1>11. \A i \in 1..k : i \in DOMAIN ran[p] /\ disk[path[p]][i].entry = ran[p][i]
    <2>1. InOrder(disk[path[p]], p, ran[p], pending[p])
      BY <1>1, <1>2 DEF Tracked, Running
    <2>2. \A i \in 1..k : disk[path[p]][i].by = p
      BY <1>1, <1>4, <1>10 DEF Template
    <2> QED
      BY <1>3, <1>5, <1>10, <2>1, <2>2, WholeLog
  <1>12. \A i \in 1..k : own[i].code = ran[p][i].code /\ own[i].stdout = ran[p][i].stdout
    <2> SUFFICES ASSUME NEW i \in 1..k PROVE own[i].code = ran[p][i].code /\ own[i].stdout = ran[p][i].stdout
      OBVIOUS
    <2>1. PICK e : e = ran[p][i]
      OBVIOUS
    <2>2. IsEntry(e) /\ own[i] = Decode(e)
      BY <1>2, <1>7, <1>11, <2>1 DEF Progress, IsLog
    <2>3. Decode(e).code = e.code /\ Decode(e).stdout = e.stdout
      <3>1. "code" \in DOMAIN e \ {"beforeEnv"} /\ "stdout" \in DOMAIN e \ {"beforeEnv"}
        BY <2>2 DEF IsEntry
      <3>2. \A field \in DOMAIN e \ {"beforeEnv"} : Decode(e)[field] = e[field]
        BY <2>2, DecodeFacts
      <3> QED
        BY <3>1, <3>2
    <2> QED
      BY <2>1, <2>2, <2>3
  <1>13. DOMAIN logs[1] = 1..k
    <2>1. 1 \in DOMAIN logs
      BY <1>5, SeqFacts DEF IsInput
    <2> QED
      BY <1>5, <1>10, <2>1, SeqFacts DEF IsInput, IsLog
  <1>14. report[p].match <=>
           /\ \A t \in DOMAIN logs : \A i \in DOMAIN logs[1] : SameOutput(logs[1][i], logs[t][i])
           /\ \A i \in DOMAIN logs[1] : SameOutput(logs[1][i], own[i])
    BY <1>5, <1>7, <1>8, <1>10, ComparisonFacts
  <1>15. \A i \in 1..k : SameOutput(logs[1][i], own[i]) <=> SameOutput(logs[1][i], ran[p][i])
    BY <1>12 DEF SameOutput
  <1>16. \A log : log \in Range(logs) <=> \E t \in DOMAIN logs : log = logs[t]
    BY DEF Range
  <1> QED
    BY <1>4, <1>13, <1>14, <1>15, <1>16 DEF Template

\* At the start the lines are the session's and an earlier replay's.
LEMMA InitAccounted == Init => Accounted
  <1> SUFFICES ASSUME Init PROVE Accounted
    OBVIOUS
  <1>1. PICK steps \in Recordings : \E env \in StartEnvs :
          LET log == RecordedLog(steps, env, tree)
          IN  \/ disk = [f \in {0} |-> FileOf(log, "session")]
              \/ \E file \in EarlierFiles(log) :
                   disk = [f \in {0, 1} |-> IF f = 0 THEN FileOf(log, "session") ELSE file]
    BY DEF Init
  <1>2. PICK env \in StartEnvs :
          LET log == RecordedLog(steps, env, tree)
          IN  \/ disk = [f \in {0} |-> FileOf(log, "session")]
              \/ \E file \in EarlierFiles(log) :
                   disk = [f \in {0, 1} |-> IF f = 0 THEN FileOf(log, "session") ELSE file]
    BY <1>1
  <1> DEFINE log == RecordedLog(steps, env, tree)
  <1>3. IsLog(log) /\ log # <<>>
    BY RecordedLogFacts
  <1>4. \A i \in DOMAIN FileOf(log, "session") : FileOf(log, "session")[i].by = "session"
    BY <1>3, FileOfFacts DEF Line
  <1> HIDE DEF log
  <1>5. \A f \in DOMAIN disk : disk[f] = FileOf(log, "session") \/ disk[f] \in EarlierFiles(log)
    BY <1>2 DEF log
  <1>6. ASSUME NEW f \in DOMAIN disk, NEW i \in DOMAIN disk[f] PROVE disk[f][i].by \in {"session", "earlier"}
    BY <1>3, <1>4, <1>5, <1>6, EarlierFileFacts
  <1>7. \A p \in Replays : pc[p] = "load"
    BY DEF Init
  <1> QED
    BY <1>6, <1>7, ReplaysAssumption DEF Accounted, Authored, Tracked, Running

\* A step of p that writes nothing leaves the others' as it was.
LEMMA MoveAccounted ==
  ASSUME Shape, Accounted, NEW p \in Replays, UNCHANGED disk,
         \A q \in Replays \ {p} :
           /\ pc'[q] = pc[q] /\ traces'[q] = traces[q] /\ path'[q] = path[q]
           /\ ran'[q] = ran[q] /\ pending'[q] = pending[q] /\ report'[q] = report[q],
         \/ pc[p] \in {"load", "choose", "open"}
         \/ pc'[p] \notin {"load", "choose", "open"} /\ path'[p] = path[p],
         Tracked(p)'
  PROVE  Accounted'
  <1>1. ASSUME NEW q \in Replays \ {p} PROVE Tracked(q)'
    <2>1. Tracked(q)
      BY DEF Accounted
    <2>2. /\ UNCHANGED <<disk, pc[q], traces[q], path[q], ran[q], pending[q], report[q]>>
      BY <1>1
    <2> QED
      BY <2>1, <2>2 DEF Tracked, Compared
  <1>2. Authored'
    BY DEF Accounted, Authored
  <1> QED
    BY <1>1, <1>2 DEF Accounted

\* A write keeps the order of everybody, and the lines that were there.
LEMMA WorkerAccounted == ASSUME Shape, Accounted, NEW p \in Replays, Worker(p) PROVE Accounted'
  <1>1. /\ pc[p] \in Running \ {"open"} /\ path[p] \in DOMAIN disk /\ pending[p] # <<>>
        /\ pending'[p] = Tail(pending[p]) /\ \A q \in Replays \ {p} : pending'[q] = pending[q]
        /\ UNCHANGED <<pc, traces, path, ran, report>>
    BY WorkerWrites
  <1>2. PICK new : /\ Adds(new, disk[path[p]], Head(pending[p]), p)
                   /\ disk' = [disk EXCEPT ![path[p]] = new]
    BY WorkerWrites
  <1>3. PICK e : e = Head(pending[p])
    OBVIOUS
  <1>4. /\ DOMAIN disk' = DOMAIN disk /\ disk'[path[p]] = new
        /\ \A f \in DOMAIN disk \ {path[p]} : disk'[f] = disk[f]
    BY <1>1, <1>2
  <1>5. IsFile(disk[path[p]]) /\ Adds(new, disk[path[p]], e, p)
    BY <1>1, <1>2, <1>3 DEF Shape, Files
  <1>6. \A i \in DOMAIN new : \/ i \in DOMAIN disk[path[p]] /\ new[i].by = disk[path[p]][i].by
                              \/ new[i].by = p
    <2>1. ASSUME NEW i \in DOMAIN new
          PROVE  \/ i \in DOMAIN disk[path[p]]
                 \/ i = Len(disk[path[p]]) + 1 /\ new[i].entry = e /\ new[i].by = p
      BY <1>5, <2>1, AddsFacts
    <2> QED
      BY <1>5, <2>1 DEF Adds
  <1>7. Authored'
    <2> SUFFICES ASSUME NEW f \in DOMAIN disk, NEW i \in DOMAIN disk'[f], NEW q \in Replays, disk'[f][i].by = q
                 PROVE  pc[q] \notin {"load", "choose", "open"} /\ path[q] = f
      BY <1>1, <1>4 DEF Authored
    <2>1. Authored
      BY DEF Accounted
    <2>2. CASE f # path[p]
      BY <1>4, <2>1, <2>2 DEF Authored
    <2>3. CASE f = path[p]
      BY <1>1, <1>4, <1>6, <2>1, <2>3 DEF Authored, Running
    <2> QED
      BY <2>2, <2>3
  <1>8. ASSUME NEW q \in Replays PROVE Tracked(q)'
    <2>1. Tracked(q) /\ Progress(q)
      BY DEF Accounted, Shape
    <2>2. \A k \in Nat : path[q] \in DOMAIN disk /\ 1..k \subseteq DOMAIN disk[path[q]] =>
            /\ 1..k \subseteq DOMAIN disk'[path[q]]
            /\ \A i \in 1..k : disk'[path[q]][i].entry = disk[path[q]][i].entry
      <3>1. CASE path[q] # path[p]
        BY <1>4, <3>1
      <3>2. CASE path[q] = path[p]
        BY <1>4, <1>5, <3>2 DEF Adds
      <3> QED
        BY <3>1, <3>2
    <2>3. ASSUME pc[q] = "done"
          PROVE  \E k \in Nat : 1..k \subseteq DOMAIN disk'[path[q]] /\ Compared(q, k)'
      <3>1. PICK k \in Nat : 1..k \subseteq DOMAIN disk[path[q]] /\ Compared(q, k)
        BY <2>1, <2>3 DEF Tracked
      <3>2. path[q] \in DOMAIN disk
        BY <2>1, <2>3 DEF Progress, Running
      <3>3. /\ 1..k \subseteq DOMAIN disk'[path[q]]
            /\ \A i \in 1..k : disk'[path[q]][i].entry = disk[path[q]][i].entry
        BY <2>2, <3>1, <3>2
      <3>4. [i \in 1..k |-> Decode(disk'[path[q]][i].entry)] = [i \in 1..k |-> Decode(disk[path[q]][i].entry)]
        BY <3>3
      <3>5. Compared(q, k)'
        BY <1>1, <3>1, <3>4 DEF Compared
      <3> QED
        BY <3>3, <3>5
    <2>4. ASSUME pc[q] \in {"readBack", "done"} PROVE pending'[q] = <<>>
      <3>1. pending[q] = <<>>
        BY <2>1, <2>4 DEF Tracked
      <3> QED
        BY <1>1, <3>1
    <2>5. ASSUME pc[q] \in Running \ {"open"} PROVE InOrder(disk'[path[q]], q, ran[q], pending'[q])
      <3>1. InOrder(disk[path[q]], q, ran[q], pending[q]) /\ IsSeq(ran[q]) /\ IsSeq(pending[q])
        BY <2>1, <2>5 DEF Tracked, Progress, IsLog
      <3>2. path[q] \in DOMAIN disk
        BY <2>1, <2>5 DEF Progress
      <3>3. CASE path[q] # path[p]
        <4>1. q # p /\ disk'[path[q]] = disk[path[q]]
          BY <1>4, <3>2, <3>3
        <4> QED
          BY <1>1, <3>1, <4>1
      <3>4. CASE path[q] = path[p] /\ q # p
        <4>1. pending'[q] = pending[q]
          BY <1>1, <3>4
        <4>2. InOrder(new, q, ran[q], pending[q])
          BY <1>5, <3>1, <3>4, WriteKeepsOrder
        <4> QED
          BY <1>4, <3>4, <4>1, <4>2
      <3>5. CASE q = p
        <4>1. InOrder(new, p, ran[p], pending'[p])
          BY <1>1, <1>3, <1>5, <3>1, <3>5, WriteKeepsOrder
        <4> QED
          BY <1>4, <3>5, <4>1
      <3> QED
        BY <3>3, <3>4, <3>5
    <2> QED
      BY <1>1, <2>3, <2>4, <2>5 DEF Tracked
  <1> QED
    BY <1>7, <1>8 DEF Accounted

LEMMA RunEntryAccounted ==
  ASSUME Shape, Accounted, NEW p \in Replays, NEW code \in ChildCodes, RunEntry(p, code)
  PROVE  Accounted'
  <1>1. PICK e : e = ReplayEntry(Template(p)[Len(ran[p]) + 1], code)
    OBVIOUS
  <1>2. PerReplay /\ Progress(p) /\ Tracked(p)
    BY DEF Shape, Accounted
  <1>3. /\ pc[p] = "run" /\ ran' = [ran EXCEPT ![p] = Append(@, e)]
        /\ pending' = pending \/ pending' = [pending EXCEPT ![p] = Append(@, e)]
        /\ pc' = pc \/ pc' = [pc EXCEPT ![p] = "close"]
        /\ UNCHANGED <<disk, traces, path, report>>
    BY <1>1 DEF RunEntry, Offer, Goto
  <1>4. /\ ran'[p] = Append(ran[p], e) /\ \A q \in Replays \ {p} : ran'[q] = ran[q]
        /\ pending'[p] = pending[p] \/ pending'[p] = Append(pending[p], e)
        /\ \A q \in Replays \ {p} : pending'[q] = pending[q] /\ pc'[q] = pc[q]
        /\ pc'[p] \in {"run", "close"}
    BY <1>2, <1>3 DEF PerReplay
  <1>5. InOrder(disk[path[p]], p, ran[p], pending[p]) /\ IsSeq(ran[p]) /\ IsSeq(pending[p])
    BY <1>2, <1>3 DEF Tracked, Running, Progress, IsLog
  <1>6. PICK rest : rest = pending'[p]
    OBVIOUS
  <1>7. InOrder(disk[path[p]], p, Append(ran[p], e), rest)
    BY <1>4, <1>5, <1>6, RunKeepsOrder
  <1>8. InOrder(disk[path[p]], p, ran'[p], pending'[p])
    BY <1>4, <1>6, <1>7
  <1>9. Tracked(p)'
    BY <1>3, <1>4, <1>8 DEF Tracked
  <1> QED
    BY <1>3, <1>4, <1>9, MoveAccounted

\* p has nothing in a file that it has just opened.
LEMMA OpenLogAccounted == ASSUME Shape, Accounted, NEW p \in Replays, OpenLog(p) PROVE Accounted'
  <1>1. PerReplay /\ Progress(p) /\ pc[p] = "open" /\ Authored
    BY DEF Shape, Accounted, OpenLog
  <1>2. /\ disk' = [f \in DOMAIN disk \cup {path[p]} |-> IF f \in DOMAIN disk THEN disk[f] ELSE <<>>]
        /\ pc' = [pc EXCEPT ![p] = "run"]
        /\ UNCHANGED <<traces, path, ran, pending, report>>
    BY DEF OpenLog, Goto
  <1>3. DOMAIN disk' = DOMAIN disk \cup {path[p]} /\ DOMAIN <<>> = {}
    BY <1>2
  <1>4. \A f \in DOMAIN disk' : disk'[f] = IF f \in DOMAIN disk THEN disk[f] ELSE <<>>
    BY <1>2, <1>3, Zenon
  <1>5. pc'[p] = "run" /\ \A q \in Replays \ {p} : pc'[q] = pc[q]
    BY <1>1, <1>2 DEF PerReplay
  <1>6. Authored'
    BY <1>1, <1>2, <1>3, <1>4, <1>5 DEF Authored
  <1>7. ASSUME NEW q \in Replays \ {p} PROVE Tracked(q)'
    <2>1. Tracked(q) /\ Progress(q)
      BY DEF Accounted, Shape
    <2>2. UNCHANGED <<pc[q], traces[q], path[q], ran[q], pending[q], report[q]>>
      BY <1>2, <1>5
    <2>3. CASE pc[q] \in Running \ {"open"}
      <3>1. disk'[path[q]] = disk[path[q]]
        BY <1>3, <1>4, <2>1, <2>3 DEF Progress
      <3> QED
        BY <2>1, <2>2, <3>1 DEF Tracked, Compared
    <2>4. CASE pc[q] \notin Running \ {"open"}
      BY <2>2, <2>4 DEF Tracked, Running
    <2> QED
      BY <2>3, <2>4
  <1>8. Tracked(p)'
    <2>1. ran'[p] = <<>> /\ pending'[p] = <<>>
      <3>1. /\ ran[p] = <<>> /\ IsLog(pending[p]) /\ Len(pending[p]) <= Len(ran[p]) /\ Len(<<>>) = 0
        BY <1>1 DEF Progress
      <3>2. pending[p] = <<>>
        BY <3>1, SeqFacts DEF IsLog
      <3> QED
        BY <1>2, <3>1, <3>2
    <2>2. \A i \in DOMAIN disk'[path[p]] : disk'[path[p]][i].by # p
      BY <1>1, <1>3, <1>4 DEF Authored
    <2>3. Placed(disk'[path[p]], p, <<>>, <<>>, <<>>, <<>>)
      BY <1>3, <2>2 DEF Placed
    <2>4. InOrder(disk'[path[p]], p, <<>>, <<>>)
      BY <2>3 DEF InOrder
    <2> QED
      BY <1>2, <1>5, <2>1, <2>4 DEF Tracked
  <1> QED
    BY <1>6, <1>7, <1>8 DEF Accounted

\* What is read back is what the report is of.
LEMMA ReadBackAccounted == ASSUME Shape, Accounted, NEW p \in Replays, ReadBack(p) PROVE Accounted'
  <1>1. PerReplay /\ Files /\ Progress(p) /\ Tracked(p) /\ pc[p] = "readBack"
    BY DEF Shape, Accounted, ReadBack
  <1>2. CASE ~Loads(disk[path[p]])
    <2>1. pc' = [pc EXCEPT ![p] = "failed"] /\ UNCHANGED <<disk, traces, path, ran, pending, report>>
      BY <1>2 DEF ReadBack, Fail, Goto
    <2>2. pc'[p] = "failed" /\ \A q \in Replays \ {p} : pc'[q] = pc[q]
      BY <1>1, <2>1 DEF PerReplay
    <2>3. Tracked(p)'
      BY <2>2 DEF Tracked, Running
    <2> QED
      BY <2>1, <2>2, <2>3, MoveAccounted
  <1>3. CASE Loads(disk[path[p]])
    <2>1. /\ pc' = [pc EXCEPT ![p] = "done"] /\ UNCHANGED <<disk, traces, path, ran, pending>>
          /\ report' = [report EXCEPT ![p] = Comparison(Append(traces[p], Entries(disk[path[p]])))]
      BY <1>3 DEF ReadBack, Goto
    <2>2. /\ pc'[p] = "done" /\ report'[p] = Comparison(Append(traces[p], Entries(disk[path[p]])))
          /\ \A q \in Replays \ {p} : pc'[q] = pc[q] /\ report'[q] = report[q]
      BY <1>1, <2>1 DEF PerReplay
    <2>3. path[p] \in DOMAIN disk
      BY <1>1 DEF Progress, Running
    <2>4. PICK k \in Nat : DOMAIN disk[path[p]] = 1..k
      BY <1>1, <2>3, SeqFacts DEF Files, IsFile
    <2>5. Compared(p, k)'
      BY <2>1, <2>2, <2>4 DEF Compared, Entries
    <2>6. InOrder(disk[path[p]], p, ran[p], pending[p]) /\ pending[p] = <<>>
      BY <1>1 DEF Tracked, Running
    <2>7. Tracked(p)'
      BY <2>1, <2>4, <2>5, <2>6 DEF Tracked
    <2> QED
      BY <1>1, <2>1, <2>2, <2>7, MoveAccounted
  <1> QED
    BY <1>2, <1>3

LEMMA NextAccounted == Shape /\ Accounted /\ [Next]_vars => Accounted'
  <1> SUFFICES ASSUME Shape, Accounted, [Next]_vars PROVE Accounted'
    OBVIOUS
  <1>0. PerReplay
    BY DEF Shape
  <1>1. ASSUME NEW p \in Replays, Load(p) \/ ChoosePath(p) \/ OpenLogFails(p) PROVE Accounted'
    <2>1. /\ pc[p] \in {"load", "choose", "open"}
          /\ \E step \in {"choose", "open", "failed"} : pc' = [pc EXCEPT ![p] = step]
          /\ traces' = traces \/ \E logs : traces' = [traces EXCEPT ![p] = logs]
          /\ path' = path \/ \E f : path' = [path EXCEPT ![p] = f]
          /\ UNCHANGED <<disk, ran, pending, report>>
      BY <1>1 DEF Load, ChoosePath, OpenLogFails, Fail, Goto
    <2>2. /\ pc'[p] \in {"choose", "open", "failed"}
          /\ \A q \in Replays \ {p} : pc'[q] = pc[q] /\ traces'[q] = traces[q] /\ path'[q] = path[q]
      BY <1>0, <2>1 DEF PerReplay
    <2>3. Tracked(p)'
      BY <2>2 DEF Tracked, Running
    <2> QED
      BY <2>1, <2>2, <2>3, MoveAccounted
  <1>2. ASSUME NEW p \in Replays, RunEntryFails(p) \/ CloseTimesOut(p) PROVE Accounted'
    <2>1. /\ pc' = [pc EXCEPT ![p] = "failed"]
          /\ UNCHANGED <<disk, traces, path, ran, pending, report>>
      BY <1>2 DEF RunEntryFails, CloseTimesOut, Fail, Goto
    <2>2. pc'[p] = "failed" /\ \A q \in Replays \ {p} : pc'[q] = pc[q]
      BY <1>0, <2>1 DEF PerReplay
    <2>3. Tracked(p)'
      BY <2>2 DEF Tracked, Running
    <2> QED
      BY <2>1, <2>2, <2>3, MoveAccounted
  <1>3. ASSUME NEW p \in Replays, CloseFlushed(p) PROVE Accounted'
    <2>1. /\ pc[p] = "close" /\ pending[p] = <<>> /\ pc' = [pc EXCEPT ![p] = "readBack"]
          /\ UNCHANGED <<disk, traces, path, ran, pending, report>>
      BY <1>3 DEF CloseFlushed, Goto
    <2>2. pc'[p] = "readBack" /\ \A q \in Replays \ {p} : pc'[q] = pc[q]
      BY <1>0, <2>1 DEF PerReplay
    <2>3. InOrder(disk[path[p]], p, ran[p], pending[p])
      BY <2>1 DEF Accounted, Tracked, Running
    <2>4. Tracked(p)'
      BY <2>1, <2>2, <2>3 DEF Tracked
    <2> QED
      BY <2>1, <2>2, <2>4, MoveAccounted
  <1>4. CASE TreeChanges
    BY <1>4 DEF TreeChanges, Accounted, Authored, Tracked, Compared
  <1>5. CASE UNCHANGED vars
    BY <1>5 DEF vars, Accounted, Authored, Tracked, Compared
  <1> QED
    BY <1>1, <1>2, <1>3, <1>4, <1>5, OpenLogAccounted, RunEntryAccounted, WorkerAccounted,
       ReadBackAccounted DEF Next

\* A comparison that says as many commands ran as in the first log, over a file that
\* is the replay's own, reports a match exactly if every command of every run ended
\* and printed as recorded: for any recordings, queue, options and number of replays,
\* whatever was lost, cut off or appended by others.
THEOREM ReportsAreTrue == Spec => []ReportIsTrue
  <1>1. Spec => []Accounted
    BY InitAccounted, NextAccounted, ShapeInvariance, PTL DEF Spec
  <1> QED
    BY <1>1, TrueReport, ShapeInvariance, PTL

-----------------------------------------------------------------------------
\* A replay that has a file of its own has one that was not there at the start, and
\* only such a replay has entries to write.
OwnFiles ==
  /\ earlier \subseteq DOMAIN disk /\ logFile \in LogFiles
  /\ pc \in [Replays -> {"load", "choose", "failed"} \cup Running]
  /\ DOMAIN path = Replays /\ path = [p \in Replays |-> path[p]]
  /\ DOMAIN pending = Replays /\ pending = [p \in Replays |-> pending[p]]
  /\ \A p \in Replays :
       /\ logFile = Unnamed /\ pc[p] \in Running => path[p] \notin earlier
       /\ pending[p] # <<>> => pc[p] \in {"run", "close", "failed"}

\* What a step of a replay does to the logs that were there.
Kept == logFile = Unnamed => \A f \in earlier : disk'[f] = disk[f]

-----------------------------------------------------------------------------
\* The initial state satisfies the invariant.
LEMMA InitOwnFiles == Init => OwnFiles
  BY DEF Init, OwnFiles, Running

\* A step that only moves a replay on, with nothing offered and no file touched.
LEMMA MoveOwnFiles ==
  ASSUME OwnFiles, NEW p \in Replays, NEW step \in {"failed"} \cup Running, Goto(p, step),
         UNCHANGED <<disk, setting, path, pending>>,
         step \in Running => pc[p] \in Running,
         pending[p] # <<>> => step \in {"run", "close", "failed"}
  PROVE  OwnFiles' /\ Kept
  BY DEF OwnFiles, Kept, Goto, Running, setting

\* The file a replay names is one that is not there.
LEMMA ChoosePathOwnFiles ==
  ASSUME OwnFiles, NEW p \in Replays, ChoosePath(p) PROVE OwnFiles' /\ Kept
  <1>1. pc[p] = "choose" /\ UNCHANGED <<disk, setting, pending>>
    BY DEF ChoosePath
  <1>2. CASE logFile = Unnamed /\ Free = {}
    <2>1. Goto(p, "failed") /\ UNCHANGED path
      BY <1>2 DEF ChoosePath, Fail
    <2>2. "failed" \notin Running /\ "failed" \in {"run", "close", "failed"}
      BY DEF Running
    <2> QED
      BY <1>1, <2>1, <2>2, MoveOwnFiles
  <1>3. CASE ~(logFile = Unnamed /\ Free = {})
    <2> DEFINE new == IF logFile # Unnamed THEN logFile
                      ELSE CHOOSE n \in Free : \A m \in Free : n <= m
    <2>1. path' = [path EXCEPT ![p] = new] /\ pc' = [pc EXCEPT ![p] = "open"]
      BY <1>3 DEF ChoosePath, Goto
    <2>2. logFile = Unnamed => new \in Free
      <3> SUFFICES ASSUME logFile = Unnamed PROVE (CHOOSE n \in Free : \A m \in Free : n <= m) \in Free
        OBVIOUS
      <3>1. Free \in SUBSET Nat /\ Free # {}
        BY <1>3 DEF Free
      <3>2. \E n \in Free : \A m \in Free : n <= m
        BY <3>1, LeastFree
      <3> QED
        BY <3>2
    <2>3. logFile = Unnamed => new \notin earlier
      BY <2>2 DEF OwnFiles, Free
    <2> HIDE DEF new
    <2>4. /\ \A q \in Replays \ {p} : path'[q] = path[q] /\ pc'[q] = pc[q]
          /\ path'[p] = new /\ pc'[p] = "open"
          /\ DOMAIN path' = Replays /\ path' = [q \in Replays |-> path'[q]]
          /\ pc' \in [Replays -> {"load", "choose", "failed"} \cup Running]
      BY <2>1 DEF OwnFiles, Running
    <2>5. pending[p] = <<>>
      BY <1>1 DEF OwnFiles
    <2> QED
      BY <1>1, <2>3, <2>4, <2>5 DEF OwnFiles, Kept, setting
  <1> QED
    BY <1>2, <1>3

\* Opening creates a file or changes none.
LEMMA OpenLogOwnFiles ==
  ASSUME OwnFiles, NEW p \in Replays, OpenLog(p) PROVE OwnFiles' /\ Kept
  <1>1. /\ DOMAIN disk \subseteq DOMAIN disk'
        /\ \A f \in DOMAIN disk : disk'[f] = disk[f]
    BY DEF OpenLog
  <1>2. /\ UNCHANGED <<setting, path, pending>> /\ pc[p] = "open" /\ pc' = [pc EXCEPT ![p] = "run"]
    BY DEF OpenLog, Goto
  <1> QED
    BY <1>1, <1>2 DEF OwnFiles, Kept, Running, setting

\* An entry is offered, and no file touched.
LEMMA RunEntryOwnFiles ==
  ASSUME OwnFiles, NEW p \in Replays, NEW code, RunEntry(p, code) PROVE OwnFiles' /\ Kept
  <1>1. /\ UNCHANGED <<disk, setting, path>> /\ pc[p] = "run"
        /\ pc' = [pc EXCEPT ![p] = "close"] \/ pc' = pc
        /\ pending' = pending \/ \E queue : pending' = [pending EXCEPT ![p] = queue]
    BY DEF RunEntry, Offer, Goto
  <1> QED
    BY <1>1 DEF OwnFiles, Kept, Running, setting

\* The worker writes to the replay's own file.
LEMMA WorkerOwnFiles ==
  ASSUME OwnFiles, NEW p \in Replays, Worker(p) PROVE OwnFiles' /\ Kept
  <1>1. /\ pending[p] # <<>> /\ pc[p] # "failed"
        /\ UNCHANGED <<setting, path, pc>>
        /\ pending' = [pending EXCEPT ![p] = Tail(@)]
        /\ \E left : disk' = [disk EXCEPT ![path[p]] = left]
    BY DEF Worker
  <1>2. pc[p] \in Running
    BY <1>1 DEF OwnFiles, Running
  <1>3. logFile = Unnamed => path[p] \notin earlier
    BY <1>2 DEF OwnFiles
  <1>4. DOMAIN disk' = DOMAIN disk /\ \A f \in DOMAIN disk : f # path[p] => disk'[f] = disk[f]
    BY <1>1
  <1>5. Kept
    BY <1>3, <1>4 DEF Kept, OwnFiles
  <1>6. OwnFiles'
    BY <1>1, <1>4 DEF OwnFiles, setting
  <1> QED
    BY <1>5, <1>6

\* Every step keeps the invariant, and the logs that were there.
LEMMA NextOwnFiles == OwnFiles /\ [Next]_vars => OwnFiles' /\ (Kept \/ UNCHANGED vars)
  <1> SUFFICES ASSUME OwnFiles, [Next]_vars PROVE OwnFiles' /\ (Kept \/ UNCHANGED vars)
    OBVIOUS
  <1>1. ASSUME NEW p \in Replays, Load(p) PROVE OwnFiles' /\ Kept
    <2>1. /\ UNCHANGED <<disk, setting, path, pending>> /\ pc[p] = "load"
          /\ pc' = [pc EXCEPT ![p] = "choose"] \/ pc' = [pc EXCEPT ![p] = "failed"]
      BY <1>1 DEF Load, Fail, Goto
    <2> QED
      BY <2>1 DEF OwnFiles, Kept, Running, setting
  <1>2. ASSUME NEW p \in Replays, OpenLogFails(p) \/ RunEntryFails(p) \/ CloseTimesOut(p)
        PROVE  OwnFiles' /\ Kept
    <2>1. Goto(p, "failed") /\ UNCHANGED <<disk, setting, path, pending>>
      BY <1>2 DEF OpenLogFails, RunEntryFails, CloseTimesOut, Fail
    <2> QED
      BY <2>1, MoveOwnFiles DEF Running
  <1>3. ASSUME NEW p \in Replays, CloseFlushed(p) PROVE OwnFiles' /\ Kept
    <2>1. /\ Goto(p, "readBack") /\ UNCHANGED <<disk, setting, path, pending>>
          /\ pc[p] = "close" /\ pending[p] = <<>>
      BY <1>3 DEF CloseFlushed
    <2> QED
      BY <2>1, MoveOwnFiles DEF Running
  <1>4. ASSUME NEW p \in Replays, ReadBack(p) PROVE OwnFiles' /\ Kept
    <2>1. /\ pc[p] = "readBack" /\ UNCHANGED <<disk, setting, path, pending>>
          /\ Goto(p, "done") \/ Goto(p, "failed")
      BY <1>4 DEF ReadBack, Fail
    <2>2. pending[p] = <<>>
      BY <2>1 DEF OwnFiles
    <2> QED
      BY <2>1, <2>2, MoveOwnFiles DEF Running
  <1>5. CASE TreeChanges
    BY <1>5 DEF TreeChanges, OwnFiles, Kept, setting
  <1>6. CASE UNCHANGED vars
    BY <1>6 DEF vars, OwnFiles, setting
  <1> QED
    BY <1>1, <1>2, <1>3, <1>4, <1>5, <1>6, ChoosePathOwnFiles, OpenLogOwnFiles,
       RunEntryOwnFiles, WorkerOwnFiles DEF Next

\* A replay never changes a log that was there before it, whatever other replays
\* do and wherever one of them fails.
THEOREM EarlierLogsAreKept == Spec => EarlierLogsKept
  <1>1. OwnFiles /\ [Next]_vars => [Kept]_vars
    BY NextOwnFiles
  <1>2. OwnFiles /\ [Next]_vars => OwnFiles'
    BY NextOwnFiles
  <1> QED
    BY <1>1, <1>2, InitOwnFiles, PTL DEF Spec, EarlierLogsKept, Kept
=============================================================================
