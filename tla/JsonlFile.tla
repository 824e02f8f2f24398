------------------------------ MODULE JsonlFile ------------------------------
(***************************************************************************)
(* A log file as fileSink (sinks.go) leaves it and loadReplayTrace         *)
(* (replay.go) finds it: a sequence of lines. A line holds the entry its   *)
(* first writer put there, whether what is on it is that entry and nothing *)
(* else (whole), whether a newline ends it (ended), and who wrote it (by,  *)
(* for properties only). An entry has a directory and an environment       *)
(* before and after its command. Those psh writes pass the tests of        *)
(* decodeReplayEntry, except that the environment can be empty, and so can *)
(* the name of a program that was started directly (nameless).             *)
(***************************************************************************)
EXTENDS Integers, SequencesExt

Line(entry, writer) == [entry |-> entry, by |-> writer, whole |-> TRUE, ended |-> TRUE]

\* Bytes appended to a file continue its last line if no newline ended it. The
\* file is open with O_APPEND: what another process appended is not overwritten.
AddLine(file, line) ==
  IF file = <<>> \/ Last(file).ended THEN Append(file, line)
  ELSE [file EXCEPT ![Len(file)] = [@ EXCEPT !.whole = FALSE, !.ended = line.ended]]

\* fileSink.Write takes the whole payload, an entry and its newline.
WriteWhole(file, entry, writer) == AddLine(file, Line(entry, writer))

\* It takes a part and fails: at least one byte, at most all but the newline
\* (all says which).
WritePart(file, entry, writer, all) ==
  AddLine(file, [Line(entry, writer) EXCEPT !.whole = all, !.ended = FALSE])

\* What loading accepts: at least one line, each of them one entry whose command has a
\* name and whose environment has a variable. The last one needs no newline.
Loads(file) ==
  /\ file # <<>>
  /\ \A i \in DOMAIN file :
       file[i].whole /\ file[i].entry.cmd.op # "nameless" /\ DOMAIN file[i].entry.env # {}

\* decodeReplayEntry: an empty before_env is not written and reads back as the
\* environment after the command.
Decode(entry) ==
  IF DOMAIN entry.beforeEnv = {} THEN [entry EXCEPT !.beforeEnv = entry.env] ELSE entry

Entries(file) == [i \in DOMAIN file |-> Decode(file[i].entry)]
=============================================================================
