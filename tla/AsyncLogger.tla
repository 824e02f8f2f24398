----------------------------- MODULE AsyncLogger -----------------------------
(***************************************************************************)
(* asyncLogger (src/internal/pipery/logger.go): the goroutine that runs    *)
(* the user's commands calls Log and, once, Close; a worker goroutine      *)
(* takes entries from a buffered channel and writes each to every sink.    *)
(*                                                                         *)
(* An entry is the number of the Log call that offered it: its fields, and *)
(* the redaction applied to them before the send, are not told apart here. *)
(***************************************************************************)
EXTENDS Naturals, Sequences

CONSTANTS
  QueueSize,    \* cfg.QueueSize, the channel's capacity
  NumSinks,     \* how many sinks buildSinks returned (the file, then syslog)
  MaxEntries,   \* BOUND: Log calls in one behaviour
  Unencodable   \* entries json.Marshal refuses

\* parseArgs refuses a queue smaller than one entry, buildSinks an empty list.
ASSUME QueueSizeAssumption == QueueSize \in Nat \ {0}
ASSUME NumSinksAssumption  == NumSinks \in Nat \ {0}
ASSUME MaxEntriesAssumption == MaxEntries \in Nat
ASSUME UnencodableAssumption == Unencodable \subseteq Nat

VARIABLES
  entries,       \* the channel's buffer
  chan,          \* "open" until close(l.entries), then "closed"
  dropped,       \* the atomic counter
  worker,        \* where run() is
  current,       \* the entry run() is writing
  sinkAt,        \* the sink run() is at, while writing or closing sinks
  openSinks,     \* sinks whose Close has not been called
  settled,       \* history: per sink, [entry, outcome] in the order run() got past them
  main,          \* where the caller is
  closeResults,  \* what each Close call returned
  reportedDrops, \* the count Close printed, 0 when it printed nothing
  logged,        \* history: Log calls so far
  accepted       \* history: entries sent to the channel, in order

chanVars   == <<entries, chan, dropped>>
workerVars == <<worker, current, sinkAt, openSinks, settled>>
mainVars   == <<main, closeResults, reportedDrops, logged, accepted>>
vars       == <<chanVars, workerVars, mainVars>>

Sinks    == 1..NumSinks
Outcomes == {"written", "failed", "unencoded"}
Settlement(e, o) == [entry |-> e, outcome |-> o]
Settlements == [entry : 1..MaxEntries, outcome : Outcomes]

Init ==
  /\ entries = <<>> /\ chan = "open" /\ dropped = 0
  /\ worker = "receive" /\ current = 0 /\ sinkAt = 1
  /\ openSinks = Sinks
  /\ settled = [s \in Sinks |-> <<>>]
  /\ main = "running" /\ closeResults = <<>> /\ reportedDrops = 0
  /\ logged = 0 /\ accepted = <<>>

-----------------------------------------------------------------------------
\* The caller.

\* select { case l.entries <- entry: default: l.dropped.Add(1) }
LogOffByOne ==
  /\ main = "running" /\ logged < MaxEntries
  /\ logged' = logged + 1
  /\ \/ /\ Len(entries) <= QueueSize
        /\ entries' = Append(entries, logged')
        /\ accepted' = Append(accepted, logged')
        /\ UNCHANGED dropped
     \/ /\ Len(entries) > QueueSize
        /\ dropped' = dropped + 1
        /\ UNCHANGED <<entries, accepted>>
  /\ UNCHANGED <<chan, workerVars, main, closeResults, reportedDrops>>

Log ==
  /\ main = "running" /\ logged < MaxEntries
  /\ logged' = logged + 1
  /\ \/ /\ Len(entries) < QueueSize
        /\ entries' = Append(entries, logged')
        /\ accepted' = Append(accepted, logged')
        /\ UNCHANGED dropped
     \/ /\ Len(entries) = QueueSize
        /\ dropped' = dropped + 1
        /\ UNCHANGED <<entries, accepted>>
  /\ UNCHANGED <<chan, workerVars, main, closeResults, reportedDrops>>

\* The first Close enters closeOnce.Do and closes the channel.
BeginCloseClosesSinks ==
  /\ main = "running"
  /\ main' = "flushing" /\ chan' = "closed" /\ openSinks' = {}
  /\ UNCHANGED <<entries, dropped, worker, current, sinkAt, settled,
                 closeResults, reportedDrops, logged, accepted>>

BeginClose ==
  /\ main = "running"
  /\ main' = "flushing" /\ chan' = "closed"
  /\ UNCHANGED <<entries, dropped, workerVars,
                 closeResults, reportedDrops, logged, accepted>>

\* The rest of that Close once its select has chosen a case.
CloseReturnsWith(result) ==
  /\ main = "flushing"
  /\ main' = "closed"
  /\ closeResults' = Append(closeResults, result)
  /\ reportedDrops' = dropped
  /\ UNCHANGED <<chanVars, workerVars, logged, accepted>>

FlushDoneTooEarly == entries = <<>> /\ CloseReturnsWith("nil")

FlushDone == worker = "done" /\ CloseReturnsWith("nil")

FlushTimeoutSilent ==
  /\ main = "flushing"
  /\ main' = "closed"
  /\ closeResults' = Append(closeResults, "timeout")
  /\ UNCHANGED <<chanVars, workerVars, reportedDrops, logged, accepted>>

FlushTimeoutNever == FALSE /\ CloseReturnsWith("timeout")

FlushTimeout == CloseReturnsWith("timeout")

\* A later Close (the deferred one of replaySequence) finds closeOnce spent and
\* returns nil at once, whatever the first one returned.
CloseAgain ==
  /\ main = "closed" /\ Len(closeResults) < 2
  /\ closeResults' = Append(closeResults, "nil")
  /\ UNCHANGED <<chanVars, workerVars, main, reportedDrops, logged, accepted>>

\* os.Exit in main.go: goroutines still running are gone with the process.
Exit ==
  /\ main = "closed"
  /\ main' = "exited"
  /\ UNCHANGED <<chanVars, workerVars, closeResults, reportedDrops, logged, accepted>>

\* A signal ends psh at any point.
Killed ==
  /\ main \in {"running", "flushing"}
  /\ main' = "exited"
  /\ UNCHANGED <<chanVars, workerVars, closeResults, reportedDrops, logged, accepted>>

-----------------------------------------------------------------------------
\* The worker. Nothing runs after the process has exited.

Alive == main # "exited"

\* for entry := range l.entries: take the oldest entry and encode it; an entry
\* that cannot be encoded is reported on stderr and skipped for every sink.
Receive ==
  /\ Alive /\ worker = "receive" /\ entries # <<>>
  /\ entries' = Tail(entries)
  /\ current' = Head(entries)
  /\ \/ /\ current' \in Unencodable
        /\ settled' = [s \in Sinks |->
                         Append(settled[s], Settlement(current', "unencoded"))]
        /\ UNCHANGED <<worker, sinkAt>>
     \/ /\ current' \notin Unencodable
        /\ worker' = "write" /\ sinkAt' = 1
        /\ UNCHANGED settled
  /\ UNCHANGED <<chan, dropped, openSinks, mainVars>>

\* One sink's Write. An error is reported on stderr and the loop goes on.
WriteSinkStopsAtError ==
  /\ Alive /\ worker = "write"
  /\ \E o \in {"written", "failed"} :
       /\ settled' = [settled EXCEPT ![sinkAt] = Append(@, Settlement(current, o))]
       /\ IF sinkAt = NumSinks \/ o = "failed"
            THEN worker' = "receive" /\ UNCHANGED sinkAt
            ELSE sinkAt' = sinkAt + 1 /\ UNCHANGED worker
  /\ UNCHANGED <<chanVars, current, openSinks, mainVars>>

WriteSinkRequeuesOnError ==
  /\ Alive /\ worker = "write"
  /\ \E o \in {"written", "failed"} :
       IF o = "failed" /\ chan = "open" /\ Len(entries) < QueueSize
         THEN /\ entries' = Append(entries, current)
              /\ worker' = "receive"
              /\ UNCHANGED <<settled, sinkAt>>
         ELSE /\ settled' = [settled EXCEPT ![sinkAt] = Append(@, Settlement(current, o))]
              /\ IF sinkAt = NumSinks THEN worker' = "receive" /\ UNCHANGED sinkAt
                                      ELSE sinkAt' = sinkAt + 1 /\ UNCHANGED worker
              /\ UNCHANGED entries
  /\ UNCHANGED <<chan, dropped, current, openSinks, mainVars>>

WriteSink ==
  /\ Alive /\ worker = "write"
  /\ \E o \in {"written", "failed"} :
       settled' = [settled EXCEPT ![sinkAt] = Append(@, Settlement(current, o))]
  /\ IF sinkAt = NumSinks THEN worker' = "receive" /\ UNCHANGED sinkAt
                          ELSE sinkAt' = sinkAt + 1 /\ UNCHANGED worker
  /\ UNCHANGED <<chanVars, current, openSinks, mainVars>>

\* range ends only when the channel is closed and drained.
RangeEndsOnClose ==
  /\ Alive /\ worker = "receive" /\ chan = "closed"
  /\ worker' = "closeSinks" /\ sinkAt' = 1
  /\ UNCHANGED <<chanVars, current, openSinks, settled, mainVars>>

RangeEnds ==
  /\ Alive /\ worker = "receive" /\ chan = "closed" /\ entries = <<>>
  /\ worker' = "closeSinks" /\ sinkAt' = 1
  /\ UNCHANGED <<chanVars, current, openSinks, settled, mainVars>>

\* The deferred calls: closeSinks in order, then close(l.workerDone).
CloseSink ==
  /\ Alive /\ worker = "closeSinks"
  /\ openSinks' = openSinks \ {sinkAt}
  /\ IF sinkAt = NumSinks THEN worker' = "done" /\ UNCHANGED sinkAt
                          ELSE sinkAt' = sinkAt + 1 /\ UNCHANGED worker
  /\ UNCHANGED <<chanVars, current, settled, mainVars>>

-----------------------------------------------------------------------------
Worker == Receive \/ WriteSink \/ RangeEnds \/ CloseSink
CloseReturn == FlushDone \/ FlushTimeout
Main == Log \/ BeginClose \/ CloseReturn \/ CloseAgain \/ Exit \/ Killed

Next == Main \/ Worker

Spec == Init /\ [][Next]_vars

\* time.After fires whatever the sinks do: the select in Close is not stuck.
CloseFairness == WF_vars(CloseReturn)
TimedSpec == Spec /\ CloseFairness

\* No sink blocks for ever (os.File writes return, syslog writes have deadlines).
WorkerFairness == WF_vars(Worker)

-----------------------------------------------------------------------------
\* Type correctness of the queue, the worker's registers and the histories.
TypeOK ==
  /\ entries \in Seq(1..MaxEntries) /\ Len(entries) <= QueueSize
  /\ chan \in {"open", "closed"}
  /\ dropped \in Nat /\ reportedDrops \in Nat
  /\ worker \in {"receive", "write", "closeSinks", "done"}
  /\ current \in 0..MaxEntries /\ sinkAt \in Sinks /\ openSinks \subseteq Sinks
  /\ settled \in [Sinks -> Seq(Settlements)]
  /\ main \in {"running", "flushing", "closed", "exited"}
  /\ closeResults \in Seq({"nil", "timeout"}) /\ Len(closeResults) <= 2
  /\ logged \in 0..MaxEntries
  /\ accepted \in Seq(1..MaxEntries)

\* Every sink deals with the accepted entries in the order of the Log calls,
\* each once and none skipped, however its writes and its siblings' writes fail.
InOrder ==
  \A s \in Sinks :
    /\ Len(settled[s]) <= Len(accepted)
    /\ \A i \in 1..Len(settled[s]) : settled[s][i].entry = accepted[i]

\* Every sink in turn: the first one is at most one entry ahead of the last.
SinksInStep ==
  \A s, t \in Sinks :
    s < t => Len(settled[s]) - Len(settled[t]) \in {0, 1}

\* When the first Close returns nil (replaySequence then reads the file back),
\* nothing accepted is waiting for any sink and every sink has been closed.
FlushedMeansSettled ==
  (closeResults # <<>> /\ closeResults[1] = "nil") =>
    /\ openSinks = {}
    /\ \A s \in Sinks : Len(settled[s]) = Len(accepted)

\* An entry that reaches no sink leaves a trace: Close prints how many Log calls
\* found the queue full, also when it times out, and that count is exact.
DropsReported ==
  closeResults # <<>> => reportedDrops + Len(accepted) = logged

\* What a timeout, a signal or a crash can lose of the accepted entries: the
\* queue and the one entry in the worker's hands.
BoundedLoss ==
  \A s \in Sinks : Len(accepted) - Len(settled[s]) <= QueueSize + 1

\* closeSinks runs after the last write to any sink: no sink is written after
\* it was closed, and none is closed while an accepted entry waits.
SinksClosedLast ==
  openSinks # Sinks =>
    /\ chan = "closed" /\ entries = <<>>
    /\ \A s \in Sinks : Len(settled[s]) = Len(accepted)

\* Close returns even when a sink never does: "a stuck sink should not hang the
\* whole application forever".
CloseReturns == main = "flushing" ~> main # "flushing"

\* If no write blocks for ever, an accepted entry reaches every sink unless the
\* process ends first.
AcceptedIsSettled ==
  WorkerFairness =>
    \A n \in 1..MaxEntries :
      Len(accepted) >= n ~>
        (main = "exited" \/ \A s \in Sinks : Len(settled[s]) >= n)

-----------------------------------------------------------------------------
\* The refinement: a sink's abstract history forgets the outcomes, and the
\* result of the first Close is the abstract phase after it.
PhaseOf ==
  CASE main = "running"  -> "open"
    [] main = "flushing" -> "closing"
    [] main = "closed"   -> IF closeResults[1] = "nil" THEN "flushed" ELSE "gaveUp"
    [] main = "exited"   -> "gone"

SettledEntries ==
  [s \in Sinks |-> [i \in 1..Len(settled[s]) |-> settled[s][i].entry]]

Delivery == INSTANCE LogDelivery
              WITH Capacity <- QueueSize, lost <- dropped,
                   settled <- SettledEntries, phase <- PhaseOf

\* The queue and the worker keep every promise of LogDelivery.
DeliversLog == Delivery!Spec
=============================================================================
