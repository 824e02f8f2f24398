-------------------------- MODULE AsyncLoggerProofs --------------------------
(***************************************************************************)
(* The safety properties of AsyncLogger for every queue size, number of    *)
(* sinks and number of Log calls, from one inductive invariant; then that  *)
(* the queue and the worker implement LogDelivery.                         *)
(***************************************************************************)
EXTENDS AsyncLogger, SequenceTheorems, TLAPS

\* How many accepted entries the worker has taken out of the channel.
Taken == Len(accepted) - Len(entries)

\* The channel holds the accepted entries the worker has not taken, in order.
QueueIsTail ==
  /\ Len(entries) <= Len(accepted)
  /\ \A i \in 1..Len(entries) : entries[i] = accepted[Taken + i]

\* While an entry is being written, it is the last one taken, and the sinks the
\* loop has yet to visit are the ones without it.
SettledUpTo ==
  /\ worker = "write" => Taken >= 1 /\ current = accepted[Taken]
  /\ \A s \in Sinks :
       Len(settled[s]) = IF worker = "write" /\ s >= sinkAt THEN Taken - 1 ELSE Taken

\* What each sink settled is what was accepted, in order.
SettledInOrder ==
  \A s \in Sinks : \A i \in 1..Len(settled[s]) :
    i <= Len(accepted) /\ settled[s][i].entry = accepted[i]

\* Sinks are closed one after the other once the channel is closed and drained.
SinksClose ==
  /\ worker \in {"receive", "write"} => openSinks = Sinks
  /\ worker \in {"closeSinks", "done"} => chan = "closed" /\ entries = <<>>
  /\ worker = "closeSinks" => openSinks = sinkAt..NumSinks
  /\ worker = "done" => openSinks = {}

\* Every Log call was accepted or counted, and the results of Close fit its steps.
Accounts ==
  /\ logged = Len(accepted) + dropped
  /\ chan = "closed" => main # "running"
  /\ main \in {"running", "flushing"} => closeResults = <<>>
  /\ main = "closed" => closeResults # <<>>
  /\ closeResults # <<>> => reportedDrops = dropped
  /\ closeResults # <<>> /\ closeResults[1] = "nil" => worker = "done"

IInv == /\ TypeOK /\ QueueIsTail /\ SettledUpTo /\ SettledInOrder
        /\ SinksClose /\ Accounts

USE QueueSizeAssumption, NumSinksAssumption, MaxEntriesAssumption

-----------------------------------------------------------------------------
\* The initial state satisfies the invariant.
LEMMA InitIInv == Init => IInv
  <1> SUFFICES ASSUME Init PROVE IInv
    OBVIOUS
  <1>1. TypeOK
    BY DEF Init, TypeOK, Sinks
  <1>2. QueueIsTail /\ SettledUpTo /\ SettledInOrder
    BY DEF Init, QueueIsTail, SettledUpTo, SettledInOrder, Taken, Sinks
  <1>3. SinksClose /\ Accounts
    BY DEF Init, SinksClose, Accounts
  <1> QED
    BY <1>1, <1>2, <1>3 DEF IInv

\* Log preserves the invariant.
LEMMA LogIInv == IInv /\ Log => IInv'
  <1> SUFFICES ASSUME IInv, Log PROVE IInv'
    OBVIOUS
  <1> USE DEF IInv
  <1>1. UNCHANGED <<chan, worker, current, sinkAt, openSinks, settled,
                    main, closeResults, reportedDrops>>
        /\ main = "running"
    BY DEF Log, workerVars
  <1>2. logged' = logged + 1 /\ logged' \in 1..MaxEntries
    BY DEF Log, TypeOK
  <1>3. CASE /\ Len(entries) < QueueSize
             /\ entries' = Append(entries, logged')
             /\ accepted' = Append(accepted, logged')
             /\ UNCHANGED dropped
    <2>1. /\ entries' \in Seq(1..MaxEntries) /\ Len(entries') = Len(entries) + 1
          /\ \A i \in 1..Len(entries) : entries'[i] = entries[i]
          /\ entries'[Len(entries) + 1] = logged'
      BY <1>2, <1>3, AppendProperties DEF TypeOK
    <2>2. /\ accepted' \in Seq(1..MaxEntries) /\ Len(accepted') = Len(accepted) + 1
          /\ \A i \in 1..Len(accepted) : accepted'[i] = accepted[i]
          /\ accepted'[Len(accepted) + 1] = logged'
      BY <1>2, <1>3, AppendProperties DEF TypeOK
    <2>3. Len(entries) \in Nat /\ Len(accepted) \in Nat
      BY DEF TypeOK
    <2>4. TypeOK'
      BY <1>1, <1>2, <1>3, <2>1, <2>2, <2>3 DEF TypeOK
    <2>5. Taken' = Taken /\ Taken \in Nat /\ Taken <= Len(accepted)
      BY <2>1, <2>2, <2>3 DEF QueueIsTail, Taken
    <2>6. QueueIsTail'
      <3>1. ASSUME NEW i \in 1..Len(entries') PROVE entries'[i] = accepted'[Taken + i]
        <4>1. CASE i \in 1..Len(entries)
          <5>1. Taken + i \in 1..Len(accepted)
            BY <4>1, <2>3 DEF QueueIsTail, Taken
          <5> QED
            BY <4>1, <5>1, <2>1, <2>2 DEF QueueIsTail
        <4>2. CASE i = Len(entries) + 1
          <5>1. Taken + i = Len(accepted) + 1
            BY <4>2, <2>3 DEF Taken
          <5> QED
            BY <4>2, <5>1, <2>1, <2>2
        <4> QED
          BY <4>1, <4>2, <2>1, <2>3
      <3>2. Len(entries') <= Len(accepted')
        BY <2>1, <2>2, <2>3 DEF QueueIsTail
      <3> QED
        BY <3>1, <3>2, <2>5 DEF QueueIsTail
    <2>9. SettledUpTo'
      BY <1>1, <2>2, <2>5 DEF SettledUpTo
    <2>10. SettledInOrder'
      <3>1. \A s \in Sinks : Len(settled[s]) \in Nat
        BY DEF TypeOK
      <3> QED
        BY <3>1, <1>1, <2>2, <2>3 DEF SettledInOrder
    <2>7. SinksClose' /\ Accounts'
      BY <1>1, <1>2, <1>3, <2>2, <2>3 DEF SinksClose, Accounts, TypeOK
    <2> QED
      BY <2>4, <2>6, <2>7, <2>9, <2>10
  <1>4. CASE dropped' = dropped + 1 /\ UNCHANGED <<entries, accepted>>
    <2>1. TypeOK'
      BY <1>1, <1>2, <1>4 DEF TypeOK
    <2>2. QueueIsTail' /\ SettledUpTo' /\ SettledInOrder' /\ SinksClose'
      BY <1>1, <1>4 DEF QueueIsTail, SettledUpTo, SettledInOrder, SinksClose, Taken
    <2>3. Accounts'
      BY <1>1, <1>2, <1>4 DEF Accounts, TypeOK
    <2> QED
      BY <2>1, <2>2, <2>3
  <1> QED
    BY <1>3, <1>4 DEF Log

\* The steps of Close, and the end of the process, preserve the invariant.
LEMMA CloseIInv ==
  IInv /\ (BeginClose \/ CloseReturn \/ CloseAgain \/ Exit \/ Killed) => IInv'
  <1> SUFFICES ASSUME IInv, BeginClose \/ CloseReturn \/ CloseAgain \/ Exit \/ Killed
               PROVE IInv'
    OBVIOUS
  <1> USE DEF IInv, CloseReturn, FlushDone, FlushTimeout, CloseReturnsWith,
              BeginClose, CloseAgain, Exit, Killed, chanVars, workerVars
  <1>1. /\ UNCHANGED <<worker, current, sinkAt, openSinks, settled,
                       entries, dropped, logged, accepted>>
        /\ chan = "closed" => chan' = "closed"
    OBVIOUS
  <1>2. /\ closeResults' \in Seq({"nil", "timeout"}) /\ Len(closeResults') <= 2
        /\ closeResults # <<>> => closeResults' # <<>> /\ closeResults'[1] = closeResults[1]
    <2>1. closeResults \in Seq({"nil", "timeout"}) /\ Len(closeResults) <= 2
      BY DEF TypeOK
    <2>2. CASE CloseReturn
      <3>1. PICK r \in {"nil", "timeout"} : closeResults = <<>> /\ closeResults' = Append(<<>>, r)
        BY <2>2 DEF Accounts
      <3> QED
        BY <3>1
    <2>3. CASE CloseAgain
      BY <2>1, <2>3, AppendProperties
    <2>4. CASE BeginClose \/ Exit \/ Killed
      BY <2>1, <2>4
    <2> QED
      BY <2>2, <2>3, <2>4
  <1>3. TypeOK'
    <2>1. /\ chan' \in {"open", "closed"} /\ reportedDrops' \in Nat
          /\ main' \in {"running", "flushing", "closed", "exited"}
      BY DEF TypeOK
    <2> QED
      BY <1>1, <1>2, <2>1 DEF TypeOK
  <1>4. QueueIsTail' /\ SettledUpTo' /\ SettledInOrder' /\ SinksClose'
    BY <1>1 DEF QueueIsTail, SettledUpTo, SettledInOrder, SinksClose, Taken
  <1>5. Accounts'
    <2>1. CASE FlushDone
      <3>1. closeResults' # <<>> /\ worker = "done" /\ reportedDrops' = dropped /\ main' = "closed"
        BY <2>1 DEF Accounts
      <3> QED
        BY <3>1, <1>1 DEF Accounts
    <2>2. CASE FlushTimeout
      <3>1. /\ closeResults' # <<>> /\ closeResults'[1] = "timeout"
            /\ reportedDrops' = dropped /\ main' = "closed"
        BY <2>2 DEF Accounts
      <3> QED
        BY <3>1, <1>1 DEF Accounts
    <2>3. CASE CloseAgain
      BY <2>3, <1>1, <1>2 DEF Accounts
    <2>4. CASE BeginClose \/ Exit \/ Killed
      BY <2>4, <1>1 DEF Accounts
    <2> QED
      BY <2>1, <2>2, <2>3, <2>4
  <1> QED
    BY <1>3, <1>4, <1>5

\* Taking and encoding an entry preserves the invariant.
LEMMA ReceiveIInv == IInv /\ Receive => IInv'
  <1> SUFFICES ASSUME IInv, Receive PROVE IInv'
    OBVIOUS
  <1> USE DEF IInv
  <1>1. /\ UNCHANGED <<accepted, chan, dropped, main, closeResults, reportedDrops,
                       logged, openSinks>>
        /\ worker = "receive"
    BY DEF Receive, mainVars
  <1>2. /\ entries \in Seq(1..MaxEntries) /\ entries # <<>>
        /\ entries' = Tail(entries) /\ current' = Head(entries)
    BY DEF Receive, TypeOK
  <1>3. /\ entries' \in Seq(1..MaxEntries) /\ Len(entries') = Len(entries) - 1
        /\ \A i \in 1..Len(entries') : entries'[i] = entries[i + 1]
        /\ Len(entries) \in Nat /\ Len(entries) >= 1 /\ Len(accepted) \in Nat
        /\ current' = entries[1] /\ current' \in 1..MaxEntries
    <2>1. Len(accepted) \in Nat
      BY DEF TypeOK
    <2>2. Len(entries) \in Nat /\ Len(entries) >= 1
      BY <1>2
    <2> QED
      BY <1>2, <2>1, <2>2, HeadTailProperties
  <1>4. /\ Taken' = Taken + 1 /\ Taken \in Nat /\ Taken' <= Len(accepted)
        /\ current' = accepted[Taken']
    BY <1>1, <1>3 DEF QueueIsTail, Taken
  <1>5. QueueIsTail'
    BY <1>1, <1>3, <1>4 DEF QueueIsTail, Taken
  <1>6. SinksClose' /\ Accounts'
    BY <1>1, <1>2 DEF Receive, SinksClose, Accounts
  <1>7. \A s \in Sinks : settled[s] \in Seq(Settlements) /\ Len(settled[s]) = Taken
    BY <1>1 DEF SettledUpTo, TypeOK
  <1>8. CASE /\ settled' = [s \in Sinks |->
                              Append(settled[s], Settlement(current', "unencoded"))]
             /\ UNCHANGED <<worker, sinkAt>>
    <2>1. Settlement(current', "unencoded") \in Settlements
      BY <1>3 DEF Settlement, Settlements, Outcomes
    <2>2. \A s \in Sinks :
             /\ settled'[s] \in Seq(Settlements) /\ Len(settled'[s]) = Taken'
             /\ \A i \in 1..Taken : settled'[s][i] = settled[s][i]
             /\ settled'[s][Taken'].entry = current'
      BY <1>4, <1>7, <1>8, <2>1, AppendProperties DEF Settlement
    <2>3. TypeOK'
      BY <1>1, <1>3, <1>8, <2>2 DEF TypeOK
    <2>4. SettledUpTo'
      BY <1>1, <1>8, <2>2 DEF SettledUpTo
    <2>5. SettledInOrder'
      BY <1>1, <1>4, <1>7, <2>2 DEF SettledInOrder
    <2> QED
      BY <1>5, <1>6, <2>3, <2>4, <2>5
  <1>9. CASE worker' = "write" /\ sinkAt' = 1 /\ UNCHANGED settled
    <2>1. TypeOK'
      <3>1. sinkAt' \in Sinks
        BY <1>9 DEF Sinks
      <3>2. current' \in 0..MaxEntries
        BY <1>3
      <3>3. Len(entries') <= QueueSize
        BY <1>3 DEF TypeOK
      <3> QED
        BY <1>1, <1>3, <1>9, <3>1, <3>2, <3>3 DEF TypeOK
    <2>2. SettledUpTo'
      <3>1. Taken' >= 1 /\ current' = accepted'[Taken']
        BY <1>1, <1>4
      <3>2. \A s \in Sinks : s >= sinkAt' /\ Len(settled'[s]) = Taken' - 1
        BY <1>4, <1>7, <1>9 DEF Sinks
      <3> QED
        BY <1>9, <3>1, <3>2 DEF SettledUpTo
    <2>3. SettledInOrder'
      BY <1>1, <1>9 DEF SettledInOrder
    <2> QED
      BY <1>5, <1>6, <2>1, <2>2, <2>3
  <1> QED
    BY <1>8, <1>9 DEF Receive

\* While the worker writes an entry, that entry is the last one taken.
LEMMA WhileWriting ==
  ASSUME IInv, worker = "write"
  PROVE  /\ Taken >= 1 /\ Taken <= Len(accepted) /\ Taken \in Nat
         /\ Len(accepted) \in Nat /\ accepted \in Seq(1..MaxEntries)
         /\ current = accepted[Taken]
  <1>1. /\ accepted \in Seq(1..MaxEntries) /\ Len(accepted) \in Nat
        /\ Len(entries) \in Nat
    BY DEF IInv, TypeOK
  <1>2. Taken >= 1 /\ current = accepted[Taken]
    BY DEF IInv, SettledUpTo
  <1>3. Len(entries) <= Len(accepted)
    BY DEF IInv, QueueIsTail
  <1>4. Taken <= Len(accepted) /\ Taken \in Nat
    BY <1>1, <1>3 DEF Taken
  <1> QED
    BY <1>1, <1>2, <1>4

\* One sink's write preserves the invariant.
LEMMA WriteSinkIInv == IInv /\ WriteSink => IInv'
  <1> SUFFICES ASSUME IInv, WriteSink PROVE IInv'
    OBVIOUS
  <1> USE DEF IInv
  <1>1. /\ UNCHANGED <<entries, accepted, chan, dropped, main, closeResults,
                       reportedDrops, logged, openSinks, current>>
        /\ worker = "write" /\ sinkAt \in 1..NumSinks
    BY DEF WriteSink, mainVars, chanVars, TypeOK, Sinks
  <1>2. \/ sinkAt = NumSinks /\ worker' = "receive" /\ sinkAt' = sinkAt
        \/ sinkAt < NumSinks /\ worker' = "write" /\ sinkAt' = sinkAt + 1
    BY <1>1 DEF WriteSink
  <1>3. PICK o \in {"written", "failed"} :
          settled' = [settled EXCEPT ![sinkAt] = Append(@, Settlement(current, o))]
    BY DEF WriteSink
  <1>4. /\ Taken >= 1 /\ Taken <= Len(accepted) /\ Taken \in Nat
        /\ Len(accepted) \in Nat /\ accepted \in Seq(1..MaxEntries)
        /\ current = accepted[Taken]
    BY <1>1, WhileWriting
  <1>5. current \in 1..MaxEntries
    BY <1>4
  <1>6. Settlement(current, o) \in Settlements
    BY <1>5 DEF Settlement, Settlements, Outcomes
  <1>7. settled \in [Sinks -> Seq(Settlements)]
    BY DEF TypeOK
  <1>8. /\ settled' \in [Sinks -> Seq(Settlements)]
        /\ \A s \in Sinks \ {sinkAt} : settled'[s] = settled[s]
        /\ settled'[sinkAt] = Append(settled[sinkAt], Settlement(current, o))
        /\ settled[sinkAt] \in Seq(Settlements)
        /\ Len(settled[sinkAt]) = Taken - 1
    BY <1>1, <1>3, <1>6, <1>7 DEF SettledUpTo, Sinks
  <1>9. /\ Len(settled'[sinkAt]) = Taken
        /\ \A i \in 1..(Taken - 1) : settled'[sinkAt][i] = settled[sinkAt][i]
        /\ settled'[sinkAt][Taken].entry = current
    BY <1>4, <1>6, <1>8, AppendProperties DEF Settlement
  <1>10. TypeOK'
    <2>1. sinkAt' \in Sinks /\ worker' \in {"receive", "write", "closeSinks", "done"}
      BY <1>1, <1>2 DEF Sinks
    <2> QED
      BY <1>1, <1>8, <2>1 DEF TypeOK
  <1>11. QueueIsTail' /\ Taken' = Taken
    BY <1>1 DEF QueueIsTail, Taken
  <1>12. SettledUpTo'
    <2>1. \A s \in Sinks : Len(settled'[s]) = IF s > sinkAt THEN Taken - 1 ELSE Taken
      <3> SUFFICES ASSUME NEW s \in Sinks
                   PROVE Len(settled'[s]) = IF s > sinkAt THEN Taken - 1 ELSE Taken
        OBVIOUS
      <3>1. CASE s = sinkAt
        BY <3>1, <1>1, <1>9
      <3>2. CASE s # sinkAt
        <4>1. s > sinkAt <=> s >= sinkAt
          BY <3>2, <1>1 DEF Sinks
        <4>2. Len(settled[s]) = IF s >= sinkAt THEN Taken - 1 ELSE Taken
          BY <1>1 DEF SettledUpTo
        <4> QED
          BY <3>2, <4>1, <4>2, <1>8
      <3> QED
        BY <3>1, <3>2
    <2> QED
      BY <1>1, <1>2, <1>4, <1>11, <2>1 DEF SettledUpTo, Sinks
  <1>13. SettledInOrder'
    <2>1. SUFFICES ASSUME NEW s \in Sinks, NEW i \in 1..Len(settled'[s])
                   PROVE i <= Len(accepted) /\ settled'[s][i].entry = accepted[i]
      BY <1>1 DEF SettledInOrder
    <2>2. CASE s = sinkAt
      BY <2>1, <2>2, <1>4, <1>8, <1>9 DEF SettledInOrder
    <2>3. CASE s # sinkAt
      BY <2>1, <2>3, <1>8 DEF SettledInOrder
    <2> QED
      BY <2>2, <2>3
  <1>14. SinksClose' /\ Accounts'
    BY <1>1, <1>2 DEF SinksClose, Accounts
  <1> QED
    BY <1>10, <1>11, <1>12, <1>13, <1>14

\* The end of the range loop and the closing of the sinks preserve it.
LEMMA CloseSinksIInv == IInv /\ (RangeEnds \/ CloseSink) => IInv'
  <1> SUFFICES ASSUME IInv, RangeEnds \/ CloseSink PROVE IInv'
    OBVIOUS
  <1> USE DEF IInv, RangeEnds, CloseSink, chanVars, mainVars
  <1>1. /\ UNCHANGED <<entries, chan, dropped, current, settled, main, closeResults,
                       reportedDrops, logged, accepted>>
        /\ worker # "write" /\ worker' # "write" /\ sinkAt \in 1..NumSinks
    BY DEF TypeOK, Sinks
  <1>2. TypeOK'
    <2>1. openSinks' \subseteq Sinks
      BY DEF TypeOK
    <2>2. /\ worker' \in {"receive", "write", "closeSinks", "done"}
          /\ sinkAt' \in Sinks
      BY <1>1 DEF Sinks
    <2> QED
      BY <1>1, <2>1, <2>2 DEF TypeOK
  <1>3. QueueIsTail' /\ SettledUpTo' /\ SettledInOrder'
    BY <1>1 DEF QueueIsTail, SettledUpTo, SettledInOrder, Taken
  <1>4. SinksClose' /\ Accounts'
    <2>1. CASE RangeEnds
      BY <2>1, <1>1 DEF SinksClose, Accounts, Sinks
    <2>2. CASE CloseSink
      <3>1. openSinks = sinkAt..NumSinks /\ openSinks' = openSinks \ {sinkAt}
        BY <2>2 DEF SinksClose
      <3>2. CASE sinkAt = NumSinks /\ worker' = "done"
        BY <2>2, <1>1, <3>1, <3>2 DEF SinksClose, Accounts
      <3>3. CASE sinkAt' = sinkAt + 1 /\ worker' = "closeSinks"
        BY <2>2, <1>1, <3>1, <3>3 DEF SinksClose, Accounts
      <3> QED
        BY <2>2, <3>2, <3>3
    <2> QED
      BY <2>1, <2>2
  <1> QED
    BY <1>2, <1>3, <1>4

\* IInv is inductive.
LEMMA NextIInv == IInv /\ [Next]_vars => IInv'
  <1> SUFFICES ASSUME IInv, [Next]_vars PROVE IInv'
    OBVIOUS
  <1>1. CASE Main
    BY <1>1, LogIInv, CloseIInv DEF Main
  <1>2. CASE Worker
    BY <1>2, ReceiveIInv, WriteSinkIInv, CloseSinksIInv DEF Worker
  <1>3. CASE UNCHANGED vars
    BY <1>3 DEF vars, chanVars, workerVars, mainVars, IInv, TypeOK, QueueIsTail,
                SettledUpTo, SettledInOrder, SinksClose, Accounts, Taken
  <1> QED
    BY <1>1, <1>2, <1>3 DEF Next

\* Every reachable state satisfies the inductive invariant.
THEOREM Invariance == Spec => []IInv
  BY InitIInv, NextIInv, PTL DEF Spec

-----------------------------------------------------------------------------
(* The safety properties of AsyncLogger.                                   *)

\* The queue never exceeds its capacity and every register keeps its type,
\* for every sequence of Log, Close and worker steps.
THEOREM TypeCorrect == Spec => []TypeOK
  <1>1. IInv => TypeOK
    BY DEF IInv
  <1> QED
    BY <1>1, Invariance, PTL

\* run() hands each sink the accepted entries in the order of the Log calls.
THEOREM OrderKept == Spec => []InOrder
  <1>1. IInv => InOrder
    <2> SUFFICES ASSUME IInv PROVE InOrder
      OBVIOUS
    <2>1. Len(entries) \in Nat /\ Len(accepted) \in Nat
      BY DEF IInv, TypeOK
    <2>2. \A s \in Sinks : Len(settled[s]) <= Len(accepted)
      BY <2>1 DEF IInv, SettledUpTo, QueueIsTail, Taken
    <2> QED
      BY <2>2 DEF IInv, SettledInOrder, InOrder
  <1> QED
    BY <1>1, Invariance, PTL

\* The loop over the sinks keeps the first at most one entry ahead of the last.
THEOREM SinksStayInStep == Spec => []SinksInStep
  <1>1. IInv => SinksInStep
    <2> SUFFICES ASSUME IInv, NEW s \in Sinks, NEW t \in Sinks, s < t
                 PROVE Len(settled[s]) - Len(settled[t]) \in {0, 1}
      BY DEF SinksInStep
    <2>1. Taken \in Int /\ s \in Int /\ t \in Int /\ sinkAt \in Int
      BY DEF IInv, TypeOK, Taken, Sinks
    <2>2. /\ Len(settled[s]) = IF worker = "write" /\ s >= sinkAt THEN Taken - 1 ELSE Taken
          /\ Len(settled[t]) = IF worker = "write" /\ t >= sinkAt THEN Taken - 1 ELSE Taken
      BY DEF IInv, SettledUpTo
    <2> QED
      BY <2>1, <2>2
  <1> QED
    BY <1>1, Invariance, PTL

\* A Close that returned nil left nothing unwritten and no sink open.
THEOREM FlushIsComplete == Spec => []FlushedMeansSettled
  <1>1. IInv => FlushedMeansSettled
    <2> SUFFICES ASSUME IInv, closeResults # <<>>, closeResults[1] = "nil"
                 PROVE openSinks = {} /\ \A s \in Sinks : Len(settled[s]) = Len(accepted)
      BY DEF FlushedMeansSettled
    <2>1. worker = "done"
      BY DEF IInv, Accounts
    <2>2. entries = <<>> /\ openSinks = {}
      BY <2>1 DEF IInv, SinksClose
    <2>3. Len(accepted) \in Nat
      BY DEF IInv, TypeOK
    <2> QED
      BY <2>1, <2>2, <2>3 DEF IInv, SettledUpTo, Taken
  <1> QED
    BY <1>1, Invariance, PTL

\* The count Close prints is the number of Log calls that were refused.
THEOREM DropsAreReported == Spec => []DropsReported
  <1>1. IInv => DropsReported
    BY DEF IInv, TypeOK, Accounts, DropsReported
  <1> QED
    BY <1>1, Invariance, PTL

\* At most QueueSize + 1 accepted entries are missing from any sink, ever.
THEOREM LossIsBounded == Spec => []BoundedLoss
  <1>1. IInv => BoundedLoss
    <2> SUFFICES ASSUME IInv, NEW s \in Sinks
                 PROVE Len(accepted) - Len(settled[s]) <= QueueSize + 1
      BY DEF BoundedLoss
    <2>1. Len(entries) \in Nat /\ Len(accepted) \in Nat /\ Len(entries) <= QueueSize
      BY DEF IInv, TypeOK
    <2>2. Len(settled[s]) = Taken \/ Len(settled[s]) = Taken - 1
      BY DEF IInv, SettledUpTo
    <2>3. QueueSize \in Nat
      OBVIOUS
    <2>4. CASE Len(settled[s]) = Len(accepted) - Len(entries)
      BY <2>1, <2>3, <2>4
    <2>5. CASE Len(settled[s]) = Len(accepted) - Len(entries) - 1
      BY <2>1, <2>3, <2>5
    <2> QED
      BY <2>2, <2>4, <2>5 DEF Taken
  <1> QED
    BY <1>1, Invariance, PTL

\* No sink is closed before the last entry is dealt with.
THEOREM SinksCloseLast == Spec => []SinksClosedLast
  <1>1. IInv => SinksClosedLast
    <2> SUFFICES ASSUME IInv, openSinks # Sinks PROVE SinksClosedLast
      BY DEF SinksClosedLast
    <2>1. worker \in {"closeSinks", "done"}
      BY DEF IInv, TypeOK, SinksClose
    <2>2. chan = "closed" /\ entries = <<>>
      BY <2>1 DEF IInv, SinksClose
    <2>3. Len(accepted) \in Nat
      BY DEF IInv, TypeOK
    <2> QED
      BY <2>1, <2>2, <2>3 DEF IInv, SettledUpTo, Taken, SinksClosedLast
  <1> QED
    BY <1>1, Invariance, PTL

-----------------------------------------------------------------------------
(* The queue and the worker implement LogDelivery.                         *)

\* The entries of a settlement history.
EntriesOf(q) == [i \in 1..Len(q) |-> q[i].entry]

\* Appending a settlement appends its entry.
LEMMA EntriesOfAppend ==
  ASSUME NEW q \in Seq(Settlements), NEW x \in Settlements
  PROVE  EntriesOf(Append(q, x)) = Append(EntriesOf(q), x.entry)
  <1>1. /\ Append(q, x) \in Seq(Settlements) /\ Len(Append(q, x)) = Len(q) + 1
        /\ \A i \in 1..Len(q) : Append(q, x)[i] = q[i]
        /\ Append(q, x)[Len(q) + 1] = x /\ Len(q) \in Nat
    BY AppendProperties
  <1>2. \A y \in Settlements : y.entry \in 1..MaxEntries
    BY DEF Settlements
  <1>3. EntriesOf(q) \in Seq(1..MaxEntries) /\ Len(EntriesOf(q)) = Len(q)
    BY <1>1, <1>2 DEF EntriesOf
  <1>4. /\ EntriesOf(Append(q, x)) \in Seq(1..MaxEntries)
        /\ Len(EntriesOf(Append(q, x))) = Len(q) + 1
    BY <1>1, <1>2 DEF EntriesOf
  <1>5. /\ Append(EntriesOf(q), x.entry) \in Seq(1..MaxEntries)
        /\ Len(Append(EntriesOf(q), x.entry)) = Len(q) + 1
        /\ \A i \in 1..Len(q) : Append(EntriesOf(q), x.entry)[i] = EntriesOf(q)[i]
        /\ Append(EntriesOf(q), x.entry)[Len(q) + 1] = x.entry
    <2>1. x.entry \in 1..MaxEntries
      BY <1>2
    <2> HIDE DEF EntriesOf
    <2> QED
      BY <2>1, <1>3, AppendProperties
  <1>6. ASSUME NEW i \in 1..(Len(q) + 1)
        PROVE  EntriesOf(Append(q, x))[i] = Append(EntriesOf(q), x.entry)[i]
    <2>1. EntriesOf(Append(q, x))[i] = Append(q, x)[i].entry
      BY <1>1 DEF EntriesOf
    <2>2. CASE i = Len(q) + 1
      BY <2>1, <2>2, <1>1, <1>5
    <2>3. CASE i \in 1..Len(q)
      <3>1. EntriesOf(q)[i] = q[i].entry
        BY <2>3 DEF EntriesOf
      <3> QED
        BY <2>1, <2>3, <3>1, <1>1, <1>5
    <2>4. i \in 1..Len(q) \/ i = Len(q) + 1
      <3>1. Len(q) \in Nat /\ i \in 1..(Len(q) + 1)
        BY <1>1
      <3> QED
        BY <3>1
    <2> QED
      BY <2>2, <2>3, <2>4
  <1> QED
    BY <1>4, <1>5, <1>6, SeqEqual

\* The abstract history of a sink is as long as the detailed one.
LEMMA BacklogOf ==
  ASSUME TypeOK, NEW s \in Sinks
  PROVE  /\ SettledEntries[s] = EntriesOf(settled[s])
         /\ Delivery!Backlog(s) = Len(accepted) - Len(settled[s])
         /\ Len(settled[s]) \in Nat /\ Len(accepted) \in Nat
  <1>1. settled[s] \in Seq(Settlements) /\ Len(accepted) \in Nat
    BY DEF TypeOK
  <1>2. SettledEntries[s] = EntriesOf(settled[s])
    BY DEF SettledEntries, EntriesOf
  <1>3. Len(EntriesOf(settled[s])) = Len(settled[s])
    BY <1>1 DEF EntriesOf
  <1> QED
    BY <1>1, <1>2, <1>3 DEF Delivery!Backlog

\* The sinks in S settling the entry the worker holds is the abstract Settle(S).
LEMMA SettleStep ==
  ASSUME IInv, NEW S \in SUBSET Sinks, S # {}, NEW o \in Outcomes,
         NEW e \in 1..MaxEntries,
         main # "exited",
         UNCHANGED <<accepted, dropped, main, closeResults>>,
         settled' = [s \in Sinks |-> IF s \in S THEN Append(settled[s], Settlement(e, o))
                                                ELSE settled[s]],
         \A s \in S : Len(settled[s]) < Len(accepted) /\ e = accepted[Len(settled[s]) + 1]
  PROVE  Delivery!Next
  <1>1. TypeOK
    BY DEF IInv
  <1>2. PhaseOf # "gone" /\ PhaseOf' = PhaseOf
    BY <1>1 DEF PhaseOf, TypeOK
  <1>3. \A s \in S : Delivery!Backlog(s) > 0
    BY <1>1, BacklogOf
  <1>4. Settlement(e, o) \in Settlements /\ Settlement(e, o).entry = e
    BY DEF Settlement, Settlements
  <1>5. SettledEntries' = [s \in Sinks |->
                             IF s \in S THEN Append(SettledEntries[s],
                                                    accepted[Len(SettledEntries[s]) + 1])
                                        ELSE SettledEntries[s]]
    <2>1. ASSUME NEW s \in Sinks
          PROVE  EntriesOf(settled'[s]) =
                   IF s \in S THEN Append(SettledEntries[s],
                                          accepted[Len(SettledEntries[s]) + 1])
                              ELSE SettledEntries[s]
      <3>1. settled[s] \in Seq(Settlements)
        BY <1>1 DEF TypeOK
      <3>2. SettledEntries[s] = EntriesOf(settled[s])
        BY <1>1, BacklogOf
      <3>3. Len(EntriesOf(settled[s])) = Len(settled[s])
        BY <3>1 DEF EntriesOf
      <3>4. CASE s \in S
        <4>1. settled'[s] = Append(settled[s], Settlement(e, o))
          BY <3>4
        <4>2. EntriesOf(settled'[s]) = Append(EntriesOf(settled[s]), e)
          BY <3>1, <4>1, <1>4, EntriesOfAppend
        <4> QED
          BY <3>2, <3>3, <3>4, <4>2
      <3>5. CASE s \notin S
        BY <3>2, <3>5
      <3> QED
        BY <3>4, <3>5
    <2> QED
      BY <2>1 DEF SettledEntries, EntriesOf
  <1>6. Delivery!Settle(S)
    BY <1>2, <1>3, <1>5 DEF Delivery!Settle
  <1> QED
    BY <1>6 DEF Delivery!Next

\* Initial states map to initial states.
LEMMA InitRefines == Init => Delivery!Init
  BY DEF Init, Delivery!Init, SettledEntries, PhaseOf

\* A Log call is accepted, or lost behind a sink with a full queue to settle.
LEMMA LogRefines == IInv /\ Log => Delivery!Next
  <1> SUFFICES ASSUME IInv, Log PROVE Delivery!Next
    OBVIOUS
  <1>1. TypeOK /\ Accounts /\ SettledUpTo
    BY DEF IInv
  <1>2. /\ UNCHANGED <<settled, main, closeResults>> /\ main = "running"
        /\ logged' = logged + 1
    BY DEF Log, workerVars
  <1>3. SettledEntries' = SettledEntries /\ PhaseOf' = "open" /\ PhaseOf = "open"
    BY <1>2 DEF SettledEntries, PhaseOf
  <1>4. \A s \in Sinks : /\ Delivery!Backlog(s) >= Len(entries)
                         /\ Delivery!Backlog(s) <= Len(entries) + 1
    <2> SUFFICES ASSUME NEW s \in Sinks
                 PROVE  /\ Delivery!Backlog(s) >= Len(entries)
                        /\ Delivery!Backlog(s) <= Len(entries) + 1
      OBVIOUS
    <2>1. Len(entries) \in Nat /\ Len(accepted) \in Nat
      BY <1>1 DEF TypeOK
    <2>2. \/ Len(settled[s]) = Len(accepted) - Len(entries)
          \/ Len(settled[s]) = Len(accepted) - Len(entries) - 1
      BY <1>1 DEF SettledUpTo, Taken
    <2>3. Delivery!Backlog(s) = Len(accepted) - Len(settled[s])
      BY <1>1, BacklogOf
    <2>4. CASE Len(settled[s]) = Len(accepted) - Len(entries)
      BY <2>1, <2>3, <2>4
    <2>5. CASE Len(settled[s]) = Len(accepted) - Len(entries) - 1
      BY <2>1, <2>3, <2>5
    <2> QED
      BY <2>2, <2>4, <2>5
  <1>5. Len(entries) \in Nat /\ QueueSize \in Nat /\ 1 \in Sinks
    BY <1>1 DEF TypeOK, Sinks
  <1>6. CASE Len(entries) < QueueSize /\ accepted' = Append(accepted, logged')
             /\ UNCHANGED dropped
    <2>1. \A s \in Sinks : Delivery!Backlog(s) <= QueueSize
      <3>1. \A s \in Sinks : Delivery!Backlog(s) \in Int
        BY <1>1, BacklogOf
      <3> QED
        BY <3>1, <1>4, <1>5, <1>6
    <2>2. accepted' = Append(accepted, Len(accepted) + dropped + 1)
      BY <1>1, <1>2, <1>6 DEF Accounts
    <2>3. Delivery!Accept
      BY <1>3, <1>6, <2>1, <2>2 DEF Delivery!Accept
    <2> QED
      BY <2>3 DEF Delivery!Next
  <1>7. CASE Len(entries) = QueueSize /\ dropped' = dropped + 1 /\ UNCHANGED accepted
    <2>1. \E s \in Sinks : Delivery!Backlog(s) >= QueueSize
      BY <1>4, <1>5, <1>7
    <2>2. Delivery!Lose
      BY <1>3, <1>7, <2>1 DEF Delivery!Lose
    <2> QED
      BY <2>2 DEF Delivery!Next
  <1> QED
    BY <1>6, <1>7 DEF Log

\* Close starts, then finishes with nothing to settle or gives up; the end of the
\* process is the abstract Leave; a second Close is a stutter.
LEMMA CloseRefines ==
  IInv /\ (BeginClose \/ CloseReturn \/ CloseAgain \/ Exit \/ Killed)
    => [Delivery!Next]_Delivery!vars
  <1> SUFFICES ASSUME IInv, BeginClose \/ CloseReturn \/ CloseAgain \/ Exit \/ Killed
               PROVE  [Delivery!Next]_Delivery!vars
    OBVIOUS
  <1> USE DEF CloseReturn, FlushDone, FlushTimeout, CloseReturnsWith,
              BeginClose, CloseAgain, Exit, Killed, chanVars, workerVars
  <1>1. UNCHANGED <<accepted, dropped, settled>>
    OBVIOUS
  <1>2. SettledEntries' = SettledEntries
    BY <1>1 DEF SettledEntries
  <1>3. CASE BeginClose
    BY <1>1, <1>2, <1>3 DEF PhaseOf, Delivery!Next, Delivery!StartClosing
  <1>4. CASE FlushDone
    <2>1. closeResults' = Append(<<>>, "nil") /\ main = "flushing" /\ main' = "closed"
      BY <1>4 DEF IInv, Accounts
    <2>2. PhaseOf = "closing" /\ PhaseOf' = "flushed"
      BY <2>1 DEF PhaseOf
    <2>3. worker = "done" /\ entries = <<>>
      BY <1>4 DEF IInv, SinksClose
    <2>4. TypeOK /\ \A s \in Sinks : Len(settled[s]) = Len(accepted)
      BY <2>3 DEF IInv, SettledUpTo, Taken, TypeOK
    <2>5. \A s \in Sinks : Delivery!Backlog(s) = 0
      BY <2>4, BacklogOf
    <2>6. Delivery!Finish
      BY <1>1, <1>2, <2>2, <2>5 DEF Delivery!Finish
    <2> QED
      BY <2>6 DEF Delivery!Next
  <1>5. CASE FlushTimeout
    <2>1. closeResults' = Append(<<>>, "timeout") /\ main = "flushing" /\ main' = "closed"
      BY <1>5 DEF IInv, Accounts
    <2>2. PhaseOf = "closing" /\ PhaseOf' = "gaveUp"
      BY <2>1 DEF PhaseOf
    <2> QED
      BY <1>1, <1>2, <2>2 DEF Delivery!Next, Delivery!GiveUp
  <1>6. CASE CloseAgain
    <2>1. closeResults \in Seq({"nil", "timeout"}) /\ closeResults # <<>>
      BY <1>6 DEF IInv, TypeOK, Accounts
    <2>2. closeResults'[1] = closeResults[1]
      BY <1>6, <2>1, AppendProperties
    <2>3. PhaseOf' = PhaseOf
      BY <1>6, <2>2 DEF PhaseOf
    <2> QED
      BY <1>1, <1>2, <2>3 DEF Delivery!vars
  <1>7. CASE Exit \/ Killed
    <2>1. PhaseOf' = "gone" /\ PhaseOf # "gone"
      BY <1>7 DEF PhaseOf
    <2> QED
      BY <1>1, <1>2, <2>1 DEF Delivery!Next, Delivery!Leave
  <1> QED
    BY <1>3, <1>4, <1>5, <1>6, <1>7

\* An entry that cannot be encoded settles for every sink at once; taking one
\* that can be is a stutter.
LEMMA ReceiveRefines == IInv /\ Receive => [Delivery!Next]_Delivery!vars
  <1> SUFFICES ASSUME IInv, Receive PROVE [Delivery!Next]_Delivery!vars
    OBVIOUS
  <1>1. /\ UNCHANGED <<accepted, dropped, main, closeResults>>
        /\ main # "exited" /\ worker = "receive"
    BY DEF Receive, mainVars, Alive
  <1>2. CASE UNCHANGED settled
    <2>1. SettledEntries' = SettledEntries /\ PhaseOf' = PhaseOf
      BY <1>1, <1>2 DEF SettledEntries, PhaseOf
    <2> QED
      BY <1>1, <2>1 DEF Delivery!vars
  <1>3. CASE settled' = [s \in Sinks |->
                           Append(settled[s], Settlement(current', "unencoded"))]
    <2>1. entries \in Seq(1..MaxEntries) /\ entries # <<>> /\ current' = Head(entries)
          /\ Len(accepted) \in Nat
      BY DEF Receive, IInv, TypeOK
    <2>2. /\ current' \in 1..MaxEntries /\ current' = entries[1]
          /\ Len(entries) \in Nat /\ Len(entries) >= 1
      BY <2>1, HeadTailProperties
    <2>3. /\ current' = accepted[Len(accepted) - Len(entries) + 1]
          /\ Len(entries) <= Len(accepted)
      <3>1. Len(entries) <= Len(accepted) /\ entries[1] = accepted[Taken + 1]
        BY <2>2 DEF IInv, QueueIsTail
      <3> QED
        BY <2>2, <3>1 DEF Taken
    <2>4. \A s \in Sinks : Len(settled[s]) = Len(accepted) - Len(entries)
      <3>1. \A s \in Sinks : Len(settled[s]) = Taken
        BY <1>1 DEF IInv, SettledUpTo
      <3> QED
        BY <3>1 DEF Taken
    <2>5. \A s \in Sinks : /\ Len(settled[s]) < Len(accepted)
                           /\ current' = accepted[Len(settled[s]) + 1]
      <3>1. Len(accepted) - Len(entries) < Len(accepted)
        BY <2>1, <2>2
      <3>2. SUFFICES ASSUME NEW s \in Sinks
                     PROVE  /\ Len(settled[s]) < Len(accepted)
                            /\ current' = accepted[Len(settled[s]) + 1]
        OBVIOUS
      <3>3. Len(settled[s]) = Len(accepted) - Len(entries)
        BY <2>4
      <3> QED
        BY <2>3, <3>1, <3>3
    <2>6. Sinks # {} /\ Sinks \in SUBSET Sinks /\ "unencoded" \in Outcomes
      <3>1. 1 \in Sinks
        BY DEF Sinks
      <3>2. "unencoded" \in Outcomes
        BY DEF Outcomes
      <3> QED
        BY <3>1, <3>2, Zenon
    <2>7. settled' = [s \in Sinks |->
                        IF s \in Sinks THEN Append(settled[s], Settlement(current', "unencoded"))
                                       ELSE settled[s]]
      BY <1>3
    <2> QED
      BY <1>1, <2>2, <2>5, <2>6, <2>7, SettleStep
  <1> QED
    BY <1>2, <1>3 DEF Receive

\* One sink's write settles one entry for that sink.
LEMMA WriteSinkRefines == IInv /\ WriteSink => Delivery!Next
  <1> SUFFICES ASSUME IInv, WriteSink PROVE Delivery!Next
    OBVIOUS
  <1>1. /\ UNCHANGED <<accepted, dropped, main, closeResults>>
        /\ main # "exited" /\ worker = "write" /\ sinkAt \in Sinks
        /\ settled \in [Sinks -> Seq(Settlements)]
    BY DEF WriteSink, mainVars, chanVars, Alive, IInv, TypeOK
  <1>2. PICK o \in {"written", "failed"} :
          settled' = [settled EXCEPT ![sinkAt] = Append(@, Settlement(current, o))]
    BY DEF WriteSink
  <1>3. settled' = [s \in Sinks |->
                      IF s \in {sinkAt} THEN Append(settled[s], Settlement(current, o))
                                        ELSE settled[s]]
    BY <1>1, <1>2
  <1>4. /\ Taken >= 1 /\ Taken <= Len(accepted) /\ Taken \in Nat
        /\ accepted \in Seq(1..MaxEntries) /\ Len(accepted) \in Nat
        /\ current = accepted[Taken] /\ sinkAt \in Nat
    BY <1>1, WhileWriting DEF Sinks
  <1>5. Len(settled[sinkAt]) = Taken - 1
    BY <1>1, <1>4 DEF IInv, SettledUpTo
  <1>6. current \in 1..MaxEntries
    BY <1>4
  <1>7. \A s \in {sinkAt} : /\ Len(settled[s]) < Len(accepted)
                            /\ current = accepted[Len(settled[s]) + 1]
    BY <1>4, <1>5
  <1>8. {sinkAt} \in SUBSET Sinks /\ {sinkAt} # {} /\ o \in Outcomes
    BY <1>1 DEF Outcomes
  <1> QED
    BY <1>1, <1>3, <1>6, <1>7, <1>8, SettleStep

\* Closing the sinks is invisible to the callers' promise.
LEMMA CloseSinksRefine == RangeEnds \/ CloseSink => UNCHANGED Delivery!vars
  BY DEF RangeEnds, CloseSink, chanVars, mainVars, Delivery!vars, SettledEntries, PhaseOf

\* Every promise of LogDelivery is kept: whatever the sinks do, each accepted
\* entry is settled once by every sink, in order, none is refused while there is
\* room, and Close returns nil only when nothing is left.
THEOREM LoggerImplementsDelivery == Spec => DeliversLog
  <1>1. IInv /\ [Next]_vars => [Delivery!Next]_Delivery!vars
    <2> SUFFICES ASSUME IInv, [Next]_vars PROVE [Delivery!Next]_Delivery!vars
      OBVIOUS
    <2>1. CASE Main
      BY <2>1, LogRefines, CloseRefines DEF Main
    <2>2. CASE Worker
      BY <2>2, ReceiveRefines, WriteSinkRefines, CloseSinksRefine DEF Worker
    <2>3. CASE UNCHANGED vars
      BY <2>3 DEF vars, chanVars, workerVars, mainVars, Delivery!vars,
                  SettledEntries, PhaseOf
    <2> QED
      BY <2>1, <2>2, <2>3 DEF Next
  <1> QED
    BY <1>1, InitRefines, Invariance, PTL DEF Spec, DeliversLog, Delivery!Spec
=============================================================================
