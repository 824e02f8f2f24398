--------------------------- MODULE SyslogSinkProofs ---------------------------
(***************************************************************************)
(* What a syslogSink sends and on which connections, for any number of     *)
(* messages and any failures.                                              *)
(***************************************************************************)
EXTENDS SyslogSink, SequenceTheorems, TLAPS

USE MaxMessagesAssumption

Frames  == [msg : 1..MaxMessages, whole : BOOLEAN]
Results == {"nil", "error"}

Types ==
  /\ at \in {"idle", "dial", "send", "closed"} /\ attempt \in {1, 2}
  /\ streams \in Seq(Seq(Frames)) /\ conn \in 0..Len(streams)
  /\ results \in Seq(Results) /\ Len(results) <= MaxMessages

\* Write sends on the latest connection and dials only without one; it has a message left to
\* account for; and it has dialled at most once for each attempt.
Attempts ==
  /\ at = "send" => conn # 0
  /\ conn # 0 => conn = Len(streams)
  /\ at \in {"dial", "closed"} => conn = 0
  /\ at \in {"dial", "send"} => Len(results) < MaxMessages
  /\ Len(streams) <= 2 * Len(results) +
       (IF at = "dial" THEN attempt - 1 ELSE IF at = "send" THEN attempt ELSE 0)

OpenedIsConn == opened = IF conn = 0 THEN {} ELSE {conn}

IInv == Types /\ Attempts /\ OpenedIsConn

-----------------------------------------------------------------------------
\* The initial state satisfies the invariant.
LEMMA InitIInv == Init => IInv
  <1> SUFFICES ASSUME Init PROVE IInv
    OBVIOUS
  <1>1. streams = <<>> /\ streams \in Seq(Seq(Frames)) /\ Len(streams) = 0
    BY DEF Init
  <1>2. results = <<>> /\ results \in Seq(Results) /\ Len(results) = 0
    BY DEF Init
  <1> QED
    BY <1>1, <1>2 DEF Init, IInv, Types, Attempts, OpenedIsConn

\* A result adds one to what Write has returned.
LEMMA ReturnFacts ==
  ASSUME Types, NEW result \in Results, Return(result)
  PROVE  /\ at' = "idle" /\ results' \in Seq(Results)
         /\ Len(results') = Len(results) + 1 /\ Len(results) \in Nat
  BY DEF Return, Types

\* Putting a frame on the connection leaves as many of them.
LEMMA CarryFacts ==
  ASSUME IInv, at = "send", NEW whole \in BOOLEAN, Carry([msg |-> Message, whole |-> whole])
  PROVE  streams' \in Seq(Seq(Frames)) /\ Len(streams') = Len(streams)
  <1>1. conn \in 1..Len(streams) /\ streams \in Seq(Seq(Frames)) /\ Len(streams) \in Nat
    BY DEF IInv, Types, Attempts
  <1>2. Message \in 1..MaxMessages
    BY DEF IInv, Types, Attempts, Message
  <1>3. [msg |-> Message, whole |-> whole] \in Frames
    BY <1>2 DEF Frames
  <1>4. streams[conn] \in Seq(Frames)
    BY <1>1
  <1>5. Append(streams[conn], [msg |-> Message, whole |-> whole]) \in Seq(Frames)
    BY <1>3, <1>4
  <1> QED
    BY <1>1, <1>5, ExceptSeq DEF Carry

\* It comes after all the others, which stay where and what they are.
LEMMA CarryPlaces ==
  ASSUME IInv, at = "send", NEW whole \in BOOLEAN, Carry([msg |-> Message, whole |-> whole]),
         NEW new, new = <<conn, Len(streams[conn]) + 1>>
  PROVE  /\ Places' = Places \cup {new} /\ new \notin Places
         /\ \A p \in Places : FrameAt(p)' = FrameAt(p) /\ Before(p, new) /\ ~Before(new, p)
         /\ FrameAt(new)' = [msg |-> Message, whole |-> whole]
  <1> DEFINE frame == [msg |-> Message, whole |-> whole]
  <1>1. /\ conn \in 1..Len(streams) /\ conn = Len(streams) /\ streams \in Seq(Seq(Frames))
        /\ Len(streams) \in Nat /\ DOMAIN streams = 1..Len(streams)
    BY DEF IInv, Types, Attempts
  <1>2. \A c \in 1..Len(streams) : Len(streams[c]) \in Nat /\ DOMAIN streams[c] = 1..Len(streams[c])
    BY <1>1
  <1>3. Message \in 1..MaxMessages
    BY DEF IInv, Types, Attempts, Message
  <1>4. frame \in Frames
    BY <1>3 DEF Frames
  <1>5. streams[conn] \in Seq(Frames)
    BY <1>1
  <1> DEFINE old == streams[conn]
             n   == Len(old)
             longer == Append(old, frame)
  <1>6. n \in Nat /\ DOMAIN longer = 1..(n + 1) /\ longer[n + 1] = frame
        /\ \A i \in 1..n : longer[i] = old[i]
    BY <1>4, <1>5
  <1>7. /\ streams' = [streams EXCEPT ![conn] = longer]
        /\ DOMAIN streams' = DOMAIN streams /\ streams'[conn] = longer
        /\ \A c \in DOMAIN streams : c # conn => streams'[c] = streams[c]
    BY <1>1 DEF Carry
  <1>8. new[1] = conn /\ new[2] = n + 1
    OBVIOUS
  <1>9. ASSUME NEW p
        PROVE  p \in Places <=> \E c \in DOMAIN streams : \E i \in DOMAIN streams[c] : p = <<c, i>>
    BY DEF Places
  <1>10. ASSUME NEW p
         PROVE  p \in Places' <=> \E c \in DOMAIN streams' : \E i \in DOMAIN streams'[c] : p = <<c, i>>
    BY DEF Places
  <1> HIDE DEF longer, n, old
  <1>11. new = <<conn, n + 1>> /\ DOMAIN streams[conn] = 1..n
    BY <1>1, <1>2 DEF n, old
  <1>12. ASSUME NEW p PROVE p \in Places' <=> p \in Places \/ p = new
    <2>1. ASSUME NEW c \in DOMAIN streams, c # conn, NEW i
          PROVE  i \in DOMAIN streams'[c] <=> i \in DOMAIN streams[c]
      BY <1>7, <2>1
    <2>2. ASSUME NEW i PROVE i \in DOMAIN streams'[conn] <=> i \in DOMAIN streams[conn] \/ i = n + 1
      BY <1>6, <1>7, <1>11
    <2>3. ASSUME p \in Places' PROVE p \in Places \/ p = new
      <3>1. PICK c \in DOMAIN streams' : \E i \in DOMAIN streams'[c] : p = <<c, i>>
        BY <1>10, <2>3
      <3>2. PICK i \in DOMAIN streams'[c] : p = <<c, i>>
        BY <3>1
      <3> QED
        BY <1>7, <1>9, <1>11, <2>1, <2>2, <3>2
    <2>4. ASSUME p \in Places PROVE p \in Places'
      <3>1. PICK c \in DOMAIN streams : \E i \in DOMAIN streams[c] : p = <<c, i>>
        BY <1>9, <2>4
      <3>2. PICK i \in DOMAIN streams[c] : p = <<c, i>>
        BY <3>1
      <3> QED
        BY <1>7, <1>10, <2>1, <2>2, <3>2
    <2>5. new \in Places'
      <3>1. conn \in DOMAIN streams' /\ n + 1 \in DOMAIN streams'[conn]
        BY <1>1, <1>7, <2>2
      <3>2. \E c \in DOMAIN streams' : \E i \in DOMAIN streams'[c] : new = <<c, i>>
        BY <1>11, <3>1
      <3> QED
        BY <1>10, <3>2
    <2> QED
      BY <2>3, <2>4, <2>5
  <1>13. new \notin Places
    BY <1>6, <1>9, <1>11
  <1>14. ASSUME NEW p \in Places
         PROVE  FrameAt(p)' = FrameAt(p) /\ Before(p, new) /\ ~Before(new, p)
    <2>1. PICK c \in DOMAIN streams : \E i \in DOMAIN streams[c] : p = <<c, i>>
      BY <1>9
    <2>2. PICK i \in DOMAIN streams[c] : p = <<c, i>>
      BY <2>1
    <2>3. p[1] = c /\ p[2] = i
      BY <2>2
    <2>4. c \in 1..conn /\ i \in 1..Len(streams[c])
      BY <1>1, <1>2
    <2>5. CASE c = conn
      <3>1. i \in 1..n
        BY <1>11, <2>5
      <3> QED
        BY <1>6, <1>7, <1>8, <2>3, <2>5, <3>1 DEF FrameAt, Before, old
    <2>6. CASE c # conn
      BY <1>1, <1>7, <1>8, <2>3, <2>4, <2>6 DEF FrameAt, Before
    <2> QED
      BY <2>5, <2>6
  <1>15. FrameAt(new)' = frame
    BY <1>6, <1>7, <1>8 DEF FrameAt
  <1> QED
    BY <1>12, <1>13, <1>14, <1>15

\* Each step of Write, and Close, preserves the invariant.
LEMMA NextIInv == IInv /\ [Next]_vars => IInv'
  <1> SUFFICES ASSUME IInv, [Next]_vars PROVE IInv'
    OBVIOUS
  <1> USE DEF IInv
  <1>0. Len(results) \in Nat /\ Len(streams) \in Nat /\ conn \in Nat
        /\ "nil" \in Results /\ "error" \in Results
    BY DEF Types, Results
  <1>1. CASE BeginWrite
    BY <1>1, <1>0 DEF BeginWrite, Types, Attempts, OpenedIsConn
  <1>2. CASE Dial
    <2>1. /\ streams' = Append(streams, <<>>) /\ conn' = Len(streams')
          /\ opened' = opened \cup {conn'} /\ at' = "send" /\ at = "dial"
          /\ UNCHANGED <<attempt, results>>
      BY <1>2 DEF Dial
    <2>2. streams' \in Seq(Seq(Frames)) /\ Len(streams') = Len(streams) + 1
      BY <2>1, <1>0 DEF Types
    <2>3. opened' = {conn'} /\ conn' # 0 /\ conn' \in 0..Len(streams')
      BY <2>1, <2>2, <1>0 DEF Attempts, OpenedIsConn
    <2> QED
      BY <2>1, <2>2, <2>3, <1>0 DEF Types, Attempts, OpenedIsConn
  <1>3. CASE DialFails
    <2>1. Return("error") /\ at = "dial" /\ UNCHANGED <<conn, attempt, streams, opened>>
      BY <1>3 DEF DialFails
    <2> QED
      BY <2>1, <1>0, ReturnFacts DEF Types, Attempts, OpenedIsConn
  <1>4. CASE Send
    <2>1. streams' \in Seq(Seq(Frames)) /\ Len(streams') = Len(streams)
      BY <1>4, CarryFacts DEF Send
    <2>2. Return("nil") /\ at = "send" /\ UNCHANGED <<conn, attempt, opened>>
      BY <1>4 DEF Send
    <2> QED
      BY <1>0, <2>1, <2>2, ReturnFacts DEF Types, Attempts, OpenedIsConn
  <1>5. CASE SendFails
    <2>1. streams' \in Seq(Seq(Frames)) /\ Len(streams') = Len(streams)
      <3>1. CASE UNCHANGED streams
        BY <3>1 DEF Types
      <3>2. CASE Carry([msg |-> Message, whole |-> FALSE])
        BY <1>5, <3>2, CarryFacts DEF SendFails
      <3> QED
        BY <1>5, <3>1, <3>2 DEF SendFails
    <2>2. \/ /\ at = "send" /\ attempt = 1 /\ opened' = opened \ {conn} /\ conn' = 0
             /\ attempt' = 2 /\ at' = "dial" /\ UNCHANGED results
          \/ /\ at = "send" /\ attempt = 2
             /\ Return("error") /\ UNCHANGED <<conn, attempt, opened>>
      BY <1>5 DEF SendFails
    <2> QED
      BY <1>0, <2>1, <2>2, ReturnFacts DEF Types, Attempts, OpenedIsConn
  <1>6. CASE DeadlineFails
    <2>1. Return("error") /\ at = "send" /\ UNCHANGED <<conn, attempt, streams, opened>>
      BY <1>6 DEF DeadlineFails
    <2> QED
      BY <2>1, <1>0, ReturnFacts DEF Types, Attempts, OpenedIsConn
  <1>7. CASE Close
    BY <1>7, <1>0 DEF Close, Types, Attempts, OpenedIsConn
  <1>8. CASE UNCHANGED vars
    BY <1>8 DEF vars, Types, Attempts, OpenedIsConn
  <1> QED
    BY <1>1, <1>2, <1>3, <1>4, <1>5, <1>6, <1>7, <1>8 DEF Next

\* Every reachable state satisfies the invariant.
THEOREM Invariance == Spec => []IInv
  BY InitIInv, NextIInv, PTL DEF Spec

\* Type correctness, with at most two dials for each message.
THEOREM TypeCorrect == Spec => []TypeOK
  <1>1. IInv => TypeOK
    <2> SUFFICES ASSUME IInv PROVE TypeOK
      OBVIOUS
    <2>1. Len(streams) \in Nat /\ Len(results) \in Nat
      BY DEF IInv, Types
    <2>2. Len(streams) <= 2 * MaxMessages
      BY <2>1 DEF IInv, Types, Attempts
    <2>3. \A c \in 1..Len(streams) : streams[c] \in Seq(Frames)
      BY DEF IInv, Types
    <2>4. opened \subseteq 1..Len(streams)
      BY <2>1 DEF IInv, Types, OpenedIsConn
    <2> QED
      BY <2>2, <2>3, <2>4 DEF IInv, Types, TypeOK, Frames, Results
  <1> QED
    BY <1>1, Invariance, PTL

\* A step that sends no whole message and returns no nil keeps the order.
LEMMA NothingArrives ==
  ASSUME IInv, SentOnceInOrder, Received' = Received,
         \A p \in Received : FrameAt(p)' = FrameAt(p),
         UNCHANGED results \/ Return("error")
  PROVE  SentOnceInOrder'
  <1>1. {m \in DOMAIN results' : results'[m] = "nil"} = {m \in DOMAIN results : results[m] = "nil"}
    <2>1. CASE UNCHANGED results
      BY <2>1
    <2>2. CASE Return("error")
      <3>1. results \in Seq(Results) /\ results' = Append(results, "error")
        BY <2>2 DEF IInv, Types, Return
      <3>2. /\ DOMAIN results = 1..Len(results) /\ DOMAIN results' = 1..(Len(results) + 1)
            /\ results'[Len(results) + 1] = "error" /\ Len(results) \in Nat
            /\ \A m \in 1..Len(results) : results'[m] = results[m]
        BY <3>1
      <3> QED
        BY <3>2
    <2> QED
      BY <2>1, <2>2
  <1>2. \A p, q : Before(p, q)' <=> Before(p, q)
    BY DEF Before
  <1> QED
    BY <1>1, <1>2 DEF SentOnceInOrder

\* The whole message that is sent is the one whose nil is returned, and the last.
LEMMA SendKeepsOrder == IInv /\ SentOnceInOrder /\ Send => SentOnceInOrder'
  <1> SUFFICES ASSUME IInv, SentOnceInOrder, Send PROVE SentOnceInOrder'
    OBVIOUS
  <1>0. PICK new : new = <<conn, Len(streams[conn]) + 1>>
    OBVIOUS
  <1>1. at = "send" /\ Carry([msg |-> Message, whole |-> TRUE]) /\ results' = Append(results, "nil")
    BY DEF Send, Return
  <1>2. /\ Places' = Places \cup {new} /\ new \notin Places
        /\ \A p \in Places : FrameAt(p)' = FrameAt(p) /\ Before(p, new) /\ ~Before(new, p)
        /\ FrameAt(new)' = [msg |-> Message, whole |-> TRUE]
    BY <1>0, <1>1, CarryPlaces
  <1>3. Received' = Received \cup {new} /\ Received \subseteq Places
    BY <1>2 DEF Received
  <1>4. /\ Len(results) \in Nat /\ DOMAIN results = 1..Len(results)
        /\ DOMAIN results' = 1..(Len(results) + 1) /\ results'[Len(results) + 1] = "nil"
        /\ \A m \in 1..Len(results) : results'[m] = results[m]
    BY <1>1 DEF IInv, Types
  <1>5. FrameAt(new)'.msg = Len(results) + 1
    BY <1>2 DEF Message
  <1>6. \A p \in Received : FrameAt(p)' = FrameAt(p) /\ FrameAt(p).msg \in 1..Len(results)
    BY <1>2, <1>3, <1>4 DEF SentOnceInOrder
  <1>7. {m \in DOMAIN results' : results'[m] = "nil"} =
          {m \in DOMAIN results : results[m] = "nil"} \cup {Len(results) + 1}
    BY <1>4
  <1>8. {FrameAt(p)'.msg : p \in Received'} = {FrameAt(p).msg : p \in Received} \cup {Len(results) + 1}
    BY <1>3, <1>5, <1>6
  <1>9. Len(streams[conn]) \in Nat /\ conn \in Nat
    <2>1. conn \in 1..Len(streams) /\ streams \in Seq(Seq(Frames))
      BY <1>1 DEF IInv, Types, Attempts
    <2> QED
      BY <2>1
  <1>10. ~Before(new, new)
    BY <1>0, <1>9 DEF Before
  <1>11. \A p, q : Before(p, q)' <=> Before(p, q)
    BY DEF Before
  <1>12. ASSUME NEW p \in Received', NEW q \in Received', Before(p, q)
         PROVE  FrameAt(p)'.msg < FrameAt(q)'.msg
    <2>1. CASE q = new
      BY <1>3, <1>4, <1>5, <1>6, <1>10, <1>12, <2>1
    <2>2. CASE q # new
      BY <1>2, <1>3, <1>6, <1>12, <2>2 DEF SentOnceInOrder
    <2> QED
      BY <2>1, <2>2
  <1> QED
    BY <1>7, <1>8, <1>11, <1>12 DEF SentOnceInOrder

\* What arrives whole is what Write reported as sent, each message once, in order.
THEOREM SentOnce == Spec => []SentOnceInOrder
  <1>1. Init => SentOnceInOrder
    BY DEF Init, SentOnceInOrder, Received, Places
  <1>2. IInv /\ SentOnceInOrder /\ [Next]_vars => SentOnceInOrder'
    <2> SUFFICES ASSUME IInv, SentOnceInOrder, [Next]_vars PROVE SentOnceInOrder'
      OBVIOUS
    <2>1. CASE Send
      BY <2>1, SendKeepsOrder
    <2>2. CASE UNCHANGED streams /\ (UNCHANGED results \/ Return("error"))
      <3>1. Received' = Received /\ \A p \in Received : FrameAt(p)' = FrameAt(p)
        BY <2>2 DEF Received, Places, FrameAt
      <3> QED
        BY <2>2, <3>1, NothingArrives
    <2>3. CASE BeginWrite \/ DialFails \/ DeadlineFails \/ Close \/ UNCHANGED vars
      BY <2>2, <2>3 DEF BeginWrite, DialFails, DeadlineFails, Close, vars
    <2>4. CASE Dial
      <3>1. /\ streams \in Seq(Seq(Frames)) /\ streams' = Append(streams, <<>>)
            /\ Len(streams) \in Nat /\ UNCHANGED results
        BY <2>4 DEF Dial, IInv, Types
      <3>2. /\ DOMAIN streams = 1..Len(streams) /\ DOMAIN streams' = 1..(Len(streams) + 1)
            /\ streams'[Len(streams) + 1] = <<>>
            /\ \A c \in 1..Len(streams) : streams'[c] = streams[c]
        BY <3>1
      <3>3. ASSUME NEW p
            PROVE  p \in Places <=> \E c \in DOMAIN streams : \E i \in DOMAIN streams[c] : p = <<c, i>>
        BY DEF Places
      <3>4. ASSUME NEW p
            PROVE  p \in Places' <=> \E c \in DOMAIN streams' : \E i \in DOMAIN streams'[c] : p = <<c, i>>
        BY DEF Places
      <3>5. Places' = Places
        <4>1. ASSUME NEW p \in Places PROVE p \in Places'
          <5>1. PICK c \in DOMAIN streams : \E i \in DOMAIN streams[c] : p = <<c, i>>
            BY <3>3
          <5> QED
            BY <3>2, <3>4, <5>1
        <4>2. ASSUME NEW p \in Places' PROVE p \in Places
          <5>1. PICK c \in DOMAIN streams' : \E i \in DOMAIN streams'[c] : p = <<c, i>>
            BY <3>4
          <5> QED
            BY <3>2, <3>3, <5>1
        <4> QED
          BY <4>1, <4>2
      <3>6. \A p \in Places : FrameAt(p)' = FrameAt(p)
        BY <3>2, <3>3 DEF FrameAt
      <3>7. Received' = Received /\ Received \subseteq Places
        BY <3>5, <3>6 DEF Received
      <3> QED
        BY <3>1, <3>6, <3>7, NothingArrives
    <2>5. CASE SendFails
      <3>1. at = "send" /\ (UNCHANGED results \/ Return("error"))
        BY <2>5 DEF SendFails
      <3>2. CASE Carry([msg |-> Message, whole |-> FALSE])
        <4>0. PICK new : new = <<conn, Len(streams[conn]) + 1>>
          OBVIOUS
        <4>1. /\ Places' = Places \cup {new} /\ new \notin Places
              /\ \A p \in Places : FrameAt(p)' = FrameAt(p)
              /\ FrameAt(new)' = [msg |-> Message, whole |-> FALSE]
          BY <3>1, <3>2, <4>0, CarryPlaces
        <4>2. Received' = Received /\ \A p \in Received : FrameAt(p)' = FrameAt(p)
          BY <4>1 DEF Received
        <4> QED
          BY <3>1, <4>2, NothingArrives
      <3> QED
        BY <2>2, <2>5, <3>1, <3>2 DEF SendFails
    <2> QED
      BY <2>1, <2>3, <2>4, <2>5 DEF Next
  <1> QED
    BY <1>1, <1>2, Invariance, PTL DEF Spec

\* Whatever fails, the only open connection is the one the sink will use, and
\* Close leaves none.
THEOREM OneConnection == Spec => []NoConnectionLeaks
  <1>1. IInv => NoConnectionLeaks
    BY DEF IInv, Attempts, OpenedIsConn, NoConnectionLeaks
  <1> QED
    BY <1>1, Invariance, PTL
=============================================================================
