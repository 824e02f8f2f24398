----------------------------- MODULE SyslogSink -----------------------------
(***************************************************************************)
(* syslogSink over TCP (src/internal/pipery/sinks.go): the connection is   *)
(* opened by the first Write that needs it; a Write whose send fails       *)
(* closes it, dials once more and sends once more. The logger's worker is  *)
(* the only caller, so the mutex is never contended.                       *)
(*                                                                         *)
(* A message is the number of the Write that carries it. A send either     *)
(* puts the whole message into the connection, or fails (a deadline, a     *)
(* reset) after a part of it; what the network does with bytes the kernel  *)
(* has accepted is not psh's to know and is left out.                      *)
(***************************************************************************)
EXTENDS Naturals, FiniteSets, SequencesExt

CONSTANT MaxMessages  \* BOUND: Write calls in one behaviour

ASSUME MaxMessagesAssumption == MaxMessages \in Nat

VARIABLES
  conn,     \* s.conn: which connection, 0 for nil
  at,       \* where Write is: "idle", "dial", "send", or "closed" after Close
  attempt,  \* the send that Write is at, 1 or 2
  streams,  \* history: what each connection carried, as [msg, whole]
  opened,   \* connections whose Close has not been called
  results   \* history: what each Write returned

vars == <<conn, at, attempt, streams, opened, results>>

\* The message being written.
Message == Len(results) + 1

Init ==
  /\ conn = 0 /\ at = "idle" /\ attempt = 1
  /\ streams = <<>> /\ opened = {} /\ results = <<>>

-----------------------------------------------------------------------------
Return(result) ==
  /\ at' = "idle"
  /\ results' = Append(results, result)

Carry(frame) ==
  streams' = [streams EXCEPT ![conn] = Append(@, frame)]

\* Write, then ensureConn: an open connection is used again.
BeginWrite ==
  /\ at = "idle" /\ Len(results) < MaxMessages
  /\ attempt' = 1
  /\ at' = IF conn = 0 THEN "dial" ELSE "send"
  /\ UNCHANGED <<conn, streams, opened, results>>

\* ensureConn without a connection.
Dial ==
  /\ at = "dial"
  /\ streams' = Append(streams, <<>>)
  /\ conn' = Len(streams')
  /\ opened' = opened \cup {conn'}
  /\ at' = "send"
  /\ UNCHANGED <<attempt, results>>

DialFails ==
  /\ at = "dial"
  /\ Return("error")
  /\ UNCHANGED <<conn, attempt, streams, opened>>

\* The kernel takes the whole message.
SendForgetsToReturn ==
  /\ at = "send"
  /\ Carry([msg |-> Message, whole |-> TRUE])
  /\ IF attempt = 1
       THEN /\ opened' = opened \ {conn} /\ conn' = 0
            /\ at' = "dial" /\ attempt' = 2 /\ UNCHANGED results
       ELSE Return("nil") /\ UNCHANGED <<conn, attempt, opened>>

Send ==
  /\ at = "send"
  /\ Carry([msg |-> Message, whole |-> TRUE])
  /\ Return("nil")
  /\ UNCHANGED <<conn, attempt, opened>>

\* The send fails, some of the message having gone or none. The first time the
\* connection is closed and dialled again; the second time the error is returned.
SendFailsRetriesForEver ==
  /\ at = "send"
  /\ Carry([msg |-> Message, whole |-> FALSE]) \/ UNCHANGED streams
  /\ opened' = opened \ {conn} /\ conn' = 0
  /\ attempt' = attempt + 1 /\ at' = "dial"
  /\ UNCHANGED results

SendFailsLeaking ==
  /\ at = "send"
  /\ Carry([msg |-> Message, whole |-> FALSE]) \/ UNCHANGED streams
  /\ \/ /\ attempt = 1
        /\ conn' = 0
        /\ attempt' = 2 /\ at' = "dial"
        /\ UNCHANGED <<results, opened>>
     \/ /\ attempt = 2
        /\ Return("error")
        /\ UNCHANGED <<conn, attempt, opened>>

SendFails ==
  /\ at = "send"
  /\ Carry([msg |-> Message, whole |-> FALSE]) \/ UNCHANGED streams
  /\ \/ /\ attempt = 1
        /\ opened' = opened \ {conn} /\ conn' = 0
        /\ attempt' = 2 /\ at' = "dial"
        /\ UNCHANGED results
     \/ /\ attempt = 2
        /\ Return("error")
        /\ UNCHANGED <<conn, attempt, opened>>

\* SetWriteDeadline fails: the error is returned at once.
DeadlineFails ==
  /\ at = "send"
  /\ Return("error")
  /\ UNCHANGED <<conn, attempt, streams, opened>>

\* Close, by closeSinks after the last Write.
Close ==
  /\ at = "idle"
  /\ at' = "closed"
  /\ opened' = opened \ {conn} /\ conn' = 0
  /\ UNCHANGED <<attempt, streams, results>>

Next == BeginWrite \/ Dial \/ DialFails \/ Send \/ SendFails \/ DeadlineFails \/ Close

Spec == Init /\ [][Next]_vars

-----------------------------------------------------------------------------
\* Type correctness of the connection, its histories and the retry counter.
TypeOK ==
  /\ conn \in 0..Len(streams) /\ Len(streams) <= 2 * MaxMessages
  /\ at \in {"idle", "dial", "send", "closed"} /\ attempt \in {1, 2}
  /\ \A c \in 1..Len(streams) :
       streams[c] \in Seq([msg : 1..MaxMessages, whole : BOOLEAN])
  /\ opened \subseteq 1..Len(streams)
  /\ results \in Seq({"nil", "error"}) /\ Len(results) <= MaxMessages

\* Where a message or a part of one lies, [connection, place on it], and in which
\* order they went out.
Places  == UNION {{c} \X DOMAIN streams[c] : c \in DOMAIN streams}
Before(p, q) == p[1] < q[1] \/ (p[1] = q[1] /\ p[2] < q[2])
FrameAt(p)   == streams[p[1]][p[2]]
Received     == {p \in Places : FrameAt(p).whole}

\* The collector is sent exactly the messages whose Write returned nil, each once
\* and in order: the retry duplicates nothing, and a reported failure is one.
SentOnceInOrder ==
  /\ {FrameAt(p).msg : p \in Received} = {m \in DOMAIN results : results[m] = "nil"}
  /\ \A p, q \in Received : Before(p, q) => FrameAt(p).msg < FrameAt(q).msg

\* At most one connection is open, the one the next Write will use, and Close
\* leaves none: failures leak no descriptor.
NoConnectionLeaks ==
  /\ opened = IF conn = 0 THEN {} ELSE {conn}
  /\ at = "closed" => opened = {}

\* "If a write fails, we close the connection": nothing follows a part of a
\* message on the connection that carried it, where it would be read as one line.
PartialMessageEndsStream ==
  \A c \in 1..Len(streams) :
    \A i \in 1..(Len(streams[c]) - 1) : streams[c][i].whole
=============================================================================
