----------------------------- MODULE LogDelivery -----------------------------
(***************************************************************************)
(* What asyncLogger promises its callers, with the queue, the worker and   *)
(* sync.Once left out: an offered entry is either accepted or lost at      *)
(* once, it is lost only when some sink has a full queue's worth of        *)
(* entries before it, every sink settles (writes, or reports that it could *)
(* not) the accepted entries in the order they were accepted, and Close    *)
(* reports success only when nothing is left to settle. An entry is the    *)
(* number of the offer it came with.                                       *)
(***************************************************************************)
EXTENDS Naturals, Sequences

CONSTANTS Capacity,  \* entries the logger may hold without a sink settling one
          Sinks      \* destinations every accepted entry goes to

VARIABLES accepted,  \* entries the logger took responsibility for, in order
          lost,      \* how many offered entries it refused
          settled,   \* per sink, the entries dealt with, in order
          phase      \* where the application is with respect to Close

vars == <<accepted, lost, settled, phase>>

Phases == {"open", "closing", "flushed", "gaveUp", "gone"}

Backlog(s) == Len(accepted) - Len(settled[s])

Init ==
  /\ accepted = <<>>
  /\ lost = 0
  /\ settled = [s \in Sinks |-> <<>>]
  /\ phase = "open"

\* The caller's entry is taken: nobody is more than the queue, and the entry
\* in the worker's hands, behind.
Accept ==
  /\ phase = "open"
  /\ \A s \in Sinks : Backlog(s) <= Capacity
  /\ accepted' = Append(accepted, Len(accepted) + lost + 1)
  /\ UNCHANGED <<lost, settled, phase>>

\* The caller's entry is refused, and only because a sink is behind.
Lose ==
  /\ phase = "open"
  /\ \E s \in Sinks : Backlog(s) >= Capacity
  /\ lost' = lost + 1
  /\ UNCHANGED <<accepted, settled, phase>>

\* The sinks in S deal with their next accepted entry.
Settle(S) ==
  /\ phase # "gone" /\ S # {}
  /\ \A s \in S : Backlog(s) > 0
  /\ settled' = [s \in Sinks |->
                   IF s \in S THEN Append(settled[s], accepted[Len(settled[s]) + 1])
                              ELSE settled[s]]
  /\ UNCHANGED <<accepted, lost, phase>>

StartClosing ==
  /\ phase = "open"
  /\ phase' = "closing"
  /\ UNCHANGED <<accepted, lost, settled>>

\* Close returns nil.
Finish ==
  /\ phase = "closing"
  /\ \A s \in Sinks : Backlog(s) = 0
  /\ phase' = "flushed"
  /\ UNCHANGED <<accepted, lost, settled>>

\* Close returns the timeout error.
GiveUp ==
  /\ phase = "closing"
  /\ phase' = "gaveUp"
  /\ UNCHANGED <<accepted, lost, settled>>

\* The process ends, with or without having closed the logger.
Leave ==
  /\ phase # "gone"
  /\ phase' = "gone"
  /\ UNCHANGED <<accepted, lost, settled>>

Next ==
  \/ Accept
  \/ Lose
  \/ \E S \in SUBSET Sinks : Settle(S)
  \/ StartClosing
  \/ Finish
  \/ GiveUp
  \/ Leave

Spec == Init /\ [][Next]_vars
=============================================================================
