--------------------------- MODULE CollectorQueue ---------------------------
(***************************************************************************)
(* What the pipeline promises, without goroutines, stages or closes: poll  *)
(* results and traps are two first-in-first-out queues in front of one     *)
(* writer.  A message that was accepted is written once, in the order of   *)
(* its queue, or is lost to a processing error.  The collector stops only  *)
(* when both queues are empty and nothing is being written, and accepts    *)
(* nothing afterwards.                                                     *)
(***************************************************************************)
EXTENDS Naturals, Sequences

CONSTANTS Lanes, Message, NoMsg

VARIABLES
    queue,   \* the messages accepted and not yet written, per lane
    writing, \* the message the transport has in hand, or NoMsg
    stopped  \* the transport is closed

qvars == <<queue, writing, stopped>>

Without(s, i) == SubSeq(s, 1, i - 1) \o SubSeq(s, i + 1, Len(s))

Init ==
    /\ queue = [l \in Lanes |-> <<>>]
    /\ writing = NoMsg
    /\ stopped = FALSE

Accept(l) ==
    /\ ~stopped
    /\ Len(queue'[l]) = Len(queue[l]) + 1
    /\ queue'[l][Len(queue[l]) + 1] \in Message
    /\ queue' = [queue EXCEPT ![l] = Append(@, queue'[l][Len(queue[l]) + 1])]
    /\ UNCHANGED <<writing, stopped>>

Lose(l) ==
    /\ \E i \in DOMAIN queue[l] : queue' = [queue EXCEPT ![l] = Without(@, i)]
    /\ UNCHANGED <<writing, stopped>>

Take(l) ==
    /\ writing = NoMsg
    /\ queue[l] # <<>>
    /\ writing' = Head(queue[l])
    /\ queue' = [queue EXCEPT ![l] = Tail(@)]
    /\ UNCHANGED stopped

Written ==
    /\ writing # NoMsg
    /\ writing' = NoMsg
    /\ UNCHANGED <<queue, stopped>>

Finish ==
    /\ \A l \in Lanes : queue[l] = <<>>
    /\ writing = NoMsg
    /\ stopped' = TRUE
    /\ UNCHANGED <<queue, writing>>

Next ==
    \/ \E l \in Lanes : Accept(l) \/ Lose(l) \/ Take(l)
    \/ Written
    \/ Finish

Spec == Init /\ [][Next]_qvars
=============================================================================
