---------------------------- MODULE EventStream ----------------------------
(***************************************************************************)
(* What the agent's event paths (the named pipe, the WebSocket client)     *)
(* promise to whoever offers them an event: the event is accepted once,    *)
(* and leaves once - handed on, or dropped.  It is never handed on twice,  *)
(* never after it was dropped, and nothing is handed on that was not       *)
(* accepted.  Order is not promised: two connections, or two instances of  *)
(* the pipe, may both be in use for a while.                               *)
(***************************************************************************)
EXTENDS Naturals

CONSTANT Event

VARIABLES pending,   \* accepted events that have not left yet
          forwarded, \* how often each event was handed on
          dropped    \* events discarded after they were accepted

Init ==
  /\ pending = {}
  /\ forwarded = [e \in Event |-> 0]
  /\ dropped = {}

Accept(e) ==
  /\ e \notin pending \cup dropped
  /\ forwarded[e] = 0
  /\ pending' = pending \cup {e}
  /\ UNCHANGED <<forwarded, dropped>>

Forward(e) ==
  /\ e \in pending
  /\ pending' = pending \ {e}
  /\ forwarded' = [forwarded EXCEPT ![e] = @ + 1]
  /\ UNCHANGED dropped

\* Several events may be dropped at once, when whoever holds them ends.
Drop(es) ==
  /\ es # {}
  /\ pending' = pending \ es
  /\ dropped' = dropped \cup es
  /\ UNCHANGED forwarded

Next ==
  \/ \E e \in Event : Accept(e) \/ Forward(e)
  \/ \E es \in SUBSET pending : Drop(es)

Spec == Init /\ [][Next]_<<pending, forwarded, dropped>>
=============================================================================
