------------------------------- MODULE Outbox -------------------------------
(***************************************************************************)
(* What the delivery of alerts promises, as the docstring of               *)
(* database/models.py::NotificationDelivery states it for one event and    *)
(* one provider: a delivery is created once, is posted only until it is    *)
(* settled and a bounded number of times, is called sent only if Discord   *)
(* has it, and is never unsettled again.                                   *)
(***************************************************************************)
EXTENDS Naturals

CONSTANTS Event,
          MaxPosts   \* how often one alert may reach the channel

VARIABLES queued,    \* events with a delivery that is not settled
          sent,      \* events whose delivery is sent
          givenUp,   \* events whose delivery is failed_permanent
          posts      \* how often each alert reached the channel

outboxVars == <<queued, sent, givenUp, posts>>

Init ==
  /\ queued = {} /\ sent = {} /\ givenUp = {}
  /\ posts = [e \in Event |-> 0]

Queue(e) ==
  /\ e \notin queued \union sent \union givenUp
  /\ queued' = queued \union {e}
  /\ UNCHANGED <<sent, givenUp, posts>>

Post(e) ==
  /\ e \in queued
  /\ posts[e] < MaxPosts
  /\ posts' = [posts EXCEPT ![e] = @ + 1]
  /\ UNCHANGED <<queued, sent, givenUp>>

Settle(e) ==
  /\ e \in queued
  /\ posts[e] > 0
  /\ queued' = queued \ {e}
  /\ sent' = sent \union {e}
  /\ UNCHANGED <<givenUp, posts>>

GiveUp(e) ==
  /\ e \in queued
  /\ queued' = queued \ {e}
  /\ givenUp' = givenUp \union {e}
  /\ UNCHANGED <<sent, posts>>

Next == \E e \in Event : Queue(e) \/ Post(e) \/ Settle(e) \/ GiveUp(e)

Spec == Init /\ [][Next]_outboxVars
=============================================================================
