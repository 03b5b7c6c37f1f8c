------------------------------ MODULE EventFeed ------------------------------
(* What the outbox promises to the consumers of the platform's events: a       *)
(* change and its event are one, an event is sent until it is known to have    *)
(* been taken, and no consumer hears of anything else.  Outbox implements it   *)
(* with transactions that roll back and publishers that overlap and die.       *)
EXTENDS Naturals

CONSTANT Customer

VARIABLES
  version,  \* [Customer -> its committed version]
  waiting,  \* the events that are still to be sent: <<customer, version>>
  sent,     \* those EventBridge has taken
  view      \* [Customer -> the newest version a consumer has seen]

vars == <<version, waiting, sent, view>>

Init ==
  /\ version = [c \in Customer |-> 0]
  /\ waiting = {}
  /\ sent = {}
  /\ view = [c \in Customer |-> 0]

\* A change gives the customer its next version, whose event now waits.
Change(c) ==
  /\ version' = [version EXCEPT ![c] = @ + 1]
  /\ waiting' = waiting \cup {<<c, version[c] + 1>>}
  /\ UNCHANGED <<sent, view>>

\* Events that wait are sent, not for the first time perhaps.
Send(events) ==
  /\ sent' = sent \cup events
  /\ UNCHANGED <<version, waiting, view>>

\* Events cease to wait, all of which were sent.
Settle(events) ==
  /\ events \subseteq sent
  /\ waiting' = waiting \ events
  /\ UNCHANGED <<version, sent, view>>

\* A consumer hears of a version newer than the one it has seen.
Consume(e) ==
  /\ e[2] > view[e[1]]
  /\ view' = [view EXCEPT ![e[1]] = e[2]]
  /\ UNCHANGED <<version, waiting, sent>>

Next ==
  \/ \E c \in Customer : Change(c)
  \/ \E events \in SUBSET waiting : Send(events) \/ Settle(events)
  \/ \E e \in sent : Consume(e)

Spec == Init /\ [][Next]_vars

-----------------------------------------------------------------------------

\* Nothing is lost and nothing invented: each version a customer has had waits or
\* was sent, no other does or was, and consumers have seen only what was sent.
Faithful ==
  \A c \in Customer :
    /\ \A n \in 1 .. version[c] : <<c, n>> \in waiting \cup sent
    /\ \A e \in waiting \cup sent : e[1] = c => e[2] \in 1 .. version[c]
    /\ view[c] = 0 \/ <<c, view[c]>> \in sent
=============================================================================
