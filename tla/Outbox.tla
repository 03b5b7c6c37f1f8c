-------------------------------- MODULE Outbox --------------------------------
(***************************************************************************)
(* The transactional outbox: changes insert their event in the transaction *)
(* that makes them; a scheduled publisher locks a batch of unpublished     *)
(* rows, hands them to EventBridge and marks what EventBridge took         *)
(* (shared/outbox.py).  EventBridge may take a part of a batch, or take    *)
(* entries and fail to say so; the publisher may die before it commits.    *)
(*                                                                         *)
(* An event is named by the time its transaction began: created_at is      *)
(* now(), the start of the transaction, and not the order of the commits,  *)
(* so a customer's versions can be created in an order other than theirs.  *)
(***************************************************************************)
EXTENDS Naturals, FiniteSets

CONSTANTS Event,         \* the transactions that enqueue, by starting time
          Customer,
          CustomerOf,    \* [Event -> the customer the transaction changes]
          Publisher,     \* concurrent invocations of the publisher
          BatchLimit,    \* LIMIT 10
          MaxFailures    \* refusals, lost answers and crashes in one behaviour

ASSUME OutboxAssumption ==
  /\ Event \subseteq Nat /\ IsFiniteSet(Event)
  /\ CustomerOf \in [Event -> Customer]
  /\ BatchLimit \in Nat \ {0}
  /\ MaxFailures \in Nat

VARIABLES event,      \* [Event -> the row, or the transaction that will insert it]
          version,    \* [Customer -> the committed version]
          publisher,  \* [Publisher -> the invocation's progress]
          accepted,   \* events EventBridge has taken
          view,       \* [Customer -> the newest version a consumer has seen]
          failures    \* failures so far

vars == <<event, version, publisher, accepted, view, failures>>

State == {"unused", "open", "aborted", "pending", "published"}
Idle == [pc |-> "idle", batch |-> {}, taken |-> {}]

TypeOK ==
  /\ event \in [Event -> [state: State, version: Nat, attempts: Nat]]
  /\ version \in [Customer -> Nat]
  /\ publisher \in [Publisher -> [pc: {"idle", "selected", "answered"},
                                  batch: SUBSET Event, taken: SUBSET Event]]
  /\ accepted \subseteq Event
  /\ view \in [Customer -> Nat]
  /\ failures \in 0 .. MaxFailures

Init ==
  /\ event = [e \in Event |-> [state |-> "unused", version |-> 0, attempts |-> 0]]
  /\ version = [c \in Customer |-> 0]
  /\ publisher = [p \in Publisher |-> Idle]
  /\ accepted = {}
  /\ view = [c \in Customer |-> 0]
  /\ failures = 0

-----------------------------------------------------------------------------
(* The producers: any write of Customer or Environment Management. *)

Begin(e) ==
  /\ event[e].state = "unused"
  /\ \A d \in Event : d < e => event[d].state # "unused"
  /\ event' = [event EXCEPT ![e].state = "open"]
  /\ UNCHANGED <<version, publisher, accepted, view, failures>>

\* The row lock of the customer orders the commits, whoever began first.
Commit(e) ==
  LET c == CustomerOf[e] IN
  /\ event[e].state = "open"
  /\ version' = [version EXCEPT ![c] = @ + 1]
  /\ event' = [event EXCEPT ![e].state = "pending", ![e].version = version[c] + 1]
  /\ UNCHANGED <<publisher, accepted, view, failures>>

\* Mutant: the event is inserted by a transaction of its own.
Rollback_EventStays(e) ==
  /\ event[e].state = "open"
  /\ event' = [event EXCEPT ![e].state = "pending",
                            ![e].version = version[CustomerOf[e]] + 1]
  /\ UNCHANGED <<version, publisher, accepted, view, failures>>

Rollback(e) ==
  /\ event[e].state = "open"
  /\ event' = [event EXCEPT ![e].state = "aborted"]
  /\ UNCHANGED <<version, publisher, accepted, view, failures>>

-----------------------------------------------------------------------------
(* The publisher: one transaction per invocation. *)

Locked(e) == \E p \in Publisher : e \in publisher[p].batch

\* Mutant: rows locked by another publisher are not skipped.
Selectable_NoLock == {e \in Event : event[e].state = "pending"}

\* Mutant: a row that failed once is not tried again.
Selectable_NoRetry ==
  {e \in Event : event[e].state = "pending" /\ ~Locked(e) /\ event[e].attempts = 0}

\* WHERE published_at IS NULL ... FOR UPDATE SKIP LOCKED.
Selectable == {e \in Event : event[e].state = "pending" /\ ~Locked(e)}

\* ORDER BY attempts, created_at.
Before(d, e) == \/ event[d].attempts < event[e].attempts
                \/ event[d].attempts = event[e].attempts /\ d < e

IsBatch(B) ==
  /\ B # {}
  /\ \A e \in B, d \in Selectable \ B : Before(e, d)
  /\ Cardinality(B) = BatchLimit \/ (Cardinality(B) < BatchLimit /\ B = Selectable)

Select(p) ==
  /\ publisher[p] = Idle
  /\ \E B \in SUBSET Selectable :
       /\ IsBatch(B)
       /\ publisher' = [publisher EXCEPT ![p] = [pc |-> "selected", batch |-> B, taken |-> {}]]
  /\ UNCHANGED <<event, version, accepted, view, failures>>

\* put_events answers, with one outcome per entry; refusals count as failures.
Answer(p) ==
  /\ publisher[p].pc = "selected"
  /\ \E T \in SUBSET publisher[p].batch :
       LET refused == Cardinality(publisher[p].batch \ T) IN
       /\ failures + refused <= MaxFailures
       /\ failures' = failures + refused
       /\ accepted' = accepted \cup T
       /\ publisher' = [publisher EXCEPT ![p].pc = "answered", ![p].taken = T]
  /\ UNCHANGED <<event, version, view>>

\* Mutant: the whole batch is marked when the call returns.
Settle_Batch(p) ==
  /\ publisher[p].pc = "answered"
  /\ event' = [e \in Event |->
       IF e \in publisher[p].batch
       THEN [event[e] EXCEPT !.attempts = @ + 1, !.state = "published"]
       ELSE event[e]]
  /\ publisher' = [publisher EXCEPT ![p] = Idle]
  /\ UNCHANGED <<version, accepted, view, failures>>

\* The updates by outcome, and COMMIT, which frees the rows.
Settle(p) ==
  /\ publisher[p].pc = "answered"
  /\ event' = [e \in Event |->
       IF e \in publisher[p].batch
       THEN [event[e] EXCEPT !.attempts = @ + 1,
                             !.state = IF e \in publisher[p].taken THEN "published" ELSE @]
       ELSE event[e]]
  /\ publisher' = [publisher EXCEPT ![p] = Idle]
  /\ UNCHANGED <<version, accepted, view, failures>>

\* put_events raises, having taken some entries or none, or the invocation
\* dies before its commit: the transaction rolls back, attempts included.
Crash(p) ==
  /\ publisher[p] # Idle
  /\ failures < MaxFailures
  /\ failures' = failures + 1
  /\ \E T \in SUBSET publisher[p].batch :
       accepted' = IF publisher[p].pc = "selected" THEN accepted \cup T ELSE accepted
  /\ publisher' = [publisher EXCEPT ![p] = Idle]
  /\ UNCHANGED <<event, version, view>>

-----------------------------------------------------------------------------
(* A consumer as the documentation prescribes it: EventBridge delivers what  *)
(* it took at least once and in any order; versions not newer than the one   *)
(* seen are dropped.                                                         *)

Deliver(e) ==
  LET c == CustomerOf[e] IN
  /\ e \in accepted
  /\ event[e].version > view[c]
  /\ view' = [view EXCEPT ![c] = event[e].version]
  /\ UNCHANGED <<event, version, publisher, accepted, failures>>

Next ==
  \/ \E e \in Event : Begin(e) \/ Commit(e) \/ Rollback(e) \/ Deliver(e)
  \/ \E p \in Publisher : Select(p) \/ Answer(p) \/ Settle(p) \/ Crash(p)

Spec == Init /\ [][Next]_vars

\* The schedule invokes the publisher every minute, an invocation ends within
\* its time limit, and EventBridge delivers what it took.
PublisherFairness(p) == WF_vars(Select(p)) /\ WF_vars(Answer(p) \/ Settle(p))
DeliveryFairness(e) == WF_vars(Deliver(e))

Fairness ==
  /\ \A p \in Publisher : PublisherFairness(p)
  /\ \A e \in Event : DeliveryFairness(e)

FairSpec == Spec /\ Fairness

-----------------------------------------------------------------------------

\* A row marked published was taken by EventBridge: no event is lost.
PublishedWereAccepted ==
  \A e \in Event : event[e].state = "published" => e \in accepted

\* Each attempt at a row but the one that published it goes with a failure.
RetriedAfterFailure ==
  \A e \in Event :
    event[e].attempts <= failures + (IF event[e].state = "published" THEN 1 ELSE 0)

\* What the table says of the attempts at a row is what happened: a row is marked
\* published only if EventBridge took it, and is sent again only after a failure,
\* however publishers overlap and die (the updates by outcome, SKIP LOCKED).
AttemptsAccounted == PublishedWereAccepted /\ RetriedAfterFailure

\* Two invocations never hold one row, so a batch is settled by the invocation
\* that published it (FOR UPDATE SKIP LOCKED).
BatchesDisjoint ==
  \A p, q \in Publisher : p # q => publisher[p].batch \cap publisher[q].batch = {}

\* The events of c that EventBridge took or will take.
Sent(c) == {e \in Event : CustomerOf[e] = c /\ event[e].state \in {"pending", "published"}}

\* What a consumer can hear of is what happened: the events of a customer that
\* can reach EventBridge carry exactly its committed versions, each once, and
\* nothing EventBridge took was rolled back.
EventsMatchVersions ==
  /\ \A c \in Customer :
       /\ {event[e].version : e \in Sent(c)} = 1 .. version[c]
       /\ \A d, e \in Sent(c) : event[d].version = event[e].version => d = e
  /\ \A e \in accepted : event[e].state \in {"pending", "published"}

\* What the table says is what happened (the two above).
TableTruthful == AttemptsAccounted /\ EventsMatchVersions

\* The event of e, as consumers know it.
Name(e) == <<CustomerOf[e], event[e].version>>

Pending == {e \in Event : event[e].state = "pending"}

Feed == INSTANCE EventFeed WITH waiting <- {Name(e) : e \in Pending},
                                sent <- {Name(e) : e \in accepted}

\* The table, its publishers and their failures are to the consumers a feed: a
\* change and its event are one step, an event ceases to wait only after it was
\* sent, and only what waits is sent (enqueue, lambda_handler of the outbox).
ImplementsFeed == Feed!Spec

\* Every committed change reaches the consumer, which ends up with the
\* customer's newest version although events are duplicated and reordered.
SeenAtLast(e) == event[e].state = "pending" ~> view[CustomerOf[e]] >= event[e].version
EventuallySeen == \A e \in Event : SeenAtLast(e)

\* The guards of the steps that are scheduled fairly: each can be taken when they
\* hold, whatever the rows' attempts and locks.
OutboxGuardsSuffice ==
  /\ \A p \in Publisher :
       /\ publisher[p] = Idle /\ Selectable # {} => ENABLED <<Select(p)>>_vars
       /\ publisher[p].pc # "idle" => ENABLED <<Answer(p) \/ Settle(p)>>_vars
  /\ \A e \in Event :
       e \in accepted /\ event[e].version > view[CustomerOf[e]] => ENABLED <<Deliver(e)>>_vars

Published == {e \in Event : event[e].state = "published"}

\* From some time on nothing fails, and no further row is marked published: in a
\* behaviour with finitely many failures and events this comes to pass.
FailuresCease == <>[][failures' = failures]_vars
PublicationsCease == <>[][Published' = Published]_vars

=============================================================================
