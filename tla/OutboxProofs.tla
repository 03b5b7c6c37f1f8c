----------------------------- MODULE OutboxProofs -----------------------------
(***************************************************************************)
(* The safety of the outbox for any number of transactions, customers and  *)
(* publishers.  Inv adds to the properties what a publisher may assume of  *)
(* the rows it has locked: nobody else settles them, so they are still     *)
(* pending, and what it is going to mark EventBridge has taken.            *)
(***************************************************************************)
EXTENDS Outbox, FiniteSetTheorems, TLAPS

BatchPending ==
  \A p \in Publisher : /\ \A e \in publisher[p].batch : event[e].state = "pending"
                       /\ publisher[p].taken \subseteq publisher[p].batch \cap accepted

Inv ==
  /\ TypeOK
  /\ PublishedWereAccepted
  /\ BatchesDisjoint
  /\ EventsMatchVersions
  /\ BatchPending

-----------------------------------------------------------------------------

Row == [state: State, version: Nat, attempts: Nat]

\* The fields of a row.
LEMMA RowFields ==
  ASSUME NEW row \in Row
  PROVE  row.state \in State /\ row.version \in Nat /\ row.attempts \in Nat
BY DEF Row

\* Two rows with the same fields are one row.
LEMMA SameRow ==
  ASSUME NEW row \in Row
  PROVE  row = [state |-> row.state, version |-> row.version, attempts |-> row.attempts]
BY DEF Row

LEMMA RowType ==
  ASSUME NEW s \in State, NEW n \in Nat, NEW m \in Nat
  PROVE  [state |-> s, version |-> n, attempts |-> m] \in Row
BY DEF Row

LEMMA InitInv == Init => Inv
<1> SUFFICES ASSUME Init PROVE Inv
  OBVIOUS
<1> USE OutboxAssumption DEF Init, Idle
<1>1. TypeOK
  BY DEF TypeOK, State
<1>2. PublishedWereAccepted /\ BatchesDisjoint /\ BatchPending
  BY DEF PublishedWereAccepted, BatchesDisjoint, BatchPending
<1>3. EventsMatchVersions
  BY DEF EventsMatchVersions, Sent
<1> QED
  BY <1>1, <1>2, <1>3 DEF Inv

-----------------------------------------------------------------------------
(* The producers disturb no row that is already in the table. *)

LEMMA BeginInv == ASSUME NEW e \in Event, Inv, Begin(e) PROVE Inv'
<1> USE OutboxAssumption DEF Inv, Begin, TypeOK, State
<1>1. TypeOK'
  OBVIOUS
<1>2. PublishedWereAccepted' /\ BatchesDisjoint' /\ BatchPending'
  BY DEF PublishedWereAccepted, BatchesDisjoint, BatchPending
<1>3. \A c \in Customer : Sent(c)' = Sent(c)
  BY DEF Sent
<1>4. EventsMatchVersions'
  BY <1>3 DEF EventsMatchVersions, Sent
<1> QED
  BY <1>1, <1>2, <1>4

LEMMA RollbackInv == ASSUME NEW e \in Event, Inv, Rollback(e) PROVE Inv'
<1> USE OutboxAssumption DEF Inv, Rollback, TypeOK, State
<1>1. TypeOK'
  OBVIOUS
<1>2. PublishedWereAccepted' /\ BatchesDisjoint' /\ BatchPending'
  BY DEF PublishedWereAccepted, BatchesDisjoint, BatchPending
<1>3. \A c \in Customer : Sent(c)' = Sent(c)
  BY DEF Sent
<1>4. EventsMatchVersions'
  BY <1>3 DEF EventsMatchVersions, Sent
<1> QED
  BY <1>1, <1>2, <1>4

\* The new event takes the number after the last one.
LEMMA CommitInv == ASSUME NEW e \in Event, Inv, Commit(e) PROVE Inv'
<1> USE OutboxAssumption DEF Inv
<1> PICK c \in Customer : c = CustomerOf[e]
  OBVIOUS
<1>1. /\ event[e].state = "open"
      /\ version[c] \in Nat
      /\ version' = [version EXCEPT ![c] = version[c] + 1]
      /\ event' = [event EXCEPT ![e].state = "pending", ![e].version = version[c] + 1]
      /\ UNCHANGED <<publisher, accepted, view, failures>>
  BY DEF Commit, TypeOK
<1>2. event'[e] = [event[e] EXCEPT !.state = "pending", !.version = version[c] + 1]
  BY <1>1 DEF TypeOK
<1>3. \A d \in Event \ {e} : event'[d] = event[d]
  BY <1>1 DEF TypeOK
<1>4. TypeOK'
  <2>1. event[e] \in Row /\ "pending" \in State
    BY DEF TypeOK, State, Row
  <2> DEFINE n == version[c] + 1
  <2>2. n \in Nat /\ event[e].attempts \in Nat
    BY <1>1, <2>1, RowFields
  <2>3. event[e] = [state |-> event[e].state, version |-> event[e].version,
                    attempts |-> event[e].attempts]
    BY ONLY <2>1, SameRow
  <2>4. event'[e] = [state |-> "pending", version |-> n, attempts |-> event[e].attempts]
    BY ONLY <1>2, <2>3
  <2> HIDE DEF n
  <2>5. event'[e] \in Row
    BY ONLY <2>1, <2>2, <2>4, RowType
  <2> QED
    BY <1>1, <2>5 DEF TypeOK, Row
<1>5. PublishedWereAccepted' /\ BatchesDisjoint' /\ BatchPending'
  BY <1>1, <1>2, <1>3 DEF PublishedWereAccepted, BatchesDisjoint, BatchPending, TypeOK
<1>6. event'[e].state = "pending" /\ event'[e].version = version[c] + 1
  BY <1>2 DEF TypeOK
<1>7. e \notin Sent(c) /\ Sent(c)' = Sent(c) \cup {e}
  BY <1>1, <1>3, <1>6 DEF Sent
<1>8. \A b \in Customer \ {c} : e \notin Sent(b) /\ Sent(b)' = Sent(b) /\ version'[b] = version[b]
  BY <1>1, <1>3 DEF Sent, TypeOK
<1>9. version'[c] = version[c] + 1
  BY <1>1 DEF TypeOK
<1>10. \A b \in Customer : \A d \in Sent(b) \ {e} : event'[d] = event[d]
  BY <1>3 DEF Sent
<1>11. ASSUME NEW b \in Customer
       PROVE  /\ {event'[d].version : d \in Sent(b)'} = 1 .. version'[b]
              /\ \A d, f \in Sent(b)' : event'[d].version = event'[f].version => d = f
  <2>1. CASE b = c
    <3>1. \A d \in Sent(c) : event'[d] = event[d]
      BY <1>7, <1>10
    <3>2. {event[d].version : d \in Sent(c)} = 1 .. version[c]
      BY DEF EventsMatchVersions
    <3>3. {event'[d].version : d \in Sent(c)} = 1 .. version[c]
      BY <3>1, <3>2
    <3>4. {event'[d].version : d \in Sent(c)'} = (1 .. version[c]) \cup {version[c] + 1}
      BY <1>6, <1>7, <3>3
    <3>5. (1 .. version[c]) \cup {version[c] + 1} = 1 .. version'[c]
      BY <1>1, <1>9
    <3>6. \A g \in Sent(c) : event'[g].version # version[c] + 1
      <4> TAKE g \in Sent(c)
      <4>1. event'[g].version \in 1 .. version[c]
        BY <3>3
      <4> QED
        BY ONLY <1>1, <4>1
    <3>7. \A g, h \in Sent(c) : event'[g].version = event'[h].version => g = h
      BY <3>1 DEF EventsMatchVersions
    <3>8. \A d, f \in Sent(c)' : event'[d].version = event'[f].version => d = f
      BY <1>6, <1>7, <3>6, <3>7
    <3> QED
      BY <2>1, <3>4, <3>5, <3>8
  <2>2. CASE b # c
    <3>1. \A d \in Sent(b) : event'[d] = event[d]
      BY <1>8, <1>10, <2>2
    <3>2. {event'[d].version : d \in Sent(b)'} = {event[d].version : d \in Sent(b)}
      BY <1>8, <2>2, <3>1
    <3> QED
      BY <1>8, <2>2, <3>1, <3>2 DEF EventsMatchVersions
  <2> QED
    BY <2>1, <2>2
<1>12. \A d \in accepted' : event'[d].state \in {"pending", "published"}
  BY <1>1, <1>3, <1>6 DEF EventsMatchVersions, TypeOK
<1>13. EventsMatchVersions'
  BY <1>11, <1>12 DEF EventsMatchVersions
<1> QED
  BY <1>4, <1>5, <1>13

-----------------------------------------------------------------------------
(* The publisher changes no version and settles only rows it holds. *)

LEMMA SelectInv == ASSUME NEW p \in Publisher, Inv, Select(p) PROVE Inv'
<1> USE OutboxAssumption DEF Inv, Select
<1> PICK B \in SUBSET Selectable :
      publisher' = [publisher EXCEPT ![p] = [pc |-> "selected", batch |-> B, taken |-> {}]]
  OBVIOUS
<1>1. \A e \in B : /\ e \in Event /\ event[e].state = "pending"
                   /\ \A q \in Publisher : e \notin publisher[q].batch
  BY DEF Selectable, Locked
<1>2. TypeOK'
  <2>1. B \subseteq Event
    BY <1>1
  <2> QED
    BY <2>1 DEF TypeOK
<1>3. PublishedWereAccepted' /\ EventsMatchVersions'
  BY DEF PublishedWereAccepted, EventsMatchVersions, Sent
<1>4. BatchesDisjoint'
  BY <1>1 DEF BatchesDisjoint, TypeOK
<1>5. BatchPending'
  BY <1>1 DEF BatchPending, TypeOK
<1> QED
  BY <1>2, <1>3, <1>4, <1>5

LEMMA AnswerInv == ASSUME NEW p \in Publisher, Inv, Answer(p) PROVE Inv'
<1> USE OutboxAssumption DEF Inv, Answer
<1>1. PICK T \in SUBSET publisher[p].batch :
        LET refused == Cardinality(publisher[p].batch \ T) IN
        /\ failures + refused <= MaxFailures
        /\ failures' = failures + refused
        /\ accepted' = accepted \cup T
        /\ publisher' = [publisher EXCEPT ![p].pc = "answered", ![p].taken = T]
  OBVIOUS
<1>2. Cardinality(publisher[p].batch \ T) \in Nat
  <2>1. publisher[p].batch \ T \subseteq Event
    BY DEF TypeOK
  <2> QED
    BY <2>1, FS_Subset, FS_CardinalityType
<1>3. publisher[p].batch \subseteq Event /\ UNCHANGED <<event, version, view>>
  BY DEF TypeOK
<1>4. TypeOK'
  <2>1. failures' \in 0 .. MaxFailures
    BY <1>1, <1>2 DEF TypeOK
  <2>2. T \subseteq Event
    BY <1>3
  <2> DEFINE Progress == [pc: {"idle", "selected", "answered"},
                           batch: SUBSET Event, taken: SUBSET Event]
  <2>3. publisher' \in [Publisher -> Progress]
    <3>1. publisher \in [Publisher -> Progress]
      BY DEF TypeOK
    <3>2. [publisher[p] EXCEPT !.pc = "answered", !.taken = T] \in Progress
      BY <2>2, <3>1
    <3>3. publisher' = [publisher EXCEPT ![p] = [publisher[p] EXCEPT !.pc = "answered", !.taken = T]]
      BY <1>1, <3>1
    <3> HIDE DEF Progress
    <3> QED
      BY <3>1, <3>2, <3>3
  <2> QED
    BY <1>1, <1>3, <2>1, <2>2, <2>3 DEF TypeOK
<1>5. PublishedWereAccepted' /\ BatchesDisjoint'
  BY <1>1, <1>3 DEF PublishedWereAccepted, BatchesDisjoint, TypeOK
<1>6. EventsMatchVersions'
  BY <1>1, <1>3 DEF EventsMatchVersions, Sent, BatchPending
<1>7. BatchPending'
  BY <1>1, <1>3 DEF BatchPending, TypeOK
<1> QED
  BY <1>4, <1>5, <1>6, <1>7

LEMMA SettleInv == ASSUME NEW p \in Publisher, Inv, Settle(p) PROVE Inv'
<1> USE OutboxAssumption DEF Inv
<1>1. /\ publisher' = [publisher EXCEPT ![p] = Idle]
      /\ UNCHANGED <<version, accepted, view, failures>>
      /\ \A e \in Event : e \notin publisher[p].batch => event'[e] = event[e]
      /\ \A e \in publisher[p].batch :
           event'[e] = [event[e] EXCEPT !.attempts = @ + 1,
                          !.state = IF e \in publisher[p].taken THEN "published" ELSE @]
  BY DEF Settle, TypeOK
<1> DEFINE Mark(e) == IF e \in publisher[p].taken THEN "published" ELSE "pending"
<1>2. publisher[p].batch \subseteq Event /\ \A e \in Event : event[e] \in Row
  BY DEF TypeOK, Row
<1>3. ASSUME NEW e \in publisher[p].batch
      PROVE  /\ event'[e] \in Row
             /\ event'[e].state = Mark(e)
             /\ event'[e].version = event[e].version
  <2>1. event[e] \in Row /\ event[e].state = "pending" /\ Mark(e) \in State
    BY <1>2 DEF BatchPending, State
  <2> DEFINE row == event[e]  s == Mark(e)  n == event[e].attempts + 1
  <2>2. n \in Nat /\ row.version \in Nat
    BY <2>1, RowFields
  <2>3. event'[e] = [row EXCEPT !.attempts = n, !.state = s]
    BY <1>1, <2>1
  <2>4. row \in Row /\ s \in State
    BY ONLY <2>1
  <2> HIDE DEF row, s, n
  <2>8. row = [state |-> row.state, version |-> row.version, attempts |-> row.attempts]
    BY ONLY <2>4, SameRow
  <2>5. event'[e] = [state |-> s, version |-> row.version, attempts |-> n]
    BY ONLY <2>3, <2>8
  <2>6. event'[e] \in Row
    BY ONLY <2>2, <2>4, <2>5, RowType
  <2>7. event'[e].state = s /\ event'[e].version = row.version
    BY ONLY <2>5
  <2> QED
    BY ONLY <2>6, <2>7 DEF row, s
<1>4. TypeOK'
  <2>1. \A e \in Event : event'[e] \in Row
    BY <1>1, <1>2, <1>3
  <2>2. event' = [e \in Event |-> event'[e]]
    BY DEF Settle
  <2>3. event' \in [Event -> Row]
    BY <2>1, <2>2
  <2> QED
    BY <1>1, <2>3 DEF TypeOK, Idle, Row
<1>5. PublishedWereAccepted'
  BY <1>1, <1>3 DEF PublishedWereAccepted, BatchPending
<1>6. BatchesDisjoint'
  BY <1>1 DEF BatchesDisjoint, TypeOK, Idle
<1>7. \A c \in Customer : Sent(c)' = Sent(c)
  <2>1. \A e \in Event : (event'[e].state \in {"pending", "published"})
                         <=> (event[e].state \in {"pending", "published"})
    BY <1>1, <1>3 DEF BatchPending
  <2> QED
    BY <2>1 DEF Sent
<1>8. EventsMatchVersions'
  <2>1. \A e \in accepted' : event'[e].state \in {"pending", "published"}
    BY <1>1, <1>3 DEF EventsMatchVersions, TypeOK
  <2>2. \A c \in Customer : Sent(c) \subseteq Event
    BY DEF Sent
  <2>3. \A e \in Event : event'[e].version = event[e].version
    BY <1>1, <1>3
  <2>4. ASSUME NEW c \in Customer
        PROVE  /\ {event'[e].version : e \in Sent(c)'} = 1 .. version'[c]
               /\ \A d, e \in Sent(c)' : event'[d].version = event'[e].version => d = e
    <3>1. {event'[e].version : e \in Sent(c)} = {event[e].version : e \in Sent(c)}
      BY <2>2, <2>3
    <3>2. \A d, e \in Sent(c) : event'[d].version = event'[e].version => d = e
      BY <2>2, <2>3 DEF EventsMatchVersions
    <3>3. {event[e].version : e \in Sent(c)} = 1 .. version[c]
      BY DEF EventsMatchVersions
    <3>4. Sent(c)' = Sent(c) /\ version' = version
      BY <1>1, <1>7
    <3>5. {event'[e].version : e \in Sent(c)'} = 1 .. version'[c]
      BY ONLY <3>1, <3>3, <3>4
    <3>6. \A d, e \in Sent(c)' : event'[d].version = event'[e].version => d = e
      BY ONLY <3>2, <3>4
    <3> QED
      BY <3>5, <3>6
  <2> QED
    BY <1>1, <2>1, <2>4 DEF EventsMatchVersions
<1>9. BatchPending'
  <2> SUFFICES ASSUME NEW q \in Publisher
               PROVE  /\ \A e \in publisher'[q].batch : event'[e].state = "pending"
                      /\ publisher'[q].taken \subseteq publisher'[q].batch \cap accepted'
    BY DEF BatchPending
  <2>1. CASE q = p
    BY <1>1, <2>1 DEF TypeOK, Idle
  <2>2. CASE q # p
    <3>1. publisher'[q] = publisher[q] /\ publisher[q].batch \subseteq Event
      BY <1>1, <2>2 DEF TypeOK
    <3>2. \A e \in publisher[q].batch : event'[e] = event[e]
      BY <1>1, <2>2, <3>1 DEF BatchesDisjoint
    <3>3. /\ \A e \in publisher[q].batch : event[e].state = "pending"
          /\ publisher[q].taken \subseteq publisher[q].batch \cap accepted
      BY DEF BatchPending
    <3>4. accepted' = accepted
      BY <1>1
    <3> QED
      BY ONLY <3>1, <3>2, <3>3, <3>4
  <2> QED
    BY <2>1, <2>2
<1> QED
  BY <1>4, <1>5, <1>6, <1>8, <1>9

LEMMA CrashInv == ASSUME NEW p \in Publisher, Inv, Crash(p) PROVE Inv'
<1> USE OutboxAssumption DEF Inv, Crash, Idle
<1>1. PICK T \in SUBSET publisher[p].batch :
        accepted' = IF publisher[p].pc = "selected" THEN accepted \cup T ELSE accepted
  OBVIOUS
<1>2. publisher[p].batch \subseteq Event /\ accepted \subseteq accepted'
  BY <1>1 DEF TypeOK
<1>3. TypeOK'
  BY <1>1, <1>2 DEF TypeOK
<1>4. PublishedWereAccepted'
  BY <1>2 DEF PublishedWereAccepted
<1>7. BatchesDisjoint'
  BY DEF BatchesDisjoint, TypeOK
<1>5. EventsMatchVersions'
  BY <1>1 DEF EventsMatchVersions, Sent, BatchPending
<1>6. BatchPending'
  BY <1>2 DEF BatchPending, TypeOK
<1> QED
  BY <1>3, <1>4, <1>5, <1>6, <1>7

LEMMA DeliverInv == ASSUME NEW e \in Event, Inv, Deliver(e) PROVE Inv'
<1> USE OutboxAssumption DEF Inv, Deliver
<1>1. TypeOK'
  BY DEF TypeOK
<1>2. PublishedWereAccepted' /\ BatchesDisjoint' /\ BatchPending'
  BY DEF PublishedWereAccepted, BatchesDisjoint, BatchPending
<1>3. event' = event /\ version' = version /\ accepted' = accepted
  OBVIOUS
<1>4. \A c \in Customer : Sent(c)' = Sent(c)
  BY <1>3 DEF Sent
<1>5. ASSUME NEW c \in Customer
      PROVE /\ {event'[d].version : d \in Sent(c)'} = 1 .. version'[c]
            /\ \A d, f \in Sent(c)' : event'[d].version = event'[f].version => d = f
  BY ONLY <1>3, <1>4, EventsMatchVersions DEF EventsMatchVersions
<1>6. \A d \in accepted' : event'[d].state \in {"pending", "published"}
  BY ONLY <1>3, EventsMatchVersions DEF EventsMatchVersions
<1>7. EventsMatchVersions'
  BY ONLY <1>5, <1>6 DEF EventsMatchVersions
<1> QED
  BY <1>1, <1>2, <1>7

-----------------------------------------------------------------------------

LEMMA StepInv == Inv /\ [Next]_vars => Inv'
<1> SUFFICES ASSUME Inv, [Next]_vars PROVE Inv'
  OBVIOUS
<1>1. CASE Next
  BY <1>1, BeginInv, CommitInv, RollbackInv, DeliverInv, SelectInv, AnswerInv, SettleInv, CrashInv
     DEF Next
<1>2. CASE UNCHANGED vars
  BY <1>2 DEF vars, Inv, TypeOK, PublishedWereAccepted, BatchesDisjoint, EventsMatchVersions,
              Sent, BatchPending
<1> QED
  BY <1>1, <1>2

THEOREM Safety == Spec => []Inv
BY InitInv, StepInv, PTL DEF Spec

\* The tables and the publishers stay well typed; no more failures than bounded.
THEOREM TypeCorrect == Spec => []TypeOK
BY Safety, PTL DEF Inv

\* A row that EventBridge refused goes with a failure that no attempt has used up.
RefusalsCounted ==
  \A p \in Publisher : publisher[p].pc = "answered" =>
    \A e \in publisher[p].batch \ publisher[p].taken : event[e].attempts < failures

Accounted == RetriedAfterFailure /\ RefusalsCounted

LEMMA AccountedInit == Init => Accounted
BY DEF Init, Idle, Accounted, RetriedAfterFailure, RefusalsCounted

\* Events and failures go on, the publishers' answers stay.
LEMMA AccountedQuiet ==
  ASSUME Inv, Accounted, failures' \in Nat, failures' >= failures,
         \A e \in Event : /\ event'[e].attempts = event[e].attempts
                          /\ event'[e].state = event[e].state \/ event[e].state # "published",
         \A p \in Publisher : publisher'[p] = publisher[p] \/ publisher'[p].pc # "answered"
  PROVE  Accounted'
<1>1. /\ \A e \in Event : event[e].attempts \in Nat
      /\ \A p \in Publisher : publisher[p].batch \subseteq Event
      /\ failures \in Nat
  <2>1. /\ event \in [Event -> [state: State, version: Nat, attempts: Nat]]
        /\ publisher \in [Publisher -> [pc: {"idle", "selected", "answered"},
                                       batch: SUBSET Event, taken: SUBSET Event]]
        /\ failures \in 0 .. MaxFailures
    BY DEF Inv, TypeOK
  <2>2. \A e \in Event : event[e].attempts \in Nat
    BY ONLY <2>1
  <2>3. \A p \in Publisher : publisher[p].batch \subseteq Event
    BY ONLY <2>1
  <2>4. failures \in Nat
    BY <2>1, OutboxAssumption
  <2> QED
    BY <2>2, <2>3, <2>4
<1>2. RetriedAfterFailure'
  <2> SUFFICES ASSUME NEW e \in Event
               PROVE  event'[e].attempts <=
                        failures' + (IF event'[e].state = "published" THEN 1 ELSE 0)
    BY DEF RetriedAfterFailure
  <2>1. event[e].attempts <= failures + (IF event[e].state = "published" THEN 1 ELSE 0)
    BY DEF Accounted, RetriedAfterFailure
  <2> QED
    BY <1>1, <2>1
<1>3. RefusalsCounted'
  <2> SUFFICES ASSUME NEW p \in Publisher, publisher'[p].pc = "answered",
                      NEW e \in publisher'[p].batch \ publisher'[p].taken
               PROVE  event'[e].attempts < failures'
    BY DEF RefusalsCounted
  <2>1. publisher'[p] = publisher[p]
    OBVIOUS
  <2>2. event[e].attempts < failures /\ e \in Event
    BY <1>1, <2>1 DEF Accounted, RefusalsCounted
  <2> QED
    BY <1>1, <2>2
<1> QED
  BY <1>2, <1>3 DEF Accounted

LEMMA AccountedStep == Inv /\ Accounted /\ [Next]_vars => Accounted'
<1> SUFFICES ASSUME Inv, Accounted, [Next]_vars PROVE Accounted'
  OBVIOUS
<1> USE OutboxAssumption
<1>1. /\ event \in [Event -> [state: State, version: Nat, attempts: Nat]]
      /\ publisher \in [Publisher -> [pc: {"idle", "selected", "answered"},
                                     batch: SUBSET Event, taken: SUBSET Event]]
      /\ failures \in Nat
  BY DEF Inv, TypeOK
<1>2. ASSUME NEW e \in Event, Begin(e) \/ Commit(e) \/ Rollback(e) \/ Deliver(e)
      PROVE  Accounted'
  <2>1. publisher' = publisher /\ failures' = failures
    BY <1>2 DEF Begin, Commit, Rollback, Deliver
  <2>2. \A d \in Event : /\ event'[d].attempts = event[d].attempts
                         /\ event'[d].state = event[d].state \/ event[d].state # "published"
    BY <1>1, <1>2 DEF Begin, Commit, Rollback, Deliver
  <2> QED
    BY <1>1, <2>1, <2>2, AccountedQuiet
<1>3. ASSUME NEW p \in Publisher, Select(p) \/ Crash(p)  PROVE Accounted'
  <2>1. /\ event' = event /\ failures' \in Nat /\ failures' >= failures
        /\ \A q \in Publisher : publisher'[q] = publisher[q] \/ publisher'[q].pc # "answered"
    BY <1>1, <1>3 DEF Select, Crash, Idle
  <2> QED
    BY <2>1, AccountedQuiet
<1>4. ASSUME NEW p \in Publisher, Answer(p)  PROVE Accounted'
  <2>1. PICK T \in SUBSET publisher[p].batch :
          /\ failures' = failures + Cardinality(publisher[p].batch \ T)
          /\ publisher' = [publisher EXCEPT ![p].pc = "answered", ![p].taken = T]
          /\ event' = event
    BY <1>4 DEF Answer
  <2>2. IsFiniteSet(publisher[p].batch \ T)
    <3>1. publisher[p].batch \ T \subseteq Event
      BY <1>1
    <3> QED
      BY <3>1, FS_Subset
  <2>3. /\ Cardinality(publisher[p].batch \ T) \in Nat
        /\ \A e \in publisher[p].batch \ T : Cardinality(publisher[p].batch \ T) # 0
    BY <2>2, FS_CardinalityType, FS_EmptySet
  <2>4. RetriedAfterFailure'
    BY <1>1, <2>1, <2>3 DEF Accounted, RetriedAfterFailure
  <2>5. \A e \in publisher[p].batch : event[e].attempts <= failures
    BY <1>1 DEF Inv, BatchPending, Accounted, RetriedAfterFailure
  <2>6. RefusalsCounted'
    <3> SUFFICES ASSUME NEW q \in Publisher, publisher'[q].pc = "answered",
                        NEW e \in publisher'[q].batch \ publisher'[q].taken
                 PROVE  event'[e].attempts < failures'
      BY DEF RefusalsCounted
    <3>1. CASE q = p
      <4>1. e \in publisher[p].batch \ T
        BY <1>1, <2>1, <3>1
      <4>2. event[e].attempts \in Nat
        BY <1>1, <4>1
      <4> QED
        <5>1. event[e].attempts <= failures /\ event'[e].attempts = event[e].attempts
          BY <2>1, <2>5, <4>1
        <5>2. Cardinality(publisher[p].batch \ T) # 0
          BY <2>3, <4>1
        <5>3. failures' = failures + Cardinality(publisher[p].batch \ T)
              /\ Cardinality(publisher[p].batch \ T) \in Nat
          BY <2>1, <2>3
        <5> DEFINE refused == Cardinality(publisher[p].batch \ T)
                   tried == event[e].attempts
        <5>4. /\ refused \in Nat /\ refused # 0 /\ tried \in Nat /\ tried <= failures
              /\ event'[e].attempts = tried /\ failures' = failures + refused /\ failures \in Nat
          BY <1>1, <4>2, <5>1, <5>2, <5>3
        <5> HIDE DEF refused, tried
        <5> QED
          BY <5>4
    <3>2. CASE q # p
      <4>1. publisher'[q] = publisher[q]
        BY <1>1, <2>1, <3>2
      <4>2. event[e].attempts < failures /\ event[e].attempts \in Nat
        BY <1>1, <4>1 DEF Accounted, RefusalsCounted
      <4> QED
        BY <1>1, <2>1, <2>3, <4>2
    <3> QED
      BY <3>1, <3>2
  <2> QED
    BY <2>4, <2>6 DEF Accounted
<1>5. ASSUME NEW p \in Publisher, Settle(p)  PROVE Accounted'
  <2>1. /\ publisher[p].pc = "answered" /\ publisher' = [publisher EXCEPT ![p] = Idle]
        /\ failures' = failures
        /\ \A e \in Event : event'[e] =
             IF e \in publisher[p].batch
             THEN [event[e] EXCEPT !.attempts = event[e].attempts + 1,
                     !.state = IF e \in publisher[p].taken THEN "published" ELSE event[e].state]
             ELSE event[e]
    BY <1>5 DEF Settle
  <2>2. ASSUME NEW e \in publisher[p].batch
        PROVE  /\ e \in Event /\ event[e].state = "pending" /\ event[e].attempts \in Nat
               /\ event'[e].attempts = event[e].attempts + 1
               /\ event'[e].state = IF e \in publisher[p].taken THEN "published" ELSE "pending"
    <3>1. e \in Event /\ event[e].state = "pending"
      BY <1>1 DEF Inv, BatchPending
    <3>2. event[e] \in [state: State, version: Nat, attempts: Nat]
      BY <1>1, <3>1
    <3>3. event'[e] = [event[e] EXCEPT !.attempts = event[e].attempts + 1,
                         !.state = IF e \in publisher[p].taken THEN "published" ELSE event[e].state]
      BY <2>1, <3>1
    <3> QED
      BY <3>1, <3>2, <3>3
  <2>3. \A e \in Event \ publisher[p].batch : event'[e] = event[e]
    BY <2>1
  <2>4. RetriedAfterFailure'
    <3> SUFFICES ASSUME NEW e \in Event
                 PROVE  event'[e].attempts <=
                          failures' + (IF event'[e].state = "published" THEN 1 ELSE 0)
      BY DEF RetriedAfterFailure
    <3>1. event[e].attempts <= failures + (IF event[e].state = "published" THEN 1 ELSE 0)
      BY DEF Accounted, RetriedAfterFailure
    <3>2. e \in publisher[p].batch \ publisher[p].taken => event[e].attempts < failures
      BY <2>1 DEF Accounted, RefusalsCounted
    <3> QED
      <4>1. CASE e \in publisher[p].batch
        <5> DEFINE tried == event[e].attempts
        <5>1. /\ tried \in Nat /\ failures \in Nat /\ event'[e].attempts = tried + 1
              /\ event[e].state = "pending" /\ failures' = failures
              /\ event'[e].state = "published" \/ tried < failures
          BY <1>1, <2>1, <2>2, <3>2, <4>1
        <5>2. tried <= failures
          BY <3>1, <5>1
        <5> HIDE DEF tried
        <5> QED
          BY <5>1, <5>2
      <4>2. CASE e \notin publisher[p].batch
        BY <2>1, <2>3, <3>1, <4>2
      <4> QED
        BY <4>1, <4>2
  <2>5. RefusalsCounted'
    <3> SUFFICES ASSUME NEW q \in Publisher, publisher'[q].pc = "answered",
                        NEW e \in publisher'[q].batch \ publisher'[q].taken
                 PROVE  event'[e].attempts < failures'
      BY DEF RefusalsCounted
    <3>1. q # p /\ publisher'[q] = publisher[q]
      BY <1>1, <2>1 DEF Idle
    <3>2. e \in Event \ publisher[p].batch
      BY <1>1, <3>1 DEF Inv, BatchesDisjoint
    <3> QED
      BY <2>1, <2>3, <3>1, <3>2 DEF Accounted, RefusalsCounted
  <2> QED
    BY <2>4, <2>5 DEF Accounted
<1>6. CASE UNCHANGED vars
  BY <1>1, <1>6, AccountedQuiet DEF vars
<1> QED
  BY <1>2, <1>3, <1>4, <1>5, <1>6 DEF Next

\* A row marked published was taken by EventBridge, and no row is sent again but
\* after a failure, for any number of overlapping publishers, refusals, lost
\* answers and crashes.
THEOREM AttemptsAreAccounted == Spec => []AttemptsAccounted
BY Safety, AccountedInit, AccountedStep, PTL DEF Spec, Inv, Accounted, AttemptsAccounted

\* No two invocations of the publisher hold one row.
THEOREM RowsLockedOnce == Spec => []BatchesDisjoint
BY Safety, PTL DEF Inv

\* The events that can be delivered are the committed versions, each once.
THEOREM EventsAreHistory == Spec => []EventsMatchVersions
BY Safety, PTL DEF Inv

-----------------------------------------------------------------------------
(* The feed. *)

\* What the invariant says of the rows the feed is made of: two events of the
\* table have different names, and what EventBridge took is in the table.
LEMMA FeedRows ==
  ASSUME Inv
  PROVE  /\ \A d, e \in Pending : Name(d) = Name(e) => d = e
         /\ \A e \in accepted : e \in Event /\ event[e].state \in {"pending", "published"}
         /\ \A e \in Event : event[e].version \in Nat
         /\ \A e \in Event : CustomerOf[e] \in Customer
<1>1. ASSUME NEW d \in Pending, NEW e \in Pending, Name(d) = Name(e)  PROVE d = e
  <2>1. /\ d \in Event /\ e \in Event
        /\ CustomerOf[d] = CustomerOf[e] /\ event[d].version = event[e].version
        /\ event[d].state = "pending" /\ event[e].state = "pending"
    BY <1>1 DEF Pending, Name
  <2>2. CustomerOf[d] \in Customer /\ d \in Sent(CustomerOf[d]) /\ e \in Sent(CustomerOf[d])
    BY <2>1, OutboxAssumption DEF Sent
  <2>. QED BY <2>1, <2>2 DEF Inv, EventsMatchVersions
<1>2. \A e \in accepted : e \in Event /\ event[e].state \in {"pending", "published"}
  BY DEF Inv, TypeOK, EventsMatchVersions
<1>3. \A e \in Event : event[e].version \in Nat
  <2>1. event \in [Event -> Row]
    BY DEF Inv, TypeOK, Row
  <2>. QED BY <2>1, RowFields
<1>. QED BY <1>1, <1>2, <1>3, OutboxAssumption

LEMMA FeedInit == Init => Feed!Init
<1>. SUFFICES ASSUME Init PROVE Feed!Init
  OBVIOUS
<1>1. Pending = {}
  BY DEF Init, Pending
<1>. QED BY <1>1 DEF Init, Feed!Init

\* Events whose versions stay keep their names.
LEMMA NamesStay ==
  ASSUME NEW S, \A e \in S : event'[e].version = event[e].version
  PROVE  {Name(e)' : e \in S} = {Name(e) : e \in S}
BY DEF Name

\* A step that leaves the names alone, and the pending events pending, changes
\* the feed by what EventBridge takes of these.
LEMMA FeedSends ==
  ASSUME Inv, NEW T \in SUBSET Pending,
         event' = event, version' = version, view' = view, accepted' = accepted \cup T
  PROVE  [Feed!Next]_(Feed!vars)
<1>1. Pending' = Pending /\ \A e : Name(e)' = Name(e)
  BY DEF Pending, Name
<1>2. {Name(e) : e \in Pending}' = {Name(e) : e \in Pending}
  BY <1>1
<1>3. {Name(e) : e \in accepted}' = {Name(e) : e \in accepted} \cup {Name(e) : e \in T}
  BY <1>1
<1>4. {Name(e) : e \in T} \in SUBSET {Name(e) : e \in Pending}
  OBVIOUS
<1>5. Feed!Send({Name(e) : e \in T})
  BY <1>2, <1>3 DEF Feed!Send
<1>. QED BY <1>4, <1>5 DEF Feed!Next

\* A step that leaves the names alone, and what is pending and what was taken,
\* leaves the feed alone.
LEMMA FeedStutters ==
  ASSUME Inv, Pending' = Pending, accepted' = accepted, version' = version, view' = view,
         \A e \in Pending \cup accepted : event'[e].version = event[e].version
  PROVE  UNCHANGED Feed!vars
<1>1. {Name(e) : e \in Pending}' = {Name(e) : e \in Pending}
  BY NamesStay
<1>2. {Name(e) : e \in accepted}' = {Name(e) : e \in accepted}
  BY NamesStay
<1>. QED BY <1>1, <1>2 DEF Feed!vars

LEMMA BeginOrRollbackFeeds ==
  ASSUME Inv, NEW e \in Event, Begin(e) \/ Rollback(e)
  PROVE  UNCHANGED Feed!vars
<1>1. /\ event \in [Event -> Row]
      /\ event[e].state \in {"unused", "open"}
      /\ event' \in {[event EXCEPT ![e].state = "open"], [event EXCEPT ![e].state = "aborted"]}
      /\ UNCHANGED <<version, accepted, view>>
  BY DEF Begin, Rollback, Inv, TypeOK, Row
<1>2. \A d \in Event : event'[d].version = event[d].version
  BY <1>1 DEF Row
<1>3. Pending' = Pending
  BY <1>1 DEF Pending, Row
<1>. QED BY <1>1, <1>2, <1>3, FeedRows, FeedStutters DEF Pending

LEMMA CommitFeeds ==
  ASSUME Inv, NEW e \in Event, Commit(e)
  PROVE  Feed!Change(CustomerOf[e])
<1>1. /\ event \in [Event -> Row]
      /\ event[e].state = "open"
      /\ version' = [version EXCEPT ![CustomerOf[e]] = @ + 1]
      /\ event' = [event EXCEPT ![e].state = "pending", ![e].version = version[CustomerOf[e]] + 1]
      /\ UNCHANGED <<accepted, view>>
  BY DEF Commit, Inv, TypeOK, Row
<1>2. e \notin Pending /\ e \notin accepted /\ accepted \subseteq Event
  BY <1>1, FeedRows DEF Pending
<1>3. \A d \in Event \ {e} : event'[d] = event[d]
  BY <1>1
<1>4. event'[e].state = "pending" /\ event'[e].version = version[CustomerOf[e]] + 1
  BY <1>1 DEF Row
<1>5. Pending' = Pending \cup {e}
  BY <1>3, <1>4 DEF Pending
<1>6. {Name(d)' : d \in Pending} = {Name(d) : d \in Pending}
  BY <1>2, <1>3, NamesStay DEF Pending
<1>7. {Name(d)' : d \in accepted} = {Name(d) : d \in accepted}
  BY <1>2, <1>3, NamesStay
<1>8. Name(e)' = <<CustomerOf[e], version[CustomerOf[e]] + 1>>
  BY <1>4 DEF Name
<1>9. {Name(d) : d \in Pending}' =
        {Name(d) : d \in Pending} \cup {<<CustomerOf[e], version[CustomerOf[e]] + 1>>}
  BY <1>5, <1>6, <1>8
<1>10. {Name(d) : d \in accepted}' = {Name(d) : d \in accepted}
  BY <1>1, <1>7
<1>. QED BY <1>1, <1>9, <1>10 DEF Feed!Change

LEMMA SettleFeeds ==
  ASSUME Inv, NEW p \in Publisher, Settle(p)
  PROVE  [Feed!Next]_(Feed!vars)
<1>. DEFINE T == publisher[p].taken
<1>1. /\ event \in [Event -> Row]
      /\ \A d \in Event : event'[d] =
           IF d \in publisher[p].batch
           THEN [event[d] EXCEPT !.attempts = @ + 1, !.state = IF d \in T THEN "published" ELSE @]
           ELSE event[d]
      /\ UNCHANGED <<version, accepted, view>>
  BY DEF Settle, Inv, TypeOK, Row
<1>2. T \subseteq publisher[p].batch /\ T \subseteq accepted /\ T \subseteq Pending
  BY FeedRows DEF Inv, BatchPending, Pending
<1>3. \A d \in Event : event[d] \in Row /\ event'[d].version = event[d].version
  BY <1>1 DEF Row
<1>4. \A d \in Event : d \in T => event'[d].state = "published"
  BY <1>1, <1>2 DEF Row
<1>5. \A d \in Event : d \notin T => event'[d].state = event[d].state
  BY <1>1 DEF Row
<1>. HIDE DEF T
<1>6. Pending' = Pending \ T
  BY <1>4, <1>5 DEF Pending
<1>7. \A d \in Pending \ T, c \in T : Name(d) # Name(c)
  BY <1>2, FeedRows
<1>8. {Name(d) : d \in Pending \ T} = {Name(d) : d \in Pending} \ {Name(d) : d \in T}
  BY <1>7
<1>9. {Name(d) : d \in Pending}' = {Name(d) : d \in Pending \ T}
  <2>1. {Name(d)' : d \in Pending \ T} = {Name(d) : d \in Pending \ T}
    BY <1>3, NamesStay DEF Pending
  <2>. QED BY <2>1, <1>6
<1>10. {Name(d) : d \in accepted}' = {Name(d) : d \in accepted}
  <2>1. {Name(d)' : d \in accepted} = {Name(d) : d \in accepted}
    BY <1>3, FeedRows, NamesStay
  <2>. QED BY <2>1, <1>1
<1>11. {Name(d) : d \in T} \subseteq {Name(d) : d \in accepted} \cap {Name(d) : d \in Pending}
  BY <1>2
<1>12. Feed!Settle({Name(d) : d \in T})
  BY <1>1, <1>8, <1>9, <1>10, <1>11 DEF Feed!Settle
<1>. QED BY <1>11, <1>12 DEF Feed!Next

LEMMA DeliverFeeds ==
  ASSUME Inv, NEW e \in Event, Deliver(e)
  PROVE  Feed!Consume(Name(e)) /\ Name(e) \in {Name(d) : d \in accepted}
<1>1. /\ e \in accepted /\ event[e].version > view[CustomerOf[e]]
      /\ view' = [view EXCEPT ![CustomerOf[e]] = event[e].version]
      /\ UNCHANGED <<event, version, accepted>>
  BY DEF Deliver
<1>2. Pending' = Pending /\ \A d : Name(d)' = Name(d)
  BY <1>1 DEF Pending, Name
<1>3. {Name(d) : d \in Pending}' = {Name(d) : d \in Pending}
  BY <1>2
<1>4. {Name(d) : d \in accepted}' = {Name(d) : d \in accepted}
  BY <1>1, <1>2
<1>5. Name(e)[1] = CustomerOf[e] /\ Name(e)[2] = event[e].version
  BY DEF Name
<1>. QED BY <1>1, <1>3, <1>4, <1>5 DEF Feed!Consume

LEMMA FeedStep == Inv /\ [Next]_vars => [Feed!Next]_(Feed!vars)
<1>. SUFFICES ASSUME Inv, [Next]_vars PROVE [Feed!Next]_(Feed!vars)
  OBVIOUS
<1>1. ASSUME NEW e \in Event, Begin(e) \/ Rollback(e)  PROVE UNCHANGED Feed!vars
  BY <1>1, BeginOrRollbackFeeds
<1>2. ASSUME NEW e \in Event, Commit(e)  PROVE Feed!Next
  BY <1>2, CommitFeeds, OutboxAssumption DEF Feed!Next
<1>3. ASSUME NEW e \in Event, Deliver(e)  PROVE Feed!Next
  BY <1>3, DeliverFeeds DEF Feed!Next
<1>4. ASSUME NEW p \in Publisher, Select(p)  PROVE UNCHANGED Feed!vars
  BY <1>4, FeedStutters DEF Select, Pending
<1>5. \A p \in Publisher : publisher[p].batch \subseteq Pending
  BY DEF Inv, BatchPending, Pending, TypeOK
<1>6. ASSUME NEW p \in Publisher, Answer(p)  PROVE [Feed!Next]_(Feed!vars)
  BY <1>5, <1>6, FeedSends DEF Answer
<1>7. ASSUME NEW p \in Publisher, Crash(p)  PROVE [Feed!Next]_(Feed!vars)
  <2>1. PICK T \in SUBSET publisher[p].batch :
          accepted' = IF publisher[p].pc = "selected" THEN accepted \cup T ELSE accepted
    BY <1>7 DEF Crash
  <2>2. event' = event /\ version' = version /\ view' = view
    BY <1>7 DEF Crash
  <2>3. CASE publisher[p].pc = "selected"
    BY <1>5, <2>1, <2>2, <2>3, FeedSends
  <2>4. CASE publisher[p].pc # "selected"
    BY <2>1, <2>2, <2>4, FeedStutters DEF Pending
  <2>. QED BY <2>3, <2>4
<1>8. ASSUME NEW p \in Publisher, Settle(p)  PROVE [Feed!Next]_(Feed!vars)
  BY <1>8, SettleFeeds
<1>9. ASSUME UNCHANGED vars  PROVE UNCHANGED Feed!vars
  BY <1>9, FeedStutters DEF vars, Pending
<1>. QED BY <1>1, <1>2, <1>3, <1>4, <1>6, <1>7, <1>8, <1>9 DEF Next

\* The outbox implements the feed: whatever rolls back, overlaps or dies, to its
\* consumers each change and its event are one and nothing that waits is lost.
THEOREM FeedIsImplemented == Spec => ImplementsFeed
<1>1. Spec => [][Feed!Next]_(Feed!vars)
  BY Safety, FeedStep, PTL DEF Spec
<1>. QED BY <1>1, FeedInit, PTL DEF Spec, ImplementsFeed, Feed!Spec

\* What a consumer has seen was sent to it.
SeenWasSent == \A c \in Customer : view[c] = 0 \/ <<c, view[c]>> \in {Name(e) : e \in accepted}

LEMMA SeenInit == Init => SeenWasSent
BY DEF Init, SeenWasSent

LEMMA SeenStep == Inv /\ SeenWasSent /\ [Feed!Next]_(Feed!vars) => SeenWasSent'
<1>. SUFFICES ASSUME Inv, SeenWasSent, [Feed!Next]_(Feed!vars), NEW c \in Customer
              PROVE  view'[c] = 0 \/ <<c, view'[c]>> \in {Name(e) : e \in accepted}'
  BY DEF SeenWasSent
<1>. DEFINE S == {Name(e) : e \in accepted}
<1>1. view[c] = 0 \/ <<c, view[c]>> \in S
  BY DEF SeenWasSent
<1>2. S' = {Name(e) : e \in accepted}'
  OBVIOUS
<1>3. CASE UNCHANGED <<view, S>>
  BY <1>1, <1>2, <1>3
<1>4. CASE view' = view /\ S \subseteq S'
  BY <1>1, <1>2, <1>4
<1>5. ASSUME NEW e \in S, Feed!Consume(e)
      PROVE  view'[c] = 0 \/ <<c, view'[c]>> \in S'
  <2>1. S' = S /\ view' = [view EXCEPT ![e[1]] = e[2]]
    BY <1>5 DEF Feed!Consume
  <2>2. PICK d \in accepted : e = <<CustomerOf[d], event[d].version>>
    BY DEF Name
  <2>3. view \in [Customer -> Nat] /\ CustomerOf[d] \in Customer
    BY FeedRows DEF Inv, TypeOK
  <2>4. CASE c = CustomerOf[d]
    <3>1. view'[c] = event[d].version
      BY <2>1, <2>2, <2>3, <2>4
    <3>. QED BY <2>1, <2>2, <2>4, <3>1
  <2>5. CASE c # CustomerOf[d]
    <3>1. view'[c] = view[c]
      BY <2>1, <2>2, <2>3, <2>5
    <3>. QED BY <1>1, <2>1, <3>1
  <2>. QED BY <2>4, <2>5
<1>6. CASE Feed!Next
  <2>1. ASSUME NEW b \in Customer, Feed!Change(b)  PROVE view' = view /\ S' = S
    BY <2>1 DEF Feed!Change
  <2>2. ASSUME NEW T, Feed!Send(T) \/ Feed!Settle(T)  PROVE view' = view /\ S \subseteq S'
    BY <2>2 DEF Feed!Send, Feed!Settle
  <2>. QED BY <1>1, <1>2, <1>4, <1>5, <1>6, <2>1, <2>2 DEF Feed!Next
<1>. QED BY <1>3, <1>6 DEF Feed!vars

LEMMA InvIsFaithful == Inv /\ SeenWasSent => Feed!Faithful
<1>. SUFFICES ASSUME Inv, SeenWasSent, NEW c \in Customer
              PROVE  /\ \A n \in 1 .. version[c] :
                          <<c, n>> \in {Name(e) : e \in Pending} \cup {Name(e) : e \in accepted}
                     /\ \A x \in {Name(e) : e \in Pending} \cup {Name(e) : e \in accepted} :
                          x[1] = c => x[2] \in 1 .. version[c]
  BY DEF Feed!Faithful, SeenWasSent
<1>1. {event[e].version : e \in Sent(c)} = 1 .. version[c]
  BY DEF Inv, EventsMatchVersions
<1>2. \A e \in Event : CustomerOf[e] = c /\ (e \in Pending \/ e \in accepted) <=> e \in Sent(c)
  BY FeedRows DEF Inv, PublishedWereAccepted, Pending, Sent
<1>3. ASSUME NEW n \in 1 .. version[c]
      PROVE  <<c, n>> \in {Name(e) : e \in Pending} \cup {Name(e) : e \in accepted}
  <2>1. PICK e \in Sent(c) : event[e].version = n
    BY <1>1
  <2>2. e \in Event /\ Name(e) = <<c, n>>
    BY <2>1 DEF Sent, Name
  <2>. QED BY <1>2, <2>2
<1>4. ASSUME NEW e \in Pending \cup accepted, Name(e)[1] = c
      PROVE  Name(e)[2] \in 1 .. version[c]
  <2>1. e \in Event /\ CustomerOf[e] = c /\ Name(e)[2] = event[e].version
    BY <1>4, FeedRows DEF Pending, Name
  <2>. QED BY <1>1, <1>2, <2>1
<1>. QED BY <1>3, <1>4

\* Nothing is lost and nothing invented, for any number of transactions,
\* customers, overlapping publishers and failures: each version a customer has had
\* waits or was sent, and consumers have seen only such.
THEOREM FeedIsFaithful == Spec => []Feed!Faithful
<1>1. Spec => [][Feed!Next]_(Feed!vars)
  BY Safety, FeedStep, PTL DEF Spec
<1>. QED BY <1>1, Safety, SeenInit, SeenStep, InvIsFaithful, PTL DEF Spec

\* What the table says is what happened (enqueue, lambda_handler of the outbox).
THEOREM TableIsTruthful == Spec => []TableTruthful
BY AttemptsAreAccounted, EventsAreHistory, PTL DEF TableTruthful

-----------------------------------------------------------------------------
(* Liveness: every committed change is seen. *)

\* A publisher is idle, or holds rows.
BatchesFull ==
  \A p \in Publisher : \/ publisher[p] = Idle
                       \/ publisher[p].pc \in {"selected", "answered"} /\ publisher[p].batch # {}

LEMMA BatchesStayFull == Spec => []BatchesFull
<1>1. Init => BatchesFull
  BY DEF Init, BatchesFull
<1>2. Inv /\ BatchesFull /\ [Next]_vars => BatchesFull'
  <2>. SUFFICES ASSUME Inv, BatchesFull, [Next]_vars, NEW p \in Publisher
                PROVE  \/ publisher'[p] = Idle
                       \/ publisher'[p].pc \in {"selected", "answered"} /\ publisher'[p].batch # {}
    BY DEF BatchesFull
  <2>1. \/ publisher[p] = Idle
        \/ publisher[p].pc \in {"selected", "answered"} /\ publisher[p].batch # {}
    BY DEF BatchesFull
  <2>2. publisher \in [Publisher -> [pc: {"idle", "selected", "answered"},
                                     batch: SUBSET Event, taken: SUBSET Event]]
    BY DEF Inv, TypeOK
  <2>3. CASE publisher' = publisher
    BY <2>1, <2>3
  <2>4. ASSUME NEW q \in Publisher, Select(q)  PROVE publisher'[p] = publisher[p] \/
                 (publisher'[p].pc = "selected" /\ publisher'[p].batch # {})
    BY <2>2, <2>4 DEF Select, IsBatch
  <2>5. ASSUME NEW q \in Publisher, Answer(q)  PROVE publisher'[p] = publisher[p] \/
                 (publisher'[p].pc = "answered" /\ publisher'[p].batch = publisher[p].batch /\ q = p)
    BY <2>2, <2>5 DEF Answer
  <2>6. ASSUME NEW q \in Publisher, Answer(q)  PROVE publisher[q].batch # {}
    <3>1. publisher[q].pc = "selected"
      BY <2>6 DEF Answer
    <3>. QED BY <3>1 DEF BatchesFull, Idle
  <2>7. ASSUME NEW q \in Publisher, Settle(q) \/ Crash(q)
        PROVE  publisher'[p] = publisher[p] \/ publisher'[p] = Idle
    BY <2>2, <2>7 DEF Settle, Crash
  <2>8. ASSUME NEW e \in Event, Begin(e) \/ Commit(e) \/ Rollback(e) \/ Deliver(e)
        PROVE  publisher' = publisher
    BY <2>8 DEF Begin, Commit, Rollback, Deliver
  <2>. QED BY <2>1, <2>3, <2>4, <2>5, <2>6, <2>7, <2>8 DEF Next, vars
<1>. QED BY <1>1, <1>2, Safety, PTL DEF Spec

\* What was taken is delivered: the version of an event is final once it is taken,
\* and a consumer forgets nothing.
Taken(e) == e \in accepted
Seen(e) == view[CustomerOf[e]] >= event[e].version

LEMMA TakenOrSeenStays ==
  ASSUME Inv, [Next]_vars, NEW e \in Event, Taken(e)
  PROVE  Taken(e)' /\ (Seen(e) => Seen(e)')
<1>1. event[e].state \in {"pending", "published"} /\ CustomerOf[e] \in Customer
  BY FeedRows DEF Taken
<1>2. event \in [Event -> Row] /\ view \in [Customer -> Nat]
  BY DEF Inv, TypeOK, Row
<1>3. accepted \subseteq accepted'
  BY DEF Next, vars, Begin, Commit, Rollback, Deliver, Select, Answer, Settle, Crash
<1>4. event'[e].version = event[e].version
  <2>1. ASSUME NEW d \in Event, Begin(d) \/ Commit(d) \/ Rollback(d)  PROVE event'[e] = event[e]
    BY <1>1, <1>2, <2>1 DEF Begin, Commit, Rollback
  <2>2. ASSUME NEW p \in Publisher, Settle(p)  PROVE event'[e].version = event[e].version
    BY <1>2, <2>2 DEF Settle, Row
  <2>. QED BY <2>1, <2>2 DEF Next, vars, Deliver, Select, Answer, Crash
<1>5. view'[CustomerOf[e]] >= view[CustomerOf[e]]
  <2>1. ASSUME NEW d \in Event, Deliver(d)  PROVE view'[CustomerOf[e]] >= view[CustomerOf[e]]
    <3>1. view[CustomerOf[e]] \in Nat /\ event[d].version \in Nat
      BY <1>1, <1>2, FeedRows
    <3>. QED BY <1>1, <1>2, <2>1, <3>1 DEF Deliver
  <2>2. view' = view => view'[CustomerOf[e]] >= view[CustomerOf[e]]
    BY <1>1, <1>2
  <2>. QED BY <2>1, <2>2 DEF Next, vars, Begin, Commit, Rollback, Select, Answer, Settle, Crash
<1>6. /\ view[CustomerOf[e]] \in Nat /\ view'[CustomerOf[e]] >= view[CustomerOf[e]]
      /\ event[e].version \in Nat /\ view'[CustomerOf[e]] \in Nat
  <2>1. Inv'
    BY StepInv
  <2>. QED BY <1>1, <1>2, <1>5, <2>1, FeedRows DEF Inv, TypeOK
<1>. QED BY <1>3, <1>4, <1>6 DEF Taken, Seen

\* What a suffix of a behaviour knows of its steps.
Runs == []Inv /\ []BatchesFull /\ []OutboxGuardsSuffice /\ [][Next]_vars

LEMMA SuffixRuns == Spec /\ []OutboxGuardsSuffice => Runs
BY Safety, BatchesStayFull, PTL DEF Spec, Runs

LEMMA TakenIsSeen ==
  ASSUME NEW e \in Event
  PROVE  Runs /\ DeliveryFairness(e) => [](Taken(e) => <>Seen(e))
<1>1. Inv /\ OutboxGuardsSuffice => (Taken(e) /\ ~Seen(e) => ENABLED <<Deliver(e)>>_vars)
  <2>. SUFFICES ASSUME Inv, OutboxGuardsSuffice, Taken(e), ~Seen(e)
                PROVE  ENABLED <<Deliver(e)>>_vars
    OBVIOUS
  <2>1. view[CustomerOf[e]] \in Nat /\ event[e].version \in Nat
    BY FeedRows DEF Inv, TypeOK
  <2>2. e \in accepted /\ event[e].version > view[CustomerOf[e]]
    BY <2>1 DEF Taken, Seen
  <2>. QED BY <2>2 DEF OutboxGuardsSuffice
<1>2. Inv /\ <<Deliver(e)>>_vars => Seen(e)'
  <2>. SUFFICES ASSUME Inv, Deliver(e) PROVE Seen(e)'
    OBVIOUS
  <2>1. CustomerOf[e] \in Customer /\ event[e].version \in Nat /\ view \in [Customer -> Nat]
    BY FeedRows DEF Inv, TypeOK
  <2>2. view'[CustomerOf[e]] = event[e].version /\ event' = event
    BY <2>1 DEF Deliver
  <2>. QED BY <2>1, <2>2 DEF Seen
<1>3. Inv /\ [Next]_vars => (Taken(e) => Taken(e)')
  BY TakenOrSeenStays
<1>. HIDE DEF Taken, Seen
<1>. QED BY <1>1, <1>2, <1>3, PTL DEF Runs, DeliveryFairness

\* Nothing fails, and no further row is marked published.
Quiet == [][failures' = failures]_vars /\ [][Published' = Published]_vars

\* A publisher has selected a batch; it is going to mark rows as published.
Chosen(p) == publisher[p].pc = "selected"
Due(p) == publisher[p].pc = "answered" /\ publisher[p].taken # {}

\* The steps of a publisher while nothing fails and nothing is marked.
LEMMA QuietPublisher ==
  ASSUME Inv, BatchesFull, [Next]_vars,
         [failures' = failures]_vars, [Published' = Published]_vars, NEW p \in Publisher
  PROVE  /\ publisher[p] = Idle => publisher'[p] = Idle \/ Chosen(p)'
         /\ Chosen(p) => UNCHANGED publisher[p] \/ Due(p)'
         /\ publisher[p].pc = "answered" =>
              UNCHANGED publisher[p] \/ (Settle(p) /\ publisher'[p] = Idle /\ publisher[p].taken = {})
<1>1. publisher \in [Publisher -> [pc: {"idle", "selected", "answered"},
                                   batch: SUBSET Event, taken: SUBSET Event]]
  BY DEF Inv, TypeOK
<1>2. CASE UNCHANGED vars
  BY <1>2 DEF vars
<1>3. ASSUME NEW e \in Event, Begin(e) \/ Commit(e) \/ Rollback(e) \/ Deliver(e)
      PROVE  publisher' = publisher
  BY <1>3 DEF Begin, Commit, Rollback, Deliver
<1>4. ASSUME NEW q \in Publisher, q # p, Select(q) \/ Answer(q) \/ Settle(q) \/ Crash(q)
      PROVE  publisher'[p] = publisher[p]
  BY <1>1, <1>4 DEF Select, Answer, Settle, Crash
<1>5. CASE Select(p)
  BY <1>1, <1>5 DEF Select, Idle, Chosen
<1>6. ~Crash(p) \/ UNCHANGED vars
  <2>1. failures \in Nat
    BY OutboxAssumption DEF Inv, TypeOK
  <2>. QED BY <2>1 DEF Crash
<1>7. CASE Answer(p) /\ ~UNCHANGED vars
  <2>1. PICK T \in SUBSET publisher[p].batch :
          /\ failures' = failures + Cardinality(publisher[p].batch \ T)
          /\ publisher' = [publisher EXCEPT ![p].pc = "answered", ![p].taken = T]
    BY <1>7 DEF Answer
  <2>2. IsFiniteSet(publisher[p].batch \ T)
    <3>1. publisher[p].batch \ T \subseteq Event
      BY <1>1
    <3>. QED BY <3>1, FS_Subset, OutboxAssumption
  <2>3. Cardinality(publisher[p].batch \ T) = 0
    <3>1. failures \in Nat /\ failures' = failures
      BY <1>7, OutboxAssumption DEF Inv, TypeOK
    <3>2. Cardinality(publisher[p].batch \ T) \in Nat
      BY <2>2, FS_CardinalityType
    <3>. QED BY ONLY <2>1, <3>1, <3>2
  <2>4. publisher[p].batch \ T = {}
    BY <2>2, <2>3, FS_EmptySet
  <2>5. publisher[p].pc = "selected" /\ publisher[p].batch # {}
    BY <1>7 DEF Answer, BatchesFull, Idle
  <2>6. publisher'[p].pc = "answered" /\ publisher'[p].taken = T /\ T # {}
    BY <1>1, <2>1, <2>4, <2>5
  <2>. QED BY <2>5, <2>6 DEF Due, Chosen, Idle
<1>8. CASE Settle(p) /\ ~UNCHANGED vars
  <2>1. publisher[p].pc = "answered" /\ publisher'[p] = Idle
    BY <1>1, <1>8 DEF Settle
  <2>2. ASSUME NEW e \in publisher[p].taken  PROVE FALSE
    <3>1. e \in publisher[p].batch /\ e \in Event /\ event[e].state = "pending"
      BY <1>1 DEF Inv, BatchPending
    <3>2. event'[e].state = "published"
      <4>1. event[e] \in Row
        BY <3>1 DEF Inv, TypeOK, Row
      <4>2. event'[e] = [event[e] EXCEPT !.attempts = @ + 1, !.state = "published"]
        BY <1>8, <3>1 DEF Settle
      <4>. QED BY <4>1, <4>2 DEF Row
    <3>. QED BY <1>8, <3>1, <3>2 DEF Published
  <2>3. publisher[p].taken = {}
    BY <2>2
  <2>. QED BY <1>8, <2>1, <2>3 DEF Chosen, Idle
<1>. QED BY <1>2, <1>3, <1>4, <1>5, <1>6, <1>7, <1>8 DEF Next

LEMMA WorkMoves ==
  ASSUME Inv, NEW p \in Publisher, Answer(p) \/ Settle(p)
  PROVE  publisher'[p] # publisher[p]
<1>1. publisher \in [Publisher -> [pc: {"idle", "selected", "answered"},
                                   batch: SUBSET Event, taken: SUBSET Event]]
  BY DEF Inv, TypeOK
<1>2. ASSUME Answer(p)  PROVE publisher[p].pc = "selected" /\ publisher'[p].pc = "answered"
  BY <1>1, <1>2 DEF Answer
<1>3. ASSUME Settle(p)  PROVE publisher[p].pc = "answered" /\ publisher'[p].pc = "idle"
  BY <1>1, <1>3 DEF Settle, Idle
<1>. QED BY <1>2, <1>3

\* What holds of a step in a quiet suffix.
QuietStep ==
  /\ Inv /\ BatchesFull /\ [Next]_vars
  /\ [failures' = failures]_vars /\ [Published' = Published]_vars

\* Then no publisher selects rows: it would have to mark them as published.
LEMMA NothingIsChosen ==
  ASSUME NEW p \in Publisher
  PROVE  Runs /\ PublisherFairness(p) => [](Quiet => []~Chosen(p) /\ []~Due(p))
<1>1. QuietStep => (Due(p) => Due(p)') /\ (Chosen(p) => Chosen(p)' \/ Due(p)')
  BY QuietPublisher DEF QuietStep, Due, Chosen
<1>2. QuietStep => ~(Due(p) /\ <<Answer(p) \/ Settle(p)>>_vars)
  BY QuietPublisher, WorkMoves DEF QuietStep, Due
<1>3. QuietStep => (Chosen(p) /\ <<Answer(p) \/ Settle(p)>>_vars => Due(p)')
  BY QuietPublisher, WorkMoves DEF QuietStep
<1>4. OutboxGuardsSuffice => (Chosen(p) \/ Due(p) => ENABLED <<Answer(p) \/ Settle(p)>>_vars)
  BY DEF OutboxGuardsSuffice, Chosen, Due
<1>. HIDE DEF Chosen, Due
<1>5. Runs /\ PublisherFairness(p) => [](Quiet => []~Due(p))
  BY <1>1, <1>2, <1>4, PTL DEF Runs, Quiet, PublisherFairness, QuietStep
<1>. QED BY <1>1, <1>3, <1>4, <1>5, PTL DEF Runs, Quiet, PublisherFairness, QuietStep

\* Each publisher comes to rest, and lets go of the rows it held.
Rests(p) == publisher[p] = Idle

LEMMA PublisherRests ==
  ASSUME NEW p \in Publisher
  PROVE  Runs /\ PublisherFairness(p) => [](Quiet => <>[]Rests(p))
<1>1. BatchesFull => (~Rests(p) /\ ~Chosen(p) => ENABLED <<Answer(p) \/ Settle(p)>>_vars
                                             \/ ~OutboxGuardsSuffice)
  BY DEF BatchesFull, Chosen, OutboxGuardsSuffice, Rests
<1>2. QuietStep => (Rests(p) => Rests(p)' \/ Chosen(p)')
  BY QuietPublisher DEF QuietStep, Rests
<1>3. QuietStep => (~Rests(p) /\ ~Chosen(p) /\ <<Answer(p) \/ Settle(p)>>_vars => Rests(p)')
  BY QuietPublisher, WorkMoves DEF QuietStep, BatchesFull, Chosen, Rests
<1>. QED
  BY <1>1, <1>2, <1>3, NothingIsChosen, PTL DEF Runs, Quiet, PublisherFairness, QuietStep

LEMMA RowIsFreed ==
  ASSUME NEW e \in Event, NEW p \in Publisher
  PROVE  Runs /\ PublisherFairness(p)
         => [](Quiet => [](e \in publisher[p].batch => <>~Locked(e)))
<1>. DEFINE Holds == e \in publisher[p].batch
            Free == ~Locked(e)
<1>1. Rests(p) => ~Holds
  BY DEF Idle, Rests
<1>2. QuietStep => (Holds /\ ~Chosen(p) => Holds' \/ Free')
  <2>. SUFFICES ASSUME QuietStep, Holds, ~Chosen(p), ~Holds'  PROVE Free'
    OBVIOUS
  <2>1. publisher[p].pc = "answered"
    BY <1>1 DEF QuietStep, BatchesFull, Chosen, Rests
  <2>2. Settle(p)
    BY <2>1, QuietPublisher DEF QuietStep
  <2>3. \A q \in Publisher \ {p} : publisher'[q] = publisher[q] /\ e \notin publisher[q].batch
    BY <2>2 DEF QuietStep, Inv, TypeOK, BatchesDisjoint, Settle
  <2>. QED BY <2>3 DEF Locked
<1>. HIDE DEF Holds, Free
<1>3. Runs /\ PublisherFairness(p) => [](Quiet => <>[]Rests(p))
  BY PublisherRests
<1>4. Runs /\ PublisherFairness(p) => [](Quiet => [](Holds => <>Free))
  BY <1>1, <1>2, <1>3, NothingIsChosen, PTL DEF Runs, Quiet, PublisherFairness, QuietStep
<1>. QED BY <1>4 DEF Holds, Free

\* No publisher ever selects, and a row that is held is let go: both of all publishers.
AllFair == \A p \in Publisher : PublisherFairness(p)
NoneChosen == \A p \in Publisher : ~Chosen(p)

LEMMA NothingIsChosenByAny ==
  Runs /\ AllFair => [](Quiet => []NoneChosen)
<1>1. Runs /\ AllFair => \A p \in Publisher : [](Quiet => []~Chosen(p))
  <2>. SUFFICES ASSUME NEW p \in Publisher
                PROVE  Runs /\ PublisherFairness(p) => [](Quiet => []~Chosen(p))
    BY DEF AllFair
  <2>. QED BY NothingIsChosen, PTL
<1>. HIDE DEF Chosen, Quiet
<1>2. (\A p \in Publisher : [](Quiet => []~Chosen(p)))
      => [](\A p \in Publisher : (Quiet => []~Chosen(p)))
  OBVIOUS
<1>3. (\A p \in Publisher : (Quiet => []~Chosen(p)))
      => (Quiet => (\A p \in Publisher : []~Chosen(p)))
  OBVIOUS
<1>4. (\A p \in Publisher : []~Chosen(p)) => []NoneChosen
  BY DEF NoneChosen
<1>. QED BY <1>1, <1>2, <1>3, <1>4, PTL

LEMMA RowsAreFreed ==
  ASSUME NEW e \in Event
  PROVE  Runs /\ AllFair => [](Quiet => [](Locked(e) => <>~Locked(e)))
<1>. DEFINE Holds(p) == e \in publisher[p].batch
            Free == ~Locked(e)
<1>1. Runs /\ AllFair => \A p \in Publisher : [](Quiet => [](Holds(p) => <>Free))
  BY RowIsFreed DEF AllFair
<1>2. Locked(e) <=> \E p \in Publisher : Holds(p)
  BY DEF Locked
<1>. HIDE DEF Holds, Free, Quiet
<1>3. (\A p \in Publisher : [](Quiet => [](Holds(p) => <>Free)))
      => [](\A p \in Publisher : (Quiet => [](Holds(p) => <>Free)))
  OBVIOUS
<1>4. (\A p \in Publisher : (Quiet => [](Holds(p) => <>Free)))
      => (Quiet => (\A p \in Publisher : [](Holds(p) => <>Free)))
  OBVIOUS
<1>5. (\A p \in Publisher : [](Holds(p) => <>Free))
      => [](\A p \in Publisher : (Holds(p) => <>Free))
  OBVIOUS
<1>6. (\A p \in Publisher : (Holds(p) => <>Free)) => ((\E p \in Publisher : Holds(p)) => <>Free)
  OBVIOUS
<1>7. Runs /\ AllFair => [](Quiet => [](Locked(e) => <>Free))
  BY <1>1, <1>2, <1>3, <1>4, <1>5, <1>6, PTL
<1>. QED BY <1>7 DEF Free

\* A row that waits goes on waiting until it is published; while nobody selects,
\* a row nobody holds stays free.
LEMMA PendingStays ==
  ASSUME Inv, [Next]_vars, NEW e \in Event, event[e].state = "pending"
  PROVE  event'[e].state \in {"pending", "published"}
<1>1. event \in [Event -> Row]
  BY DEF Inv, TypeOK, Row
<1>2. ASSUME NEW d \in Event, Begin(d) \/ Commit(d) \/ Rollback(d)  PROVE event'[e] = event[e]
  BY <1>1, <1>2 DEF Begin, Commit, Rollback
<1>3. ASSUME NEW p \in Publisher, Settle(p)  PROVE event'[e].state \in {"pending", "published"}
  BY <1>1, <1>3 DEF Settle, Row
<1>. QED BY <1>2, <1>3 DEF Next, vars, Deliver, Select, Answer, Crash

LEMMA FreeStays ==
  ASSUME Inv, [Next]_vars, NEW e \in Event, ~Locked(e), NoneChosen'
  PROVE  ~Locked(e)'
<1>1. publisher \in [Publisher -> [pc: {"idle", "selected", "answered"},
                                   batch: SUBSET Event, taken: SUBSET Event]]
  BY DEF Inv, TypeOK
<1>2. ASSUME NEW q \in Publisher, Select(q)  PROVE FALSE
  BY <1>1, <1>2 DEF Select, Chosen, NoneChosen
<1>3. ASSUME NEW q \in Publisher, Answer(q) \/ Settle(q) \/ Crash(q), NEW p \in Publisher
      PROVE  publisher'[p].batch \subseteq publisher[p].batch
  <2>1. CASE Answer(q)
    BY <1>1, <2>1 DEF Answer
  <2>2. CASE Settle(q) \/ Crash(q)
    <3>1. publisher' = [publisher EXCEPT ![q] = Idle]
      BY <2>2 DEF Settle, Crash
    <3>. QED BY <1>1, <3>1 DEF Idle
  <2>. QED BY <1>3, <2>1, <2>2
<1>4. CASE publisher' = publisher
  BY <1>4 DEF Locked
<1>. QED BY <1>2, <1>3, <1>4 DEF Next, vars, Begin, Commit, Rollback, Deliver, Locked

\* So no event goes on waiting.
LEMMA NothingWaits ==
  ASSUME NEW e \in Event, Publisher # {}
  PROVE  Runs /\ AllFair => [](Quiet => []~(e \in Pending))
<1>. PICK p \in Publisher : TRUE
  OBVIOUS
<1>. DEFINE W == e \in Pending
            Free == ~Locked(e)
<1>1. QuietStep /\ W => W'
  <2>. SUFFICES ASSUME QuietStep, event[e].state = "pending"  PROVE event'[e].state = "pending"
    BY DEF Pending
  <2>1. Published' = Published
    BY DEF QuietStep, vars, Published
  <2>. QED BY <2>1, PendingStays DEF QuietStep, Published
<1>2. QuietStep /\ Free /\ NoneChosen' => Free'
  BY FreeStays DEF QuietStep
<1>3. OutboxGuardsSuffice => (W /\ Free /\ Rests(p) => ENABLED <<Select(p)>>_vars)
  <2>1. W /\ Free => e \in Selectable
    BY DEF Pending, Selectable
  <2>2. OutboxGuardsSuffice => (publisher[p] = Idle /\ Selectable # {} => ENABLED <<Select(p)>>_vars)
    BY DEF OutboxGuardsSuffice
  <2>. QED BY <2>1, <2>2 DEF Rests
<1>4. QuietStep /\ <<Select(p)>>_vars => ~NoneChosen'
  BY DEF QuietStep, Inv, TypeOK, Select, Chosen, NoneChosen
<1>5. AllFair => PublisherFairness(p)
  BY DEF AllFair
<1>6. Runs /\ AllFair => [](Quiet => <>[]Rests(p))
  BY <1>5, PublisherRests, PTL
<1>7. Runs /\ AllFair => [](Quiet => []NoneChosen)
  BY NothingIsChosenByAny
<1>8. Runs /\ AllFair => [](Quiet => [](Locked(e) => <>Free))
  BY RowsAreFreed
<1>9. Locked(e) \/ Free
  OBVIOUS
<1>. HIDE DEF W, Free
<1>10. Runs /\ AllFair => [](Quiet => []~W)
  BY <1>1, <1>2, <1>3, <1>4, <1>5, <1>6, <1>7, <1>8, <1>9, PTL
     DEF Runs, Quiet, PublisherFairness, QuietStep
<1>. QED BY <1>10 DEF W

\* Every event that waits is seen, whatever failed before and however publishers
\* overlap, if at last no failure happens and publications do not go on for ever.
LEMMA EachIsSeen ==
  ASSUME NEW e \in Event, Publisher # {}
  PROVE  Runs /\ AllFair /\ DeliveryFairness(e) /\ FailuresCease /\ PublicationsCease
         => SeenAtLast(e)
<1>. DEFINE W == event[e].state = "pending"
            P == event[e].state = "published"
<1>1. Inv /\ [Next]_vars => (W => W' \/ P')
  BY PendingStays
<1>2. Inv => (P => Taken(e))
  BY DEF Inv, PublishedWereAccepted, Taken
<1>3. W <=> e \in Pending
  BY DEF Pending
<1>4. Runs /\ DeliveryFairness(e) => [](Taken(e) => <>Seen(e))
  BY TakenIsSeen
<1>5. Runs /\ AllFair => [](Quiet => []~(e \in Pending))
  BY NothingWaits
<1>. HIDE DEF W, P
<1>6. FailuresCease /\ PublicationsCease => <>Quiet
  BY PTL DEF FailuresCease, PublicationsCease, Quiet
<1>7. Runs /\ AllFair /\ DeliveryFairness(e) /\ <>Quiet => [](W => <>Seen(e))
  BY <1>1, <1>2, <1>3, <1>4, <1>5, PTL DEF Runs
<1>8. SeenAtLast(e) <=> [](W => <>Seen(e))
  BY PTL DEF SeenAtLast, W, Seen
<1>. QED BY <1>6, <1>7, <1>8

\* Every committed change reaches its consumer: what it needs is that nothing but
\* its own guard keeps a step from being taken, that failures and publications come
\* to an end, and that somebody publishes (lambda_handler of the outbox, and its
\* schedule).
THEOREM EventsAreSeen ==
  ASSUME Publisher # {}
  PROVE  FairSpec /\ []OutboxGuardsSuffice /\ FailuresCease /\ PublicationsCease => EventuallySeen
<1>1. FairSpec /\ []OutboxGuardsSuffice => Runs
  BY SuffixRuns DEF FairSpec
<1>2. FairSpec => AllFair /\ \A e \in Event : DeliveryFairness(e)
  BY DEF FairSpec, Fairness, AllFair
<1>. QED BY <1>1, <1>2, EachIsSeen DEF EventuallySeen

=============================================================================
