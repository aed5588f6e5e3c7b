------------------------ MODULE SessionControlProofs ------------------------
(***************************************************************************)
(* What SessionControl guarantees for every set of tickets and operation   *)
(* ids and every bound, and what the callers of a session behind the       *)
(* server (HttpPlane) may rely on, for any calls of any routes.            *)
(*                                                                         *)
(* The invariants the runs check are not inductive.  ControlInv adds which *)
(* ticket a record belongs to, that an identity once used stays in the     *)
(* records, and whose ticket may be valid in which state.  HttpInv adds to *)
(* it whose call a ticket is, what the ticket and its record say when the  *)
(* call is where it is, and that a session that is over is stopped.        *)
(***************************************************************************)
EXTENDS HttpPlane, TLAPS

\* Every record names a ticket that was issued, and every ticket that was issued
\* for an operation is in the records.
RecordsMatchTickets ==
  /\ \A o \in DOMAIN records : records[o].ticket \in DOMAIN tickets
  /\ \A t \in DOMAIN tickets : tickets[t].op # NoOp => tickets[t].op \in DOMAIN records

\* No ticket is newer than the control, and one of the present epoch belongs to
\* the owner the state says, except while the session pauses or has stopped.
ValidTicketIsOwners ==
  /\ \A t \in DOMAIN tickets : tickets[t].epoch <= epoch
  /\ active # NoTicket /\ tickets[active].epoch = epoch
       /\ state \notin {"STOPPED", "PAUSE_REQUESTED"}
     => (tickets[active].actor = "agent" <=> state = "AGENT_ACTIVE")

ControlInv ==
  /\ ControlTypeOK
  /\ InFlightIsActive
  /\ IdentitySpentOnce
  /\ RecordsMatchTickets
  /\ PauseHasOwner
  /\ ValidTicketIsOwners

-----------------------------------------------------------------------------
(* Lemmas about the operators the actions are built from.                  *)

\* A fresh record's fields are of their types.
LEMMA FactTypes ==
  /\ \A s \in Statuses, d \in BOOLEAN : Fact(s, d) \in Facts
  /\ \A f \in Facts : f.status \in Statuses /\ f.dispatched \in BOOLEAN
  /\ NoFact.status \notin Statuses /\ NoFact.dispatched = FALSE
BY DEF Fact, Facts, NoFact, Statuses, Terminal

\* finalize and finish leave everything of a record but its status, touch the
\* ticket's own operation only, and give it a terminal status.
LEMMA FinalizedRecordsEffect ==
  ASSUME ControlInv, NEW t \in DOMAIN tickets, NEW status \in Terminal,
         NEW o \in DOMAIN records
  PROVE  LET new == FinalizedRecords(t, status) IN
         /\ DOMAIN new = DOMAIN records
         /\ new[o] \in StoredOperation
         /\ new[o].ticket = records[o].ticket
         /\ new[o].acknowledgment = records[o].acknowledgment
         /\ new[o].record.dispatched = records[o].record.dispatched
         /\ o # tickets[t].op \/ finalized => new[o].record.status = records[o].record.status
         /\ o = tickets[t].op /\ ~finalized => new[o].record.status = status
<1>1. records[o] \in StoredOperation
  BY DEF ControlInv, ControlTypeOK
<1>2. CASE ~finalized /\ tickets[t].op \in DOMAIN records
  <2> DEFINE r == [records[o] EXCEPT !.record.status = status]
  <2>1. /\ r \in StoredOperation
        /\ r.ticket = records[o].ticket
        /\ r.acknowledgment = records[o].acknowledgment
        /\ r.record.dispatched = records[o].record.dispatched
        /\ r.record.status = status
    BY <1>1 DEF StoredOperation, Facts, Statuses
  <2>2. FinalizedRecords(t, status) = [records EXCEPT ![tickets[t].op].record.status = status]
    BY <1>2 DEF FinalizedRecords
  <2>3. CASE o = tickets[t].op
    BY <1>2, <2>1, <2>2, <2>3
  <2>4. CASE o # tickets[t].op
    BY <1>1, <1>2, <2>2, <2>4
  <2> QED BY <2>3, <2>4
<1>3. CASE ~(~finalized /\ tickets[t].op \in DOMAIN records)
  BY <1>1, <1>3 DEF FinalizedRecords
<1> QED BY <1>2, <1>3

\* The record of an issued ticket's operation is that ticket's own.
LEMMA OwnRecord ==
  ASSUME ControlInv, NEW t \in DOMAIN tickets, tickets[t].op \in DOMAIN records
  PROVE  records[tickets[t].op].ticket = t
BY ControlAssumption
   DEF ControlInv, ControlTypeOK, IdentitySpentOnce, RecordsMatchTickets

-----------------------------------------------------------------------------
(* The invariant.                                                          *)

\* The conjuncts that speak of records and tickets survive a step that leaves
\* records, tickets, active and finalized alone.
LEMMA RecordsUndisturbed ==
  ASSUME ControlInv, UNCHANGED <<records, tickets, active, finalized>>
  PROVE  InFlightIsActive' /\ IdentitySpentOnce' /\ RecordsMatchTickets'
BY DEF ControlInv, InFlightIsActive, IdentitySpentOnce, RecordsMatchTickets

\* At first there is no ticket and no record.
LEMMA InitInv == ControlInit => ControlInv
<1> SUFFICES ASSUME ControlInit PROVE ControlInv
  OBVIOUS
<1>1. DOMAIN records = {} /\ DOMAIN tickets = {}
  BY DEF ControlInit
<1>2. 0 \in 0..MaxReview
  BY ControlAssumption
<1>3. ControlTypeOK
  BY <1>1, <1>2 DEF ControlInit, ControlTypeOK, ControlStates
<1>4. InFlightIsActive /\ IdentitySpentOnce /\ RecordsMatchTickets
  BY <1>1 DEF InFlightIsActive, IdentitySpentOnce, RecordsMatchTickets
<1>5. PauseHasOwner /\ ValidTicketIsOwners
  BY <1>1 DEF ControlInit, PauseHasOwner, ValidTicketIsOwners
<1> QED
  BY <1>3, <1>4, <1>5 DEF ControlInv

\* invalidateReview stays below the bound.
LEMMA ReviewBound ==
  ASSUME ControlInv, invalidateReview
  PROVE  review' \in 0..MaxReview
BY ControlAssumption DEF ControlInv, ControlTypeOK, invalidateReview

\* Takeover, prepareResume, delegate, stop and invalidateReview.
LEMMA TransitionInv ==
  ASSUME ControlInv,
         \/ InvalidateReview \/ Takeover \/ PrepareResume \/ Stop
         \/ \E e \in 0..MaxReview : Delegate(e)
  PROVE  ControlInv'
<1>1. UNCHANGED <<records, tickets, active, finalized>>
  BY DEF InvalidateReview, Takeover, PrepareResume, startReview, Stop, Delegate
<1>2. review' \in 0..MaxReview
  BY ReviewBound DEF InvalidateReview, Takeover, PrepareResume, startReview, Stop, Delegate
<1>3. epoch' \in Nat /\ epoch <= epoch' /\ state' \in ControlStates
  BY DEF InvalidateReview, Takeover, PrepareResume, startReview, Stop, Delegate,
         ControlInv, ControlTypeOK, ControlStates
<1>4. ControlTypeOK'
  BY <1>1, <1>2, <1>3 DEF ControlInv, ControlTypeOK
<1>5. PauseHasOwner'
  BY <1>1 DEF InvalidateReview, Takeover, PrepareResume, startReview, Stop, Delegate,
              ControlInv, PauseHasOwner
<1>6. ValidTicketIsOwners'
  <2>1. \A t \in DOMAIN tickets : tickets[t].epoch \in Nat /\ tickets[t].epoch <= epoch
    BY DEF ControlInv, ControlTypeOK, Ticket, ValidTicketIsOwners
  <2>2. \A t \in DOMAIN tickets' : tickets'[t].epoch <= epoch'
    BY <1>1, <1>3, <2>1 DEF ControlInv, ControlTypeOK
  <2>3. ASSUME active # NoTicket, tickets[active].epoch = epoch',
               state' \notin {"STOPPED", "PAUSE_REQUESTED"}
        PROVE  state' = state /\ epoch' = epoch
    <3>1. active \in DOMAIN tickets
      BY <2>3 DEF ControlInv, ControlTypeOK
    <3>2. epoch' # epoch + 1
      BY <2>1, <2>3, <3>1 DEF ControlInv, ControlTypeOK
    <3> QED
      BY <2>3, <3>2 DEF InvalidateReview, Takeover, PrepareResume, startReview, Stop, Delegate
  <2> QED
    BY <1>1, <2>2, <2>3 DEF ControlInv, ValidTicketIsOwners
<1> QED
  BY <1>1, <1>4, <1>5, <1>6, RecordsUndisturbed DEF ControlInv

\* A new ticket, of whoever owns the session, and for a write a new record under an
\* unspent id.
LEMMA IssueInv ==
  ASSUME ControlInv, active = NoTicket,
         NEW t \in Tickets, NEW actor \in Actors, NEW op \in OpIds \cup {NoOp},
         NEW fp \in Fingerprints, NEW ack \in BOOLEAN,
         Unspent(op), IssueTicket(t, actor, op, fp, ack),
         epoch' \in Nat, epoch <= epoch', state' \in ControlStates, review' \in 0..MaxReview,
         actor = "agent" <=> state' = "AGENT_ACTIVE"
  PROVE  ControlInv'
<1> DEFINE entry == [fingerprint |-> fp, actor |-> actor, ackRequired |-> ack, ticket |-> t,
                     epoch |-> epoch', record |-> Fact("in_flight", FALSE),
                     acknowledgment |-> NoFact]
           ticket == [epoch |-> epoch', actor |-> actor, op |-> op, didDispatch |-> FALSE]
<1>1. /\ active = NoTicket /\ active' = t /\ finalized' = FALSE
      /\ t \notin DOMAIN tickets
      /\ op \notin DOMAIN records
  BY DEF IssueTicket, Unspent
<1>2. /\ DOMAIN tickets' = DOMAIN tickets \cup {t}
      /\ tickets'[t] = ticket
      /\ \A u \in DOMAIN tickets : tickets'[u] = tickets[u]
  BY <1>1 DEF IssueTicket
<1>3. /\ op = NoOp => records' = records
      /\ op # NoOp => /\ DOMAIN records' = DOMAIN records \cup {op}
                      /\ records'[op] = entry
      /\ \A o \in DOMAIN records : records'[o] = records[o]
  BY <1>1 DEF IssueTicket, WithOperation
<1>4. ticket \in Ticket
  BY DEF Ticket
<1>5. op # NoOp => entry \in StoredOperation
  BY FactTypes DEF StoredOperation, Statuses
<1>6. ControlTypeOK'
  <2>1. \A u \in DOMAIN tickets' : tickets'[u] \in Ticket
    BY <1>2, <1>4 DEF ControlInv, ControlTypeOK
  <2>2. DOMAIN records' \subseteq OpIds
    BY <1>3 DEF ControlInv, ControlTypeOK
  <2>3. \A o \in DOMAIN records' : records'[o] \in StoredOperation
    BY <1>3, <1>5 DEF ControlInv, ControlTypeOK
  <2> QED
    BY <1>1, <1>2, <2>1, <2>2, <2>3 DEF ControlInv, ControlTypeOK
<1>7. InFlightIsActive'
  <2>1. \A o \in DOMAIN records :
          /\ records[o].record.status # "in_flight"
          /\ records[o].ticket # t
    BY <1>1, ControlAssumption
       DEF ControlInv, ControlTypeOK, StoredOperation, InFlightIsActive, RecordsMatchTickets
  <2> QED
    BY <1>1, <1>3, <2>1 DEF InFlightIsActive, Fact
<1>8. IdentitySpentOnce'
  <2>1. \A u \in DOMAIN tickets : tickets[u].op # NoOp => tickets[u].op # op
    BY <1>1 DEF ControlInv, RecordsMatchTickets
  <2>2. \A u, v \in DOMAIN tickets' :
          tickets'[u].op # NoOp /\ tickets'[u].op = tickets'[v].op => u = v
    BY <1>2, <2>1 DEF ControlInv, IdentitySpentOnce
  <2>3. \A o \in DOMAIN records : tickets'[records[o].ticket] = tickets[records[o].ticket]
    BY <1>2 DEF ControlInv, RecordsMatchTickets
  <2>4. \A o \in DOMAIN records :
          /\ tickets'[records'[o].ticket].op = o
          /\ records'[o].record.dispatched = tickets'[records'[o].ticket].didDispatch
    BY <1>3, <2>3 DEF ControlInv, IdentitySpentOnce
  <2>5. op # NoOp =>
          /\ tickets'[records'[op].ticket].op = op
          /\ records'[op].record.dispatched = tickets'[records'[op].ticket].didDispatch
    <3>1. entry.ticket = t /\ entry.record.dispatched = FALSE
      BY DEF Fact
    <3>2. ticket.op = op /\ ticket.didDispatch = FALSE
      OBVIOUS
    <3> HIDE DEF entry, ticket
    <3> QED
      BY <1>2, <1>3, <3>1, <3>2
  <2>6. \A o \in DOMAIN records' : o \in DOMAIN records \/ (o = op /\ op # NoOp)
    BY <1>3
  <2> QED
    BY <2>2, <2>4, <2>5, <2>6 DEF IdentitySpentOnce
<1>9. RecordsMatchTickets'
  BY <1>2, <1>3 DEF ControlInv, RecordsMatchTickets
<1>10. PauseHasOwner'
  BY <1>1, ControlAssumption DEF PauseHasOwner
<1>11. ValidTicketIsOwners'
  <2>1. \A u \in DOMAIN tickets' : tickets'[u].epoch <= epoch'
    BY <1>2 DEF ControlInv, ControlTypeOK, Ticket, ValidTicketIsOwners
  <2> QED
    BY <1>1, <1>2, <2>1 DEF ValidTicketIsOwners
<1> QED
  BY <1>6, <1>7, <1>8, <1>9, <1>10, <1>11 DEF ControlInv

\* begin: the actor owns the session, and a write of the operator's leaves review.
LEMMA BeginInv ==
  ASSUME ControlInv,
         NEW t \in Tickets, NEW actor \in Actors, NEW e \in Nat,
         NEW op \in OpIds \cup {NoOp}, NEW fp \in Fingerprints, NEW ack \in BOOLEAN,
         Begin(t, actor, e, op, fp, ack)
  PROVE  ControlInv'
<1>1. active = NoTicket /\ Unspent(op) /\ IssueTicket(t, actor, op, fp, ack)
  BY DEF Begin
<1>2. epoch' \in Nat /\ epoch <= epoch' /\ state' \in ControlStates /\ review' \in 0..MaxReview
  BY ReviewBound DEF Begin, ControlInv, ControlTypeOK, ControlStates
<1>3. actor = "agent" <=> state' = "AGENT_ACTIVE"
  BY DEF Begin, AdmitsActor, authorizeAgent, LeavesReview, Actors
<1> QED
  BY <1>1, <1>2, <1>3, IssueInv

\* acknowledge: facts of one record, seen by readers only.
LEMMA AcknowledgeInv ==
  ASSUME ControlInv, NEW t \in DOMAIN tickets, NEW next \in Facts, Acknowledge(t, next)
  PROVE  ControlInv'
<1> DEFINE op == tickets[t].op
           r == [records[op] EXCEPT !.acknowledgment = next]
<1>1. /\ op \in DOMAIN records
      /\ UNCHANGED <<state, epoch, review, active, finalized, tickets>>
      /\ DOMAIN records' = DOMAIN records
      /\ records' = [records EXCEPT ![op] = r]
  BY DEF Acknowledge
<1>2. records[op] \in StoredOperation
  BY <1>1 DEF ControlInv, ControlTypeOK
<1>3. r \in StoredOperation /\ r.record = records[op].record /\ r.ticket = records[op].ticket
  BY <1>2 DEF StoredOperation
<1>4. \A o \in DOMAIN records :
        /\ records'[o] \in StoredOperation
        /\ records'[o].record = records[o].record
        /\ records'[o].ticket = records[o].ticket
  BY <1>1, <1>3 DEF ControlInv, ControlTypeOK
<1>5. ControlTypeOK'
  BY <1>1, <1>4 DEF ControlInv, ControlTypeOK
<1>6. InFlightIsActive' /\ IdentitySpentOnce' /\ RecordsMatchTickets'
  BY <1>1, <1>4 DEF ControlInv, InFlightIsActive, IdentitySpentOnce, RecordsMatchTickets
<1>7. PauseHasOwner' /\ ValidTicketIsOwners'
  BY <1>1 DEF ControlInv, PauseHasOwner, ValidTicketIsOwners
<1> QED
  BY <1>5, <1>6, <1>7 DEF ControlInv

\* dispatched: the ticket and its record are marked together.
LEMMA DispatchedInv ==
  ASSUME ControlInv, NEW t \in DOMAIN tickets, Dispatched(t)
  PROVE  ControlInv'
<1> DEFINE op == tickets[t].op
           ticket == [tickets[t] EXCEPT !.didDispatch = TRUE]
<1>1. /\ UNCHANGED <<state, epoch, review, active, finalized>>
      /\ tickets' = [tickets EXCEPT ![t] = ticket]
      /\ DOMAIN tickets' = DOMAIN tickets
      /\ DOMAIN records' = DOMAIN records
  BY DEF Dispatched
<1>2. tickets[t] \in Ticket
  BY DEF ControlInv, ControlTypeOK
<1>3. /\ ticket \in Ticket
      /\ ticket.op = op /\ ticket.epoch = tickets[t].epoch /\ ticket.actor = tickets[t].actor
      /\ ticket.didDispatch = TRUE
  BY <1>2 DEF Ticket
<1>4. \A u \in DOMAIN tickets :
        /\ tickets'[u] \in Ticket
        /\ tickets'[u].op = tickets[u].op
        /\ tickets'[u].epoch = tickets[u].epoch
        /\ tickets'[u].actor = tickets[u].actor
        /\ u # t => tickets'[u] = tickets[u]
  BY <1>1, <1>3 DEF ControlInv, ControlTypeOK
<1>5. \A o \in DOMAIN records :
        /\ records'[o] \in StoredOperation
        /\ records'[o].ticket = records[o].ticket
        /\ records'[o].record.status = records[o].record.status
        /\ o # op => records'[o] = records[o]
        /\ o = op => records'[o].record.dispatched = TRUE
  <2>1. CASE op \in DOMAIN records
    <3> DEFINE r == [records[op] EXCEPT !.record = [records[op].record EXCEPT !.dispatched = TRUE]]
    <3>1. records[op] \in StoredOperation
      BY <2>1 DEF ControlInv, ControlTypeOK
    <3>2. /\ r \in StoredOperation /\ r.ticket = records[op].ticket
          /\ r.record.status = records[op].record.status /\ r.record.dispatched = TRUE
      BY <3>1 DEF StoredOperation, Facts
    <3>3. records' = [records EXCEPT ![op] = r]
      BY <2>1 DEF Dispatched
    <3> QED
      BY <2>1, <3>2, <3>3 DEF ControlInv, ControlTypeOK
  <2>2. CASE op \notin DOMAIN records
    BY <2>2 DEF Dispatched, ControlInv, ControlTypeOK
  <2> QED
    BY <2>1, <2>2
<1>6. ControlTypeOK'
  BY <1>1, <1>4, <1>5 DEF ControlInv, ControlTypeOK
<1>7. InFlightIsActive'
  BY <1>1, <1>5 DEF ControlInv, InFlightIsActive
<1>8. IdentitySpentOnce'
  <2>1. \A u, v \in DOMAIN tickets' :
          tickets'[u].op # NoOp /\ tickets'[u].op = tickets'[v].op => u = v
    BY <1>1, <1>4 DEF ControlInv, IdentitySpentOnce
  <2>2. ASSUME NEW o \in DOMAIN records'
        PROVE  /\ tickets'[records'[o].ticket].op = o
               /\ records'[o].record.dispatched = tickets'[records'[o].ticket].didDispatch
    <3>1. records[o].ticket \in DOMAIN tickets /\ tickets[records[o].ticket].op = o
      BY <1>1 DEF ControlInv, IdentitySpentOnce, RecordsMatchTickets
    <3>2. CASE o = op
      <4>1. records[o].ticket = t
        BY <1>1, <3>2, OwnRecord
      <4>2. tickets'[t].op = op /\ tickets'[t].didDispatch = TRUE
        BY <1>1, <1>3, <1>4, <3>1, <3>2, <4>1
      <4>3. records'[o].ticket = t /\ records'[o].record.dispatched = TRUE
        BY <1>1, <1>5, <3>2, <4>1
      <4> QED
        BY <3>2, <4>2, <4>3
    <3>3. CASE o # op
      <4>1. records'[o] = records[o] /\ tickets'[records[o].ticket] = tickets[records[o].ticket]
        BY <1>1, <1>4, <1>5, <3>1, <3>3
      <4>2. records[o].record.dispatched = tickets[records[o].ticket].didDispatch
        BY <1>1 DEF ControlInv, IdentitySpentOnce
      <4> QED
        BY <3>1, <4>1, <4>2
    <3> QED
      BY <3>2, <3>3
  <2> QED
    BY <2>1, <2>2 DEF IdentitySpentOnce
<1>9. RecordsMatchTickets'
  BY <1>1, <1>4, <1>5 DEF ControlInv, RecordsMatchTickets
<1>10. PauseHasOwner' /\ ValidTicketIsOwners'
  BY <1>1, <1>4 DEF ControlInv, ControlTypeOK, PauseHasOwner, ValidTicketIsOwners
<1> QED
  BY <1>6, <1>7, <1>8, <1>9, <1>10 DEF ControlInv

\* finalize, with or without the release of the ticket.
LEMMA FinalizedInv ==
  ASSUME ControlInv, NEW t \in DOMAIN tickets, NEW status \in Terminal,
         Finalize(t, status) \/ Finish(t, status)
  PROVE  ControlInv'
<1>1. /\ active = t
      /\ records' = FinalizedRecords(t, status)
      /\ finalized' = TRUE
      /\ UNCHANGED <<epoch, review, tickets>>
  BY DEF Finalize, Finish
<1>2. active' \in {t, NoTicket} /\ t # NoTicket
  BY <1>1, ControlAssumption DEF Finalize, Finish, ControlInv, ControlTypeOK
<1>3. DOMAIN records' = DOMAIN records
  BY <1>1 DEF FinalizedRecords
<1>4. \A o \in DOMAIN records :
        /\ records'[o] \in StoredOperation
        /\ records'[o].ticket = records[o].ticket
        /\ records'[o].record.dispatched = records[o].record.dispatched
        /\ records'[o].record.status # "in_flight"
  <2> SUFFICES ASSUME NEW o \in DOMAIN records
               PROVE  /\ records'[o] \in StoredOperation
                      /\ records'[o].ticket = records[o].ticket
                      /\ records'[o].record.dispatched = records[o].record.dispatched
                      /\ records'[o].record.status # "in_flight"
    OBVIOUS
  <2>1. CASE o = tickets[t].op /\ ~finalized
    BY <1>1, <2>1, FinalizedRecordsEffect DEF Terminal
  <2>2. CASE o # tickets[t].op
    <3>1. records[o].ticket # t
      BY <2>2 DEF ControlInv, IdentitySpentOnce
    <3> QED
      BY <1>1, <2>2, <3>1, FinalizedRecordsEffect DEF ControlInv, InFlightIsActive
  <2>3. CASE finalized
    BY <1>1, <2>3, FinalizedRecordsEffect DEF ControlInv, InFlightIsActive
  <2> QED
    BY <2>1, <2>2, <2>3 DEF ControlInv, ControlTypeOK
<1>5. state' \in ControlStates
  BY DEF Finalize, Finish, ControlInv, ControlTypeOK, ControlStates
<1>6. ControlTypeOK'
  BY <1>1, <1>2, <1>3, <1>4, <1>5 DEF ControlInv, ControlTypeOK
<1>7. InFlightIsActive' /\ IdentitySpentOnce' /\ RecordsMatchTickets'
  BY <1>1, <1>3, <1>4
     DEF ControlInv, InFlightIsActive, IdentitySpentOnce, RecordsMatchTickets
<1>8. PauseHasOwner'
  BY <1>1, <1>2 DEF Finalize, Finish, PauseHasOwner
<1>9. ValidTicketIsOwners'
  BY <1>1, <1>2 DEF Finalize, Finish, ControlInv, ValidTicketIsOwners
<1> QED
  BY <1>6, <1>7, <1>8, <1>9 DEF ControlInv

\* Every step preserves the invariant.
LEMMA NextInv == ControlInv /\ [ControlNext]_controlVars => ControlInv'
<1> SUFFICES ASSUME ControlInv, [ControlNext]_controlVars
             PROVE  ControlInv'
  OBVIOUS
<1>1. CASE InvalidateReview \/ Takeover \/ PrepareResume \/ Stop
           \/ \E e \in 0..MaxReview : Delegate(e)
  BY <1>1, TransitionInv
<1>2. CASE \E t \in Tickets, actor \in Actors, e \in 0..MaxReview, op \in OpIds \cup {NoOp},
              fp \in Fingerprints, ack \in BOOLEAN : Begin(t, actor, e, op, fp, ack)
  BY <1>2, BeginInv
<1>3. CASE \E t \in DOMAIN tickets, next \in Facts : Acknowledge(t, next)
  BY <1>3, AcknowledgeInv
<1>4. CASE \E t \in DOMAIN tickets : Dispatched(t)
  BY <1>4, DispatchedInv
<1>5. CASE \E t \in DOMAIN tickets, status \in Terminal :
              Finalize(t, status) \/ Finish(t, status)
  BY <1>5, FinalizedInv
<1>6. CASE UNCHANGED controlVars
  <2>1. UNCHANGED <<state, epoch, review, active, finalized, records, tickets>>
    BY <1>6 DEF controlVars
  <2> QED
    BY <2>1 DEF ControlInv, ControlTypeOK, InFlightIsActive, IdentitySpentOnce,
                RecordsMatchTickets, PauseHasOwner, ValidTicketIsOwners
<1> QED
  BY <1>1, <1>2, <1>3, <1>4, <1>5, <1>6 DEF ControlNext

-----------------------------------------------------------------------------
(* The theorems.                                                           *)

\* The invariant holds in every behaviour.
THEOREM ControlInvariant == ControlSpec => []ControlInv
<1>1. ControlInit => ControlInv
  BY InitInv
<1>2. ControlInv /\ [ControlNext]_controlVars => ControlInv'
  BY NextInv
<1> QED
  BY <1>1, <1>2, PTL DEF ControlSpec

\* Every variable keeps its type.
THEOREM ControlTypes == ControlSpec => []ControlTypeOK
<1>1. ControlInv => ControlTypeOK
  BY DEF ControlInv
<1> QED
  BY <1>1, ControlInvariant, PTL

\* An operation is in flight exactly while its ticket is active and not finalized.
THEOREM InFlight == ControlSpec => []InFlightIsActive
<1>1. ControlInv => InFlightIsActive
  BY DEF ControlInv
<1> QED
  BY <1>1, ControlInvariant, PTL

\* An operation id opens one ticket, ever, and tells whether it dispatched.
THEOREM SpentOnce == ControlSpec => []IdentitySpentOnce
<1>1. ControlInv => IdentitySpentOnce
  BY DEF ControlInv
<1> QED
  BY <1>1, ControlInvariant, PTL

\* A requested pause always has the operation whose release ends it.
THEOREM PauseEnds == ControlSpec => []PauseHasOwner
<1>1. ControlInv => PauseHasOwner
  BY DEF ControlInv
<1> QED
  BY <1>1, ControlInvariant, PTL

\* A ticket marks a dispatch only while its own kind of owner has the session:
\* a new mark is made by dispatched, whose check looks at the epoch alone.
THEOREM OnlyOwnersDispatch == ControlSpec => DispatchesOnlyAsOwner
<1>1. ASSUME ControlInv, [ControlNext]_controlVars, NEW t \in DOMAIN tickets,
             ~tickets[t].didDispatch, tickets'[t].didDispatch
      PROVE  tickets[t].actor = "agent" <=> state = "AGENT_ACTIVE"
  <2>1. tickets'[t] # tickets[t]
    BY <1>1
  <2>2. Dispatched(t)
    <3>1. CASE \E u \in Tickets, actor \in Actors, e \in 0..MaxReview, op \in OpIds \cup {NoOp},
                  fp \in Fingerprints, ack \in BOOLEAN : Begin(u, actor, e, op, fp, ack)
      <4>1. tickets'[t] = tickets[t]
        BY <1>1, <3>1 DEF Begin, IssueTicket
      <4> QED
        BY <2>1, <4>1
    <3>2. CASE UNCHANGED tickets
      BY <2>1, <3>2
    <3>3. CASE \E u \in DOMAIN tickets : Dispatched(u)
      BY <2>1, <3>3 DEF Dispatched
    <3>4. CASE \/ InvalidateReview \/ Takeover \/ PrepareResume \/ Stop
               \/ \E e \in 0..MaxReview : Delegate(e)
               \/ \E u \in DOMAIN tickets, next \in Facts : Acknowledge(u, next)
               \/ \E u \in DOMAIN tickets, status \in Terminal :
                     Finalize(u, status) \/ Finish(u, status)
      BY <3>2, <3>4 DEF InvalidateReview, Takeover, PrepareResume, startReview, Delegate, Stop,
                        Acknowledge, Finalize, Finish
    <3> QED
      BY <1>1, <3>1, <3>2, <3>3, <3>4 DEF ControlNext, controlVars
  <2>3. /\ active = t /\ tickets[t].epoch = epoch
        /\ state \notin {"STOPPED", "PAUSE_REQUESTED"}
    BY <2>2 DEF Dispatched, check
  <2> QED
    BY <1>1, <2>3, ControlAssumption DEF ControlInv, ControlTypeOK, ValidTicketIsOwners
<1>2. ControlInv /\ [ControlNext]_controlVars =>
        [\A t \in DOMAIN tickets :
           ~tickets[t].didDispatch /\ tickets'[t].didDispatch =>
             (tickets[t].actor = "agent" <=> state = "AGENT_ACTIVE")]_controlVars
  BY <1>1
<1> QED
  BY <1>2, ControlInvariant, PTL DEF ControlSpec, DispatchesOnlyAsOwner

\* An epoch that does not authorize an agent never will: control that comes to be
\* the agent's has a new epoch.
THEOREM RevocationStands == ControlSpec => RevocationIsPermanent
<1>1. ASSUME ControlInv, [ControlNext]_controlVars, NEW e \in 0..epoch, ~authorizeAgent(e)
      PROVE  ~(authorizeAgent(e)')
  <2>1. epoch \in Nat
    BY <1>1 DEF ControlInv, ControlTypeOK
  <2> DEFINE Moves == epoch' = epoch + 1
             Stays == epoch' = epoch /\ (state' = "AGENT_ACTIVE" => state = "AGENT_ACTIVE")
  <2>2. CASE InvalidateReview \/ Takeover \/ PrepareResume \/ Stop
             \/ \E r \in 0..MaxReview : Delegate(r)
    <3>1. Moves \/ Stays
      BY <2>2 DEF InvalidateReview, Takeover, PrepareResume, startReview, Stop, Delegate
    <3> QED
      BY <1>1, <2>1, <3>1 DEF authorizeAgent
  <2>3. CASE \E t \in Tickets, actor \in Actors, r \in 0..MaxReview, op \in OpIds \cup {NoOp},
                fp \in Fingerprints, ack \in BOOLEAN : Begin(t, actor, r, op, fp, ack)
    <3>1. Moves \/ Stays
      BY <2>3 DEF Begin
    <3> QED
      BY <1>1, <2>1, <3>1 DEF authorizeAgent
  <2>4. CASE \/ \E t \in DOMAIN tickets, next \in Facts : Acknowledge(t, next)
             \/ \E t \in DOMAIN tickets : Dispatched(t)
             \/ \E t \in DOMAIN tickets, status \in Terminal :
                  Finalize(t, status) \/ Finish(t, status)
             \/ UNCHANGED controlVars
    <3>1. Stays
      BY <2>4 DEF Acknowledge, Dispatched, Finalize, Finish, controlVars
    <3> QED
      BY <1>1, <2>1, <3>1 DEF authorizeAgent
  <2> QED
    BY <1>1, <2>2, <2>3, <2>4 DEF ControlNext
<1>2. ControlInv /\ [ControlNext]_controlVars =>
        [\A e \in 0..epoch : ~authorizeAgent(e) => ~(authorizeAgent(e)')]_controlVars
  BY <1>1
<1> QED
  BY <1>2, ControlInvariant, PTL DEF ControlSpec, RevocationIsPermanent

\* Terminal facts, dispatch marks and acknowledged terminals are never taken back:
\* finalize and finish write only a status that is still in flight, acknowledge
\* only moves forward, and no other step touches an existing record's facts.
THEOREM FactsStand == ControlSpec => PublishedFactsStand
<1> DEFINE Stands(o) ==
      LET was == records[o]  is == records'[o] IN
      /\ was.record.status \in Terminal => is.record = was.record
      /\ was.record.dispatched => is.record.dispatched
      /\ was.acknowledgment.status \in Terminal => is.acknowledgment = was.acknowledgment
      /\ was.acknowledgment.dispatched => is.acknowledgment.dispatched
<1>1. ASSUME ControlInv, [ControlNext]_controlVars, NEW o \in DOMAIN records
      PROVE  Stands(o)
  <2>1. records[o] \in StoredOperation /\ records[o].record \in Facts
    BY <1>1 DEF ControlInv, ControlTypeOK, StoredOperation
  <2>2. CASE records'[o] = records[o]
    BY <2>2
  <2>3. CASE \E t \in DOMAIN tickets, next \in Facts : Acknowledge(t, next)
    <3>1. PICK t \in DOMAIN tickets, next \in Facts : Acknowledge(t, next)
      BY <2>3
    <3>2. CASE o # tickets[t].op
      BY <2>2, <3>1, <3>2 DEF Acknowledge
    <3>3. CASE o = tickets[t].op
      <4>1. /\ ValidAcknowledgment(records[o].acknowledgment, next)
            /\ records' = [records EXCEPT ![o].acknowledgment = next]
        BY <3>1, <3>3 DEF Acknowledge
      <4>2. records'[o].record = records[o].record /\ records'[o].acknowledgment = next
        BY <2>1, <4>1 DEF StoredOperation
      <4>3. /\ records[o].acknowledgment.status \notin Terminal
            /\ records[o].acknowledgment.dispatched => next.dispatched
        BY <4>1 DEF ValidAcknowledgment, Fact, NoFact, Terminal
      <4> QED
        BY <4>2, <4>3
    <3> QED
      BY <3>2, <3>3
  <2>4. CASE \E t \in DOMAIN tickets : Dispatched(t)
    <3>1. PICK t \in DOMAIN tickets : Dispatched(t)
      BY <2>4
    <3>2. CASE o # tickets[t].op
      BY <2>2, <3>1, <3>2 DEF Dispatched
    <3>3. CASE o = tickets[t].op
      <4>1. /\ active = t /\ ~finalized
            /\ records' = [records EXCEPT ![o].record.dispatched = TRUE]
        BY <3>1, <3>3 DEF Dispatched, check
      <4>2. records[o].record.status \notin Terminal
        BY <1>1, <3>3, <4>1, OwnRecord DEF ControlInv, InFlightIsActive, Terminal
      <4>3. records'[o].record.dispatched = TRUE
            /\ records'[o].acknowledgment = records[o].acknowledgment
        BY <2>1, <4>1 DEF StoredOperation, Facts
      <4> QED
        BY <4>2, <4>3
    <3> QED
      BY <3>2, <3>3
  <2>5. CASE \E t \in DOMAIN tickets, status \in Terminal :
               Finalize(t, status) \/ Finish(t, status)
    <3>1. PICK t \in DOMAIN tickets, status \in Terminal :
             Finalize(t, status) \/ Finish(t, status)
      BY <2>5
    <3>2. active = t /\ records' = FinalizedRecords(t, status)
      BY <3>1 DEF Finalize, Finish
    <3>3. /\ records'[o] \in StoredOperation
          /\ records'[o].acknowledgment = records[o].acknowledgment
          /\ records'[o].record.dispatched = records[o].record.dispatched
          /\ o # tickets[t].op \/ finalized
               => records'[o].record.status = records[o].record.status
      BY <1>1, <3>2, FinalizedRecordsEffect
    <3>4. CASE o # tickets[t].op \/ finalized
      <4>1. records'[o].record = records[o].record
        BY <2>1, <3>3, <3>4 DEF StoredOperation, Facts
      <4> QED
        BY <3>3, <4>1
    <3>5. CASE o = tickets[t].op /\ ~finalized
      <4>1. records[o].record.status \notin Terminal
        BY <1>1, <3>2, <3>5, OwnRecord DEF ControlInv, InFlightIsActive, Terminal
      <4> QED
        BY <3>3, <4>1
    <3> QED
      BY <3>4, <3>5
  <2>6. CASE \E t \in Tickets, actor \in Actors, e \in 0..MaxReview, op \in OpIds \cup {NoOp},
                fp \in Fingerprints, ack \in BOOLEAN : Begin(t, actor, e, op, fp, ack)
    <3>1. PICK t \in Tickets, actor \in Actors, e \in 0..MaxReview, op \in OpIds \cup {NoOp},
              fp \in Fingerprints, ack \in BOOLEAN : Begin(t, actor, e, op, fp, ack)
      BY <2>6
    <3>2. records'[o] = records[o]
      <4>1. o # op
        BY <3>1 DEF Begin, Unspent
      <4> QED
        BY <3>1, <4>1 DEF Begin, IssueTicket, WithOperation
    <3> QED
      BY <2>2, <3>2
  <2>7. CASE \/ InvalidateReview \/ Takeover \/ PrepareResume \/ Stop
             \/ \E e \in 0..MaxReview : Delegate(e)
             \/ UNCHANGED controlVars
    BY <2>2, <2>7 DEF InvalidateReview, Takeover, PrepareResume, startReview, Stop, Delegate, controlVars
  <2> QED
    BY <1>1, <2>3, <2>4, <2>5, <2>6, <2>7 DEF ControlNext
<1>2. ControlInv /\ [ControlNext]_controlVars => [\A o \in DOMAIN records : Stands(o)]_controlVars
  BY <1>1
<1> QED
  BY <1>2, ControlInvariant, PTL DEF ControlSpec, PublishedFactsStand

-----------------------------------------------------------------------------
(* The two promises a run checks, put together.                            *)

\* Tickets and records account for one another (begin, dispatched, finalize, finish).
THEOREM TicketsAccounted == ControlSpec => []TicketsAreAccounted
<1>1. ControlInv => TicketsAreAccounted
  BY DEF ControlInv, TicketsAreAccounted
<1> QED
  BY <1>1, ControlInvariant, PTL

\* Nothing that was revoked or published is taken back (delegate, finish, finalize).
THEOREM TakenBackNever == ControlSpec => NothingIsTakenBack
BY RevocationStands, FactsStand DEF NothingIsTakenBack

-----------------------------------------------------------------------------
(* HttpPlane: what a caller is told, across lost answers and lost sessions. *)

\* The call holds the session's control from its begin to its release.
Governing == {"working", "publishing", "sending", "flushing"}

CallType ==
  [pc : Governing \cup {"idle", "sent", "admitted", "replaying", "closing", "over"},
   route : RouteTable \cup {Route("", "")}, actor : Callers, epoch : Nat, mode : Modes \cup {"qa"},
   op : OpIds \cup {NoOp}, ticket : Tickets \cup {NoTicket}, since : Nat,
   worked : BOOLEAN, draft : {"none", "ok", "failed", "recorded"}, connected : BOOLEAN,
   heard : {"none", "uncertain", "denied", "revoked", "recorded", "ok", "failed"}]

HttpTypeOK ==
  /\ controlled \in BOOLEAN
  /\ session \in {"open", "removed", "closed"}
  /\ mode \in Modes
  /\ calls \in [Calls -> CallType]

\* The write is on record as completed.
Recorded(call) ==
  /\ call.ticket # NoTicket
  /\ call.op \in DOMAIN records
  /\ records[call.op].record.status = "completed"

\* Where a call without a ticket is: nothing has run for it, or it repeats a record.
Ticketless(call) ==
  /\ call.pc \in {"idle", "sent", "admitted", "replaying", "closing"} => call.ticket = NoTicket
  /\ call.pc \in {"idle", "sent", "admitted", "replaying"} => ~call.worked
  /\ call.pc \in {"working", "publishing"} => call.ticket # NoTicket
  /\ call.pc = "replaying" => call.op \in DOMAIN records
  /\ call.pc \in {"sending", "flushing"} /\ call.ticket = NoTicket =>
       call.draft = "recorded" /\ ~call.worked /\ call.op \in DOMAIN records

\* Whose a call's ticket is, and how far it has come when the call is where it is.
Ticketed(call) ==
  call.ticket # NoTicket =>
    /\ controlled
    /\ call.ticket \in DOMAIN tickets
    /\ tickets[call.ticket].op = Identity(call)
    /\ tickets[call.ticket].actor = call.actor
    /\ call.pc \in Governing \cup {"over"}
    /\ call.pc \in Governing <=> active = call.ticket
    /\ call.pc \in Governing /\ call.actor = "agent" => tickets[call.ticket].epoch = call.epoch
    /\ Mutation(call.route) => call.worked = tickets[call.ticket].didDispatch
    /\ call.pc = "working" => ~finalized
    /\ call.pc \in {"publishing", "sending", "flushing"} =>
         /\ finalized
         /\ call.draft \in {"ok", "failed"}
         /\ call.draft = "ok" /\ Mutation(call.route) => Recorded(call)

\* What a call was told, and that a write that worked has a ticket.
HasHeard(call) ==
  /\ call.pc # "over" => call.heard \in {"none", "uncertain"}
  /\ call.heard = "denied" => ~call.worked
  /\ call.heard = "recorded" => ~call.worked /\ call.ticket = NoTicket /\ call.op \in DOMAIN records
  /\ controlled /\ Governed(call) /\ Mutation(call.route) =>
       /\ call.heard = "ok" => Recorded(call)
       /\ call.worked => call.ticket # NoTicket

\* A call is for a route of the table and names an operation if the route wants one.
Asked(call) ==
  /\ call.pc # "idle" => call.route \in RouteTable /\ (call.op # NoOp <=> Names(call.route))
  /\ call.pc = "closing" => ~Governed(call)

CallOK(call) == Ticketless(call) /\ Ticketed(call) /\ HasHeard(call) /\ Asked(call)

\* A ticket is one call's, and a record is of some call's ticket.
TicketsAreCalls ==
  /\ \A c, d \in Calls : calls[c].ticket # NoTicket /\ calls[c].ticket = calls[d].ticket => c = d
  /\ \A o \in DOMAIN records :
       \E c \in Calls : calls[c].ticket = records[o].ticket /\ calls[c].op = o

\* A controlled session that is over is stopped.
OverIsStopped == controlled /\ session # "open" => state = "STOPPED"

HttpInv ==
  /\ ControlInv
  /\ HttpTypeOK
  /\ \A c \in Calls : CallOK(calls[c])
  /\ TicketsAreCalls
  /\ OverIsStopped

-----------------------------------------------------------------------------
(* Lemmas about routes and calls.                                          *)

\* A write under control names an operation; a session's deletion, a look at an operation
\* and the collection of a review are not begun by `on`; and what outlives a session is
\* only read.
Registered(r) ==
  /\ Mutation(r) => Names(r)
  /\ r.method = "DELETE" /\ r.name = "session" => r.publication # "when-controlled"
  /\ r.name = "operation" => r.publication # "when-controlled"
  /\ r.name = "prepare resume" => r.publication # "when-controlled" /\ ~Names(r)
  /\ r.retained => ~Mutation(r)

\* The routes are registered so.
LEMMA RouteFacts ==
  ASSUME NEW r \in RouteTable
  PROVE  Registered(r) /\ r.name \in Fingerprints
<1> USE DEF Route, For, Safe, ForHuman, Only, Lifecycle, Guarded, NoCap, Registered, Mutation,
            Names
<1>1. ASSUME r \in OperatorRoutes PROVE Registered(r)
  BY <1>1 DEF OperatorRoutes
<1>2. ASSUME r \in ScopeRoutes PROVE Registered(r)
  BY <1>2 DEF ScopeRoutes
<1>3. ASSUME r \in ControlRoutes PROVE Registered(r)
  BY <1>3 DEF ControlRoutes
<1>4. ASSUME r \in ApprovalRoutes PROVE Registered(r)
  BY <1>4 DEF ApprovalRoutes
<1>5. ASSUME r \in ApplicationRoutes PROVE Registered(r)
  BY <1>5 DEF ApplicationRoutes
<1>6. ASSUME r \in SessionRoutes PROVE Registered(r)
  <2>1. CASE \/ r = For("session.control", Route("GET", "session"))
             \/ r = Safe(Route("POST", "cookie handoff"))
    BY <2>1
  <2>2. CASE r = Route("GET", "cookies")
    BY <2>2
  <2>3. CASE r = Route("GET", "events replay")
    BY <2>3
  <2>4. CASE r = Route("POST", "trace")
    BY <2>4
  <2>5. CASE r = Lifecycle(Route("DELETE", "session"))
    BY <2>5
  <2> QED
    BY <1>6, <2>1, <2>2, <2>3, <2>4, <2>5 DEF SessionRoutes
<1>7. ASSUME r \in CaptureRoutes PROVE Registered(r)
  BY <1>7 DEF CaptureRoutes
<1>8. ASSUME r \in PageRoutes PROVE Registered(r)
  BY <1>8 DEF PageRoutes
<1>9. ASSUME r \in ActRoutes PROVE Registered(r)
  BY <1>9 DEF ActRoutes
<1>10. ASSUME r \in DownloadRoutes PROVE Registered(r)
  <2>1. CASE r = Route("POST", "download")
    BY <2>1
  <2>2. CASE r = Route("POST", "collect download")
    BY <2>2
  <2>3. CASE r = [For("page.capture", Route("GET", "artifact")) EXCEPT !.retained = TRUE]
    BY <2>3
  <2> QED
    BY <1>10, <2>1, <2>2, <2>3 DEF DownloadRoutes
<1> QED
  BY <1>1, <1>2, <1>3, <1>4, <1>5, <1>6, <1>7, <1>8, <1>9, <1>10, HttpAssumption
     DEF RouteTable

LEMMA NoCallFields ==
  /\ NoCall \in CallType
  /\ NoCall.pc = "idle" /\ NoCall.op = NoOp /\ NoCall.ticket = NoTicket /\ ~NoCall.worked
  /\ NoCall.heard = "none"
BY DEF NoCall, CallType, Callers, Governing

\* What is left of a call that is over.
LEMMA OverFields ==
  ASSUME NEW call \in CallType,
         NEW heard \in {"none", "uncertain", "denied", "revoked", "recorded", "ok", "failed"}
  PROVE  LET is == Over(call, heard) IN
         /\ is \in CallType
         /\ is.pc = "over" /\ is.heard = heard
         /\ is.route = call.route /\ is.actor = call.actor /\ is.op = call.op
         /\ is.ticket = call.ticket /\ is.worked = call.worked
<1>1. PICK n : n = NoCall
  OBVIOUS
<1>2. n \in CallType
  BY <1>1, NoCallFields
<1>3. PICK is : is = [n EXCEPT !.pc = "over", !.route = call.route, !.actor = call.actor,
                              !.op = call.op, !.ticket = call.ticket,
                              !.worked = call.worked, !.heard = heard]
  OBVIOUS
<1>4. is = Over(call, heard)
  BY <1>1, <1>3 DEF Over
<1>5. /\ is.pc = "over" /\ is.heard = heard
      /\ is.route = call.route /\ is.actor = call.actor /\ is.op = call.op
      /\ is.ticket = call.ticket /\ is.worked = call.worked
  BY <1>2, <1>3 DEF CallType
<1>6. is \in CallType
  BY <1>2, <1>3 DEF CallType, Governing
<1> QED
  BY <1>4, <1>5, <1>6

\* The step leaves ticket u and its turn alone, forgets no ticket and no record, and takes
\* back no completion.
Spares(u) ==
  /\ DOMAIN tickets \subseteq DOMAIN tickets' /\ DOMAIN records \subseteq DOMAIN records'
  /\ u \in DOMAIN tickets =>
       /\ tickets'[u] = tickets[u]
       /\ active' = u <=> active = u
       /\ active = u => finalized' = finalized
  /\ \A o \in DOMAIN records :
       records[o].record.status = "completed" => records'[o].record.status = "completed"

\* Then nothing about a call with that ticket changes.
LEMMA CallHeld ==
  ASSUME NEW k \in CallType, CallOK(k), controlled' = controlled, Spares(k.ticket)
  PROVE  CallOK(k)'
<1>1. Recorded(k) => Recorded(k)'
  BY DEF Recorded, Spares
<1>2. Ticketless(k)'
  BY DEF CallOK, Ticketless, Spares
<1>3. Ticketed(k)'
  BY <1>1 DEF CallOK, Ticketed, Spares, Governed, Identity, Governing
<1>4. HasHeard(k)'
  BY <1>1 DEF CallOK, HasHeard, Spares, Governed
<1>5. Asked(k)'
  BY DEF CallOK, Asked, Governed
<1> QED
  BY <1>2, <1>3, <1>4, <1>5 DEF CallOK

\* A step that leaves the control alone spares every ticket, and so does one that only
\* moves the ownership.
LEMMA TransitionSpares ==
  ASSUME UNCHANGED <<tickets, records, active, finalized>>, NEW u
  PROVE  Spares(u)
BY DEF Spares

\* The issue of another ticket.
LEMMA IssueSpares ==
  ASSUME ControlInv, active = NoTicket, NEW t, NEW actor, NEW op, NEW fp, NEW ack,
         Unspent(op), IssueTicket(t, actor, op, fp, ack), NEW u
  PROVE  Spares(u)
<1>1. /\ active = NoTicket /\ active' = t /\ t \notin DOMAIN tickets
      /\ DOMAIN tickets' = DOMAIN tickets \cup {t}
      /\ \A v \in DOMAIN tickets : tickets'[v] = tickets[v]
  BY DEF IssueTicket
<1>2. /\ DOMAIN records \subseteq DOMAIN records'
      /\ \A o \in DOMAIN records : records'[o] = records[o]
  BY DEF IssueTicket, WithOperation, Unspent
<1>3. NoTicket \notin DOMAIN tickets
  BY ControlAssumption DEF ControlInv, ControlTypeOK
<1> QED
  BY <1>1, <1>2, <1>3 DEF Spares

\* The dispatch under another ticket.
LEMMA DispatchedSpares ==
  ASSUME ControlInv, NEW t \in DOMAIN tickets, Dispatched(t), NEW u, u # t
  PROVE  Spares(u)
<1> DEFINE op == tickets[t].op
<1>1. /\ UNCHANGED <<active, finalized>>
      /\ DOMAIN tickets' = DOMAIN tickets
      /\ \A v \in DOMAIN tickets \ {t} : tickets'[v] = tickets[v]
  BY DEF Dispatched
<1>2. DOMAIN records' = DOMAIN records
  BY DEF Dispatched
<1>3. ASSUME NEW o \in DOMAIN records
      PROVE  records'[o].record.status = records[o].record.status
  <2>1. records[o] \in StoredOperation
    BY DEF ControlInv, ControlTypeOK
  <2>2. CASE op \in DOMAIN records
    <3>1. records' = [records EXCEPT ![op].record.dispatched = TRUE]
      BY <2>2 DEF Dispatched
    <3> QED
      BY <2>1, <2>2, <3>1 DEF StoredOperation, Facts
  <2>3. CASE op \notin DOMAIN records
    BY <2>3 DEF Dispatched
  <2> QED
    BY <2>2, <2>3
<1> QED
  BY <1>1, <1>2, <1>3 DEF Spares

\* The freezing of another ticket's facts, or its release.
LEMMA FinalizedSpares ==
  ASSUME ControlInv, NEW t \in DOMAIN tickets, NEW s \in Terminal,
         Finalize(t, s) \/ Finish(t, s), NEW u, u # t
  PROVE  Spares(u)
<1>1. /\ active = t /\ active' \in {t, NoTicket} /\ tickets' = tickets
      /\ records' = FinalizedRecords(t, s)
  BY DEF Finalize, Finish
<1>2. NoTicket \notin DOMAIN tickets
  BY ControlAssumption DEF ControlInv, ControlTypeOK
<1>3. DOMAIN records' = DOMAIN records
  BY <1>1 DEF FinalizedRecords
<1>4. ASSUME NEW o \in DOMAIN records, records[o].record.status = "completed"
      PROVE  records'[o].record.status = "completed"
  <2>1. CASE o = tickets[t].op /\ ~finalized
    <3>1. records[o].ticket = t
      BY <2>1, OwnRecord
    <3> QED
      BY <1>1, <1>4, <2>1, <3>1 DEF ControlInv, InFlightIsActive
  <2>2. CASE o # tickets[t].op \/ finalized
    BY <1>1, <1>4, <2>2, FinalizedRecordsEffect
  <2> QED
    BY <2>1, <2>2
<1> QED
  BY <1>1, <1>2, <1>3, <1>4 DEF Spares

\* No step changes which ticket a record is of; only a begin adds one.
RecordsKept ==
  \A o \in DOMAIN records' : o \in DOMAIN records /\ records'[o].ticket = records[o].ticket

LEMMA DispatchedKeeps ==
  ASSUME ControlInv, NEW t \in DOMAIN tickets, Dispatched(t)
  PROVE  RecordsKept
<1> DEFINE op == tickets[t].op
<1>1. DOMAIN records' = DOMAIN records
  BY DEF Dispatched
<1>2. ASSUME NEW o \in DOMAIN records
      PROVE  records'[o].ticket = records[o].ticket
  <2>1. records[o] \in StoredOperation
    BY DEF ControlInv, ControlTypeOK
  <2>2. CASE op \in DOMAIN records
    <3>1. records' = [records EXCEPT ![op].record.dispatched = TRUE]
      BY <2>2 DEF Dispatched
    <3> QED
      BY <2>1, <2>2, <3>1 DEF StoredOperation
  <2>3. CASE op \notin DOMAIN records
    BY <2>3 DEF Dispatched
  <2> QED
    BY <2>2, <2>3
<1> QED
  BY <1>1, <1>2 DEF RecordsKept

LEMMA FinalizedKeeps ==
  ASSUME ControlInv, NEW t \in DOMAIN tickets, NEW s \in Terminal,
         Finalize(t, s) \/ Finish(t, s)
  PROVE  RecordsKept
<1>1. records' = FinalizedRecords(t, s)
  BY DEF Finalize, Finish
<1>2. DOMAIN records' = DOMAIN records
  BY <1>1 DEF FinalizedRecords
<1> QED
  BY <1>1, <1>2, FinalizedRecordsEffect DEF RecordsKept

-----------------------------------------------------------------------------
(* What a step has to show.                                                *)

\* The calls keep their tickets and the records theirs.
LEMMA TicketsKept ==
  ASSUME HttpInv, RecordsKept,
         \A c \in Calls : /\ calls'[c].ticket = calls[c].ticket
                          /\ calls[c].ticket # NoTicket => calls'[c].op = calls[c].op
  PROVE  TicketsAreCalls'
<1>1. \A o \in DOMAIN records : records[o].ticket \in Tickets
  BY DEF HttpInv, ControlInv, ControlTypeOK, StoredOperation
<1>2. NoTicket \notin Tickets
  BY ControlAssumption
<1>3. ASSUME NEW o \in DOMAIN records'
      PROVE  \E c \in Calls : calls'[c].ticket = records'[o].ticket /\ calls'[c].op = o
  <2>1. o \in DOMAIN records /\ records'[o].ticket = records[o].ticket
    BY <1>3 DEF RecordsKept
  <2>2. PICK c \in Calls : calls[c].ticket = records[o].ticket /\ calls[c].op = o
    BY <2>1 DEF HttpInv, TicketsAreCalls
  <2> QED
    BY <1>1, <1>2, <2>1, <2>2
<1> QED
  BY <1>3 DEF HttpInv, TicketsAreCalls

\* One call moves on, with the ticket it had.
LEMMA CallMoves ==
  ASSUME HttpInv, NEW c \in Calls, NEW k \in CallType,
         calls' = [calls EXCEPT ![c] = k],
         k.ticket = calls[c].ticket, calls[c].ticket # NoTicket => k.op = calls[c].op,
         UNCHANGED <<controlled, mode>>, session' \in {"open", "removed", "closed"},
         OverIsStopped', ControlInv', RecordsKept, CallOK(k)',
         \A d \in Calls \ {c} : Spares(calls[d].ticket)
  PROVE  HttpInv'
<1>1. calls' \in [Calls -> CallType] /\ calls'[c] = k
  BY DEF HttpInv, HttpTypeOK
<1>2. \A d \in Calls \ {c} : calls'[d] = calls[d]
  BY DEF HttpInv, HttpTypeOK
<1>3. ASSUME NEW d \in Calls \ {c}
      PROVE  CallOK(calls[d])' /\ calls'[d] = calls[d]
  <2>1. PICK j : j = calls[d]
    OBVIOUS
  <2>2. j \in CallType /\ CallOK(j) /\ Spares(j.ticket)
    BY <2>1 DEF HttpInv, HttpTypeOK
  <2>3. CallOK(j)'
    BY <2>2, CallHeld
  <2>4. calls'[d] = j
    BY <1>2, <2>1
  <2> QED
    BY <2>1, <2>3, <2>4
<1>4. (\A d \in Calls : CallOK(calls[d]))'
  BY <1>1, <1>3
<1>5. HttpTypeOK'
  BY <1>1 DEF HttpInv, HttpTypeOK
<1>6. TicketsAreCalls'
  BY <1>1, <1>2, TicketsKept
<1> QED
  BY <1>4, <1>5, <1>6 DEF HttpInv

\* One call moves on and the control is not touched.
LEMMA CallAlone ==
  ASSUME HttpInv, NEW c \in Calls, NEW k \in CallType,
         calls' = [calls EXCEPT ![c] = k],
         k.ticket = calls[c].ticket, calls[c].ticket # NoTicket => k.op = calls[c].op,
         UNCHANGED <<controlVars, controlled, session, mode>>, CallOK(k)
  PROVE  HttpInv'
<1>1. ControlInv'
  BY NextInv DEF HttpInv
<1>2. RecordsKept /\ \A u : Spares(u)
  BY DEF RecordsKept, Spares, controlVars
<1>3. CallOK(k)'
  BY <1>2, CallHeld
<1>4. OverIsStopped' /\ session' \in {"open", "removed", "closed"}
  BY DEF HttpInv, HttpTypeOK, OverIsStopped, controlVars
<1> QED
  BY <1>1, <1>2, <1>3, <1>4, CallMoves

-----------------------------------------------------------------------------
(* The steps that leave the control alone.                                 *)

\* A call that is over before it was worked on.
LEMMA OverBeforeWork ==
  ASSUME NEW k \in CallType, CallOK(k), k.pc \in {"sent", "admitted"},
         NEW h \in {"none", "uncertain", "denied", "revoked", "failed"}
  PROVE  CallOK(Over(k, h))
<1>1. PICK is : is = Over(k, h)
  OBVIOUS
<1>2. /\ is.pc = "over" /\ is.heard = h /\ is.route = k.route /\ is.op = k.op
      /\ is.ticket = NoTicket /\ ~is.worked
  BY <1>1, OverFields DEF CallOK, Ticketless
<1>3. Ticketless(is) /\ Ticketed(is) /\ HasHeard(is)
  BY <1>2 DEF Ticketless, Ticketed, HasHeard, CallType
<1>4. Asked(is)
  BY <1>2 DEF CallOK, Asked
<1> QED
  BY <1>1, <1>3, <1>4 DEF CallOK

LEMMA RefusedInv ==
  ASSUME HttpInv, NEW c \in Calls, calls[c].pc \in {"sent", "admitted"},
         NEW answer \in {"denied", "revoked", "failed"}, calls' = Hears(c, answer),
         UNCHANGED <<controlVars, controlled, session, mode>>
  PROVE  HttpInv'
<1>1. PICK k : k = calls[c]
  OBVIOUS
<1>2. k \in CallType /\ CallOK(k)
  BY <1>1 DEF HttpInv, HttpTypeOK
<1>3. PICK h : h = IF k.connected THEN answer ELSE k.heard
  OBVIOUS
<1>4. h \in {"none", "uncertain", "denied", "revoked", "failed"}
  BY <1>1, <1>2, <1>3 DEF CallOK, HasHeard
<1>5. calls' = [calls EXCEPT ![c] = Over(k, h)]
  BY <1>1, <1>3 DEF Hears
<1>6. Over(k, h) \in CallType /\ Over(k, h).ticket = k.ticket /\ Over(k, h).op = k.op
  BY <1>2, <1>4, OverFields
<1>7. CallOK(Over(k, h))
  BY <1>1, <1>2, <1>4, OverBeforeWork
<1> QED
  BY <1>1, <1>5, <1>6, <1>7, CallAlone

\* A caller asks.
LEMMA SendsInv ==
  ASSUME HttpInv, NEW c \in Calls, At(c, "idle"), NEW route \in RouteTable,
         NEW actor \in Callers, NEW op \in OpIds \cup {NoOp}, Sends(c, route, actor, op)
  PROVE  HttpInv'
<1>1. PICK n, yes : n = NoCall /\ yes = TRUE
  OBVIOUS
<1>2. /\ n \in CallType
      /\ n.pc = "idle" /\ n.op = NoOp /\ n.ticket = NoTicket /\ ~n.worked /\ n.heard = "none"
  BY <1>1, NoCallFields
<1>3. PICK k : k = [n EXCEPT !.pc = "sent", !.route = route, !.actor = actor, !.op = op,
                             !.epoch = epoch, !.mode = mode, !.connected = yes]
  OBVIOUS
<1>4. /\ k.pc = "sent" /\ k.route = route /\ k.op = op
      /\ k.ticket = NoTicket /\ ~k.worked /\ k.heard = "none"
  BY <1>2, <1>3 DEF CallType
<1>5. k \in CallType
  <2>1. epoch \in Nat /\ mode \in Modes /\ yes \in BOOLEAN
    BY <1>1 DEF HttpInv, HttpTypeOK, ControlInv, ControlTypeOK
  <2> QED
    BY <1>2, <1>3, <2>1 DEF CallType
<1>6. CallOK(k)
  BY <1>4 DEF CallOK, Ticketless, Ticketed, HasHeard, Asked, Sends
<1>7. calls[c].ticket = NoTicket
  BY DEF HttpInv, CallOK, Ticketless, At
<1>8. calls' = [calls EXCEPT ![c] = k]
  BY <1>1, <1>3 DEF Sends
<1> QED
  BY <1>4, <1>5, <1>6, <1>7, <1>8, CallAlone DEF Sends

\* The caller is gone, or gives up.
LEMMA LosesTouchInv ==
  ASSUME HttpInv, NEW c \in Calls, LosesTouch(c)
  PROVE  HttpInv'
<1>1. PICK j, no : j = calls[c] /\ no = FALSE
  OBVIOUS
<1>2. j \in CallType /\ CallOK(j) /\ j.pc \notin {"idle", "over"}
  BY <1>1 DEF HttpInv, HttpTypeOK, LosesTouch
<1>3. PICK k : k = [j EXCEPT !.connected = no, !.heard = "uncertain"]
  OBVIOUS
<1>4. k \in CallType
  <2>1. no \in BOOLEAN
    BY <1>1
  <2> QED
    BY ZenonT(60), <1>2, <1>3, <2>1 DEF CallType
<1>5. /\ k.heard = "uncertain" /\ k.pc = j.pc /\ k.route = j.route /\ k.actor = j.actor
      /\ k.epoch = j.epoch /\ k.op = j.op /\ k.ticket = j.ticket /\ k.worked = j.worked
      /\ k.draft = j.draft
  BY <1>2, <1>3 DEF CallType
<1>6. Ticketless(k) /\ Asked(k)
  BY <1>2, <1>5 DEF CallOK, Ticketless, Asked, Governed
<1>7. Ticketed(k)
  BY <1>2, <1>5 DEF CallOK, Ticketed, Governed, Identity, Recorded
<1>8. HasHeard(k)
  BY <1>2, <1>5 DEF CallOK, HasHeard, Governed, Recorded
<1>9. calls' = [calls EXCEPT ![c] = k]
  BY <1>1, <1>3 DEF LosesTouch, HttpInv, HttpTypeOK
<1> QED
  BY <1>1, <1>4, <1>5, <1>6, <1>7, <1>8, <1>9, CallAlone DEF LosesTouch, CallOK

\* A call that was admitted, or whose record is repeated: nothing has run for it.
LEMMA WaitsInv ==
  ASSUME HttpInv, NEW c \in Calls, Arrives(c) \/ Replays(c)
  PROVE  HttpInv'
<1>1. PICK j : j = calls[c]
  OBVIOUS
<1>2. j \in CallType /\ CallOK(j)
  BY <1>1 DEF HttpInv, HttpTypeOK
<1>3. CASE calls' = Hears(c, "denied") /\ Arrives(c)
  BY <1>3, RefusedInv DEF Arrives, At
<1>4. CASE calls' = To(c, "admitted") /\ Arrives(c)
  <2>1. PICK k : k = [j EXCEPT !.pc = "admitted"]
    OBVIOUS
  <2>2. k \in CallType
    BY <1>2, <2>1 DEF CallType
  <2>3. /\ k.pc = "admitted" /\ k.route = j.route /\ k.op = j.op /\ k.ticket = j.ticket
        /\ k.worked = j.worked /\ k.heard = j.heard
    BY <1>2, <2>1 DEF CallType
  <2>4. j.pc = "sent"
    BY <1>1, <1>4 DEF Arrives, At
  <2>5. CallOK(k)
    BY <1>2, <2>3, <2>4 DEF CallOK, Ticketless, Ticketed, HasHeard, Asked
  <2>6. calls' = [calls EXCEPT ![c] = k]
    BY <1>1, <1>4, <2>1 DEF To, HttpInv, HttpTypeOK
  <2> QED
    BY <1>1, <1>4, <2>2, <2>3, <2>5, <2>6, CallAlone DEF Arrives
<1>5. CASE Replays(c)
  <2>1. PICK k : k = [j EXCEPT !.pc = "replaying", !.since = review]
    OBVIOUS
  <2>2. k \in CallType
    <3>1. review \in Nat
      BY ControlAssumption DEF HttpInv, ControlInv, ControlTypeOK
    <3> QED
      BY <1>2, <2>1, <3>1 DEF CallType
  <2>3. /\ k.pc = "replaying" /\ k.route = j.route /\ k.op = j.op /\ k.ticket = j.ticket
        /\ k.worked = j.worked /\ k.heard = j.heard
    BY <1>2, <2>1 DEF CallType
  <2>4. j.pc = "admitted" /\ j.op \in DOMAIN records
    BY <1>1, <1>5 DEF Replays, Reached, At, Spent
  <2>5. CallOK(k)
    BY <1>2, <2>3, <2>4 DEF CallOK, Ticketless, Ticketed, HasHeard, Asked
  <2>6. calls' = [calls EXCEPT ![c] = k]
    BY <1>1, <1>5, <2>1 DEF Replays, HttpInv, HttpTypeOK
  <2> QED
    BY <1>1, <1>5, <2>2, <2>3, <2>5, <2>6, CallAlone DEF Replays
<1> QED
  BY <1>3, <1>4, <1>5 DEF Arrives

LEMMA DeniesInv ==
  ASSUME HttpInv, NEW c \in Calls, Denies(c)
  PROVE  HttpInv'
BY RefusedInv DEF Denies, Reached, At

\* A publication on its way out.
LEMMA LeavesInv ==
  ASSUME HttpInv, NEW c \in Calls, Publishes(c) \/ OnSend(c)
  PROVE  HttpInv'
<1>1. PICK j : j = calls[c]
  OBVIOUS
<1>2. j \in CallType /\ CallOK(j)
  BY <1>1 DEF HttpInv, HttpTypeOK
<1>3. CASE Publishes(c)
  <2>1. PICK draft : draft = IF j.ticket = NoTicket THEN "recorded" ELSE j.draft
    OBVIOUS
  <2>2. PICK k : k = [j EXCEPT !.pc = "sending", !.draft = draft]
    OBVIOUS
  <2>3. draft \in {"none", "ok", "failed", "recorded"}
    BY <1>2, <2>1 DEF CallType
  <2>4. k \in CallType
    BY <1>2, <2>2, <2>3 DEF CallType, Governing
  <2>5. /\ k.pc = "sending" /\ k.route = j.route /\ k.actor = j.actor /\ k.epoch = j.epoch
        /\ k.op = j.op /\ k.ticket = j.ticket /\ k.worked = j.worked /\ k.heard = j.heard
        /\ k.draft = draft
    BY <1>2, <2>2 DEF CallType
  <2>6. j.pc \in {"publishing", "replaying"}
    BY <1>1, <1>3 DEF Publishes
  <2>7. Ticketless(k) /\ HasHeard(k) /\ Asked(k)
    BY <1>2, <2>1, <2>5, <2>6
       DEF CallOK, Ticketless, HasHeard, Asked, Governed, Recorded
  <2>8. Ticketed(k)
    BY <1>2, <2>1, <2>5, <2>6
       DEF CallOK, Ticketless, Ticketed, Governed, Identity, Recorded, Governing
  <2>9. calls' = [calls EXCEPT ![c] = k]
    BY <1>1, <1>3, <2>1, <2>2 DEF Publishes, HttpInv, HttpTypeOK
  <2> QED
    BY <1>1, <1>3, <2>4, <2>5, <2>7, <2>8, <2>9, CallAlone DEF Publishes, CallOK
<1>4. CASE OnSend(c)
  <2>2. PICK k : k = [j EXCEPT !.pc = "flushing"]
    OBVIOUS
  <2>4. k \in CallType
    BY <1>2, <2>2 DEF CallType, Governing
  <2>5. /\ k.pc = "flushing" /\ k.route = j.route /\ k.actor = j.actor /\ k.epoch = j.epoch
        /\ k.op = j.op /\ k.ticket = j.ticket /\ k.worked = j.worked /\ k.heard = j.heard
        /\ k.draft = j.draft
    BY <1>2, <2>2 DEF CallType
  <2>6. j.pc = "sending"
    BY <1>1, <1>4 DEF OnSend, At
  <2>7. Ticketless(k) /\ HasHeard(k) /\ Asked(k)
    BY <1>2, <2>5, <2>6
       DEF CallOK, Ticketless, HasHeard, Asked, Governed, Recorded
  <2>8. Ticketed(k)
    BY <1>2, <2>5, <2>6
       DEF CallOK, Ticketless, Ticketed, Governed, Identity, Recorded, Governing
  <2>9. calls' = [calls EXCEPT ![c] = k]
    BY <1>1, <1>4, <2>2 DEF OnSend, To, HttpInv, HttpTypeOK
  <2> QED
    BY <1>1, <1>4, <2>4, <2>5, <2>7, <2>8, <2>9, CallAlone DEF OnSend, CallOK
<1> QED
  BY <1>3, <1>4

\* A handler that replies by itself, outside control or when the session is over.
LEMMA RepliesInv ==
  ASSUME HttpInv, NEW c \in Calls, At(c, "admitted"),
         NEW answer \in {"ok", "failed"}, NEW worked \in BOOLEAN,
         calls' = [Hears(c, answer) EXCEPT ![c].worked = worked],
         controlled /\ Governed(calls[c]) => ~Mutation(calls[c].route),
         UNCHANGED <<controlVars, controlled, session, mode>>
  PROVE  HttpInv'
<1>1. PICK j : j = calls[c]
  OBVIOUS
<1>2. j \in CallType /\ CallOK(j) /\ j.pc = "admitted"
  BY <1>1 DEF HttpInv, HttpTypeOK, At
<1>3. PICK h : h = IF j.connected THEN answer ELSE j.heard
  OBVIOUS
<1>4. h \in {"none", "uncertain", "ok", "failed"}
  BY <1>1, <1>2, <1>3 DEF CallOK, HasHeard
<1>5. PICK o : o = Over(j, h)
  OBVIOUS
<1>6. /\ o \in CallType
      /\ o.pc = "over" /\ o.heard = h /\ o.route = j.route /\ o.op = j.op /\ o.ticket = j.ticket
  BY <1>2, <1>4, <1>5, OverFields
<1>7. PICK k : k = [o EXCEPT !.worked = worked]
  OBVIOUS
<1>8. k \in CallType
  BY <1>6, <1>7 DEF CallType
<1>9. /\ k.pc = "over" /\ k.heard = h /\ k.route = j.route /\ k.op = j.op /\ k.ticket = j.ticket
  BY <1>6, <1>7 DEF CallType
<1>10. CallOK(k)
  BY <1>1, <1>2, <1>4, <1>9 DEF CallOK, Ticketless, Ticketed, HasHeard, Asked, Governed
<1>11. calls' = [calls EXCEPT ![c] = k]
  BY <1>1, <1>3, <1>5, <1>7 DEF Hears, HttpInv, HttpTypeOK
<1> QED
  BY <1>1, <1>8, <1>9, <1>10, <1>11, CallAlone

LEMMA EndedInv ==
  ASSUME HttpInv, NEW c \in Calls, Ended(c)
  PROVE  HttpInv'
<1>1. CASE session = "closed" /\ calls[c].route.retained
  <2>1. CallOK(calls[c])
    BY DEF HttpInv
  <2>2. calls[c].route \in RouteTable
    BY <2>1 DEF CallOK, Asked, Ended, At
  <2>3. ~Mutation(calls[c].route)
    BY <1>1, <2>2, RouteFacts DEF Registered
  <2>4. calls' = [Hears(c, "ok") EXCEPT ![c].worked = TRUE]
    BY <1>1 DEF Ended
  <2> QED
    BY <2>3, <2>4, RepliesInv DEF Ended
<1>2. CASE ~(session = "closed" /\ calls[c].route.retained)
  <2>1. calls' = Hears(c, "revoked")
    BY <1>2 DEF Ended
  <2> QED
    BY <2>1, RefusedInv DEF Ended, At
<1> QED
  BY <1>1, <1>2

LEMMA UncontrolledInv ==
  ASSUME HttpInv, NEW c \in Calls, NEW answer \in {"ok", "failed"}, Uncontrolled(c, answer)
  PROVE  HttpInv'
<1>1. controlled /\ Governed(calls[c]) => ~Mutation(calls[c].route)
  BY DEF Uncontrolled, UnderControl, Governed
<1>2. PICK w \in BOOLEAN : w = (Insists(calls[c]) /\ answer = "ok")
  OBVIOUS
<1>3. calls' = [Hears(c, answer) EXCEPT ![c].worked = w]
  BY <1>2 DEF Uncontrolled
<1> QED
  BY <1>1, <1>3, RepliesInv DEF Uncontrolled

-----------------------------------------------------------------------------
(* The steps under a ticket.                                               *)

\* What a call that holds the control knows of its own operation.
LEMMA OwnOperation ==
  ASSUME HttpInv, NEW c \in Calls, calls[c].ticket # NoTicket
  PROVE  /\ calls[c].ticket \in DOMAIN tickets
         /\ Mutation(calls[c].route) =>
              /\ calls[c].op # NoOp
              /\ tickets[calls[c].ticket].op = calls[c].op
              /\ calls[c].op \in DOMAIN records
              /\ records[calls[c].op].ticket = calls[c].ticket
<1>1. CallOK(calls[c])
  BY DEF HttpInv
<1>2. /\ calls[c].ticket \in DOMAIN tickets
      /\ tickets[calls[c].ticket].op = Identity(calls[c])
      /\ calls[c].pc \in Governing \cup {"over"}
  BY <1>1 DEF CallOK, Ticketed
<1>3. ASSUME Mutation(calls[c].route)
      PROVE  calls[c].op # NoOp /\ tickets[calls[c].ticket].op = calls[c].op
  <2>1. calls[c].route \in RouteTable /\ (calls[c].op # NoOp <=> Names(calls[c].route))
    BY <1>1, <1>2 DEF CallOK, Asked, Governing
  <2> QED
    BY <1>2, <1>3, <2>1, RouteFacts DEF Registered, Identity
<1>4. ASSUME Mutation(calls[c].route)
      PROVE  calls[c].op \in DOMAIN records
  BY <1>2, <1>3, <1>4 DEF HttpInv, ControlInv, RecordsMatchTickets
<1>5. ASSUME Mutation(calls[c].route)
      PROVE  records[calls[c].op].ticket = calls[c].ticket
  BY <1>2, <1>3, <1>4, <1>5, OwnRecord DEF HttpInv
<1> QED
  BY <1>2, <1>3, <1>4, <1>5

\* What spares every other ticket spares every other call.
LEMMA OthersSpared ==
  ASSUME HttpInv, NEW c \in Calls, calls[c].ticket # NoTicket,
         \A u : u # calls[c].ticket => Spares(u)
  PROVE  \A d \in Calls \ {c} : Spares(calls[d].ticket)
BY DEF HttpInv, TicketsAreCalls

LEMMA WorksInv ==
  ASSUME HttpInv, NEW c \in Calls, Works(c)
  PROVE  HttpInv'
<1>1. PICK j, yes : j = calls[c] /\ yes = TRUE
  OBVIOUS
<1>2. j \in CallType /\ CallOK(j) /\ j.pc = "working" /\ yes \in BOOLEAN
  BY <1>1 DEF HttpInv, HttpTypeOK, Works, At
<1>3. PICK k : k = [j EXCEPT !.worked = yes]
  OBVIOUS
<1>4. k \in CallType
  BY <1>2, <1>3 DEF CallType
<1>5. /\ k.pc = j.pc /\ k.route = j.route /\ k.actor = j.actor /\ k.epoch = j.epoch
      /\ k.op = j.op /\ k.ticket = j.ticket /\ k.heard = j.heard /\ k.draft = j.draft
      /\ k.worked = yes
  BY <1>2, <1>3 DEF CallType
<1>6. calls' = [calls EXCEPT ![c] = k]
  BY <1>1, <1>3 DEF Works, HttpInv, HttpTypeOK
<1>7. k.ticket # NoTicket /\ k.ticket \in DOMAIN tickets
  BY <1>2, <1>5 DEF CallOK, Ticketless, Ticketed
<1>8. HasHeard(k) /\ Asked(k) /\ Ticketless(k)
  BY <1>2, <1>5, <1>7 DEF CallOK, HasHeard, Asked, Ticketless, Governed, Recorded
<1>9. CASE ~Mutation(j.route)
  <2>1. Ticketed(k)
    BY <1>2, <1>5, <1>7, <1>9 DEF CallOK, Ticketed, Governed, Identity, Governing
  <2> QED
    BY <1>1, <1>4, <1>5, <1>6, <1>8, <1>9, <2>1, CallAlone DEF Works, CallOK
<1>10. CASE Mutation(j.route)
  <2>1. Dispatched(k.ticket) /\ UNCHANGED <<controlled, session, mode>>
    BY <1>1, <1>5, <1>10 DEF Works
  <2>2. ControlInv'
    BY <1>7, <2>1, DispatchedInv DEF HttpInv
  <2>3. RecordsKept /\ \A d \in Calls \ {c} : Spares(calls[d].ticket)
    BY <1>1, <1>5, <1>7, <2>1, DispatchedKeeps, DispatchedSpares, OthersSpared DEF HttpInv
  <2>4. /\ UNCHANGED <<state, active, finalized>>
        /\ DOMAIN tickets' = DOMAIN tickets /\ DOMAIN records' = DOMAIN records
    BY <2>1 DEF Dispatched
  <2>5. /\ tickets'[k.ticket].op = tickets[k.ticket].op
        /\ tickets'[k.ticket].actor = tickets[k.ticket].actor
        /\ tickets'[k.ticket].epoch = tickets[k.ticket].epoch
        /\ tickets'[k.ticket].didDispatch = TRUE
    <3>1. tickets[k.ticket] \in Ticket
      BY <1>7 DEF HttpInv, ControlInv, ControlTypeOK
    <3>2. tickets' = [tickets EXCEPT ![k.ticket].didDispatch = TRUE]
      BY <2>1 DEF Dispatched
    <3> QED
      BY <1>7, <3>1, <3>2 DEF Ticket
  <2>6. /\ controlled /\ tickets[j.ticket].op = Identity(j)
        /\ tickets[j.ticket].actor = j.actor /\ active = j.ticket
        /\ j.actor = "agent" => tickets[j.ticket].epoch = j.epoch
        /\ ~finalized
    BY <1>2, <1>5, <1>7 DEF CallOK, Ticketed, Governing
  <2>7. Ticketed(k)'
    BY ZenonT(60), <1>1, <1>2, <1>5, <1>7, <2>1, <2>4, <2>5, <2>6
       DEF Ticketed, Governed, Identity, Governing
  <2>8. HasHeard(k)' /\ Asked(k)' /\ Ticketless(k)'
    BY <1>2, <1>5, <1>7, <1>8, <2>4 DEF CallOK, HasHeard, Asked, Ticketless, Governed
  <2>9. OverIsStopped' /\ session' \in {"open", "removed", "closed"}
    BY <2>1, <2>4 DEF HttpInv, HttpTypeOK, OverIsStopped
  <2> QED
    BY <1>1, <1>4, <1>5, <1>6, <2>1, <2>2, <2>3, <2>7, <2>8, <2>9, CallMoves DEF CallOK
<1> QED
  BY <1>9, <1>10

\* The ticket is released and the call is over: it was told what is on record, or that it
\* failed, or nothing.
LEMMA CallReleaseInv ==
  ASSUME HttpInv, NEW c \in Calls, calls[c].pc \in Governing, calls[c].ticket # NoTicket,
         NEW s \in Terminal, Finish(calls[c].ticket, s),
         NEW h \in {"none", "uncertain", "revoked", "failed", "ok"},
         h = "ok" /\ Mutation(calls[c].route) => finalized /\ Recorded(calls[c]),
         calls' = [calls EXCEPT ![c] = Over(calls[c], h)],
         UNCHANGED <<controlled, session, mode>>
  PROVE  HttpInv'
<1>1. PICK j : j = calls[c]
  OBVIOUS
<1>2. j \in CallType /\ CallOK(j)
  BY <1>1 DEF HttpInv, HttpTypeOK
<1>3. PICK k : k = Over(j, h)
  OBVIOUS
<1>4. /\ k \in CallType
      /\ k.pc = "over" /\ k.heard = h /\ k.route = j.route /\ k.actor = j.actor /\ k.op = j.op
      /\ k.ticket = j.ticket /\ k.worked = j.worked
  BY <1>2, <1>3, OverFields
<1>5. /\ j.ticket \in DOMAIN tickets /\ Finish(j.ticket, s)
  BY <1>1, OwnOperation
<1>6. ControlInv'
  BY <1>5, FinalizedInv DEF HttpInv
<1>7. RecordsKept /\ \A d \in Calls \ {c} : Spares(calls[d].ticket)
  BY <1>1, <1>5, FinalizedKeeps, FinalizedSpares, OthersSpared DEF HttpInv
<1>8. /\ tickets' = tickets /\ active' = NoTicket
      /\ DOMAIN records' = DOMAIN records
      /\ finalized => records' = records
      /\ state = "STOPPED" => state' = "STOPPED"
  BY <1>5 DEF Finish, FinalizedRecords
<1>9. /\ controlled /\ tickets[j.ticket].op = Identity(j)
      /\ tickets[j.ticket].actor = j.actor
      /\ Mutation(j.route) => j.worked = tickets[j.ticket].didDispatch
      /\ j.ticket # NoTicket
  BY <1>1, <1>2 DEF CallOK, Ticketed
<1>10. Ticketed(k)'
  BY <1>4, <1>5, <1>8, <1>9 DEF Ticketed, Governed, Identity, Governing
<1>11. HasHeard(k)'
  BY <1>1, <1>4, <1>8, <1>9 DEF HasHeard, Governed, Recorded
<1>12. Asked(k)' /\ Ticketless(k)'
  BY <1>1, <1>2, <1>4 DEF CallOK, Asked, Ticketless, Governed, Governing
<1>13. OverIsStopped' /\ session' \in {"open", "removed", "closed"}
  BY <1>8 DEF HttpInv, HttpTypeOK, OverIsStopped
<1> QED
  BY <1>1, <1>3, <1>4, <1>6, <1>7, <1>10, <1>11, <1>12, <1>13, CallMoves DEF CallOK

\* Statuses a run can end with.
LEMMA StatusLeftIsTerminal ==
  ASSUME NEW t
  PROVE  StatusLeft(t) \in Terminal /\ "completed" \in Terminal
BY DEF StatusLeft, Terminal

LEMMA AbandonsInv ==
  ASSUME HttpInv, NEW c \in Calls, Abandons(c)
  PROVE  HttpInv'
<1>1. PICK j : j = calls[c]
  OBVIOUS
<1>2. j \in CallType /\ CallOK(j) /\ j.pc = "working"
  BY <1>1 DEF HttpInv, HttpTypeOK, Abandons, At
<1>3. PICK h : h = IF j.connected THEN "revoked" ELSE j.heard
  OBVIOUS
<1>4. h \in {"none", "uncertain", "revoked"}
  BY <1>2, <1>3 DEF CallOK, HasHeard
<1>5. j.ticket # NoTicket
  BY <1>2 DEF CallOK, Ticketless
<1>6. calls' = [calls EXCEPT ![c] = Over(j, h)]
  BY <1>1, <1>3 DEF Abandons, Hears
<1> QED
  BY <1>1, <1>2, <1>4, <1>5, <1>6, StatusLeftIsTerminal, CallReleaseInv DEF Abandons, Governing

\* A publication that is over: its bytes are out, or its connection is cut.
LEMMA PublishedInv ==
  ASSUME HttpInv, NEW c \in Calls, Flushed(c) \/ Terminates(c)
  PROVE  HttpInv'
<1>1. PICK j : j = calls[c]
  OBVIOUS
<1>2. /\ j \in CallType /\ CallOK(j)
      /\ j.pc \in {"publishing", "replaying", "sending", "flushing"}
  BY <1>1 DEF HttpInv, HttpTypeOK, Flushed, Terminates, At
<1>3. PICK h : /\ calls' = [calls EXCEPT ![c] = Over(j, h)]
               /\ h = "uncertain" \/ (h = j.draft /\ j.pc = "flushing")
  <2>1. CASE Flushed(c)
    <3>1. calls' = [calls EXCEPT ![c] = Over(j, j.draft)]
      BY <1>1, <2>1 DEF Flushed, Hears
    <3> QED
      BY <1>1, <2>1, <3>1 DEF Flushed, At
  <2>2. CASE Terminates(c)
    BY <1>1, <2>2 DEF Terminates, Cut
  <2> QED
    BY <2>1, <2>2
<1>4. Releases(c) /\ UNCHANGED <<controlled, session, mode>>
  BY DEF Flushed, Terminates
<1>5. CASE j.ticket # NoTicket
  <2>1. /\ finalized /\ j.draft \in {"ok", "failed"}
        /\ j.draft = "ok" /\ Mutation(j.route) => Recorded(j)
        /\ j.pc \in Governing
    BY <1>2, <1>5 DEF CallOK, Ticketed, Governing
  <2>2. PICK s \in Terminal : Finish(j.ticket, s)
    BY <1>1, <1>4, <1>5, StatusLeftIsTerminal DEF Releases
  <2>3. /\ h \in {"uncertain", "failed", "ok"}
        /\ h = "ok" /\ Mutation(j.route) => finalized /\ Recorded(j)
    BY <1>3, <2>1
  <2> QED
    BY <1>1, <1>3, <1>4, <1>5, <2>1, <2>2, <2>3, CallReleaseInv
<1>6. CASE j.ticket = NoTicket
  <2>1. UNCHANGED controlVars
    BY <1>1, <1>4, <1>6 DEF Releases
  <2>2. ~j.worked /\ h \in {"uncertain", "recorded"} /\ j.op \in DOMAIN records
    BY <1>2, <1>3, <1>6 DEF CallOK, Ticketless
  <2>3. PICK k : k = Over(j, h)
    OBVIOUS
  <2>4. /\ k \in CallType
        /\ k.pc = "over" /\ k.heard = h /\ k.route = j.route /\ k.op = j.op
        /\ k.ticket = j.ticket /\ k.worked = j.worked
    BY <1>2, <2>2, <2>3, OverFields
  <2>5. CallOK(k)
    BY <1>2, <1>6, <2>2, <2>4 DEF CallOK, Ticketless, Ticketed, HasHeard, Asked, Governing
  <2> QED
    BY <1>1, <1>3, <1>4, <2>1, <2>3, <2>4, <2>5, CallAlone
<1> QED
  BY <1>5, <1>6

\* The draft is ready and the facts are frozen.
LEMMA DraftsInv ==
  ASSUME HttpInv, NEW c \in Calls, NEW draft \in {"ok", "failed"}, Drafts(c, draft)
  PROVE  HttpInv'
<1>1. PICK j : j = calls[c]
  OBVIOUS
<1>2. j \in CallType /\ CallOK(j) /\ j.pc = "working"
  BY <1>1 DEF HttpInv, HttpTypeOK, Drafts, At
<1>3. PICK k : k = [j EXCEPT !.pc = "publishing", !.draft = draft]
  OBVIOUS
<1>4. k \in CallType
  BY <1>2, <1>3 DEF CallType, Governing
<1>5. /\ k.pc = "publishing" /\ k.route = j.route /\ k.actor = j.actor /\ k.epoch = j.epoch
      /\ k.op = j.op /\ k.ticket = j.ticket /\ k.heard = j.heard /\ k.draft = draft
      /\ k.worked = j.worked
  BY <1>2, <1>3 DEF CallType
<1>6. calls' = [calls EXCEPT ![c] = k]
  BY <1>1, <1>3 DEF Drafts, HttpInv, HttpTypeOK
<1>7. j.ticket # NoTicket /\ j.ticket \in DOMAIN tickets
  BY <1>2 DEF CallOK, Ticketless, Ticketed
<1>8. PICK s \in Terminal : /\ Finalize(j.ticket, s)
                            /\ draft = "ok" => s = "completed"
  BY <1>1, StatusLeftIsTerminal DEF Drafts
<1>9. ControlInv'
  BY <1>7, <1>8, FinalizedInv DEF HttpInv
<1>10. RecordsKept /\ \A d \in Calls \ {c} : Spares(calls[d].ticket)
  BY <1>1, <1>7, <1>8, FinalizedKeeps, FinalizedSpares, OthersSpared DEF HttpInv
<1>11. /\ UNCHANGED <<state, tickets, active>> /\ finalized' = TRUE /\ ~finalized
       /\ records' = FinalizedRecords(j.ticket, s)
       /\ DOMAIN records' = DOMAIN records
  BY <1>8 DEF Finalize, FinalizedRecords
<1>12. draft = "ok" /\ Mutation(j.route) => Recorded(k)'
  <2>1. ASSUME draft = "ok", Mutation(j.route)
        PROVE  /\ j.op \in DOMAIN records /\ j.op = tickets[j.ticket].op
    BY <1>1, <1>7, <2>1, OwnOperation
  <2>2. ASSUME draft = "ok", Mutation(j.route)
        PROVE  records'[j.op].record.status = "completed"
    BY <1>7, <1>8, <1>11, <2>1, <2>2, FinalizedRecordsEffect DEF HttpInv
  <2> QED
    BY <1>5, <1>7, <1>11, <2>1, <2>2 DEF Recorded
<1>13. /\ controlled /\ tickets[j.ticket].op = Identity(j)
       /\ tickets[j.ticket].actor = j.actor /\ active = j.ticket
       /\ j.actor = "agent" => tickets[j.ticket].epoch = j.epoch
       /\ Mutation(j.route) => j.worked = tickets[j.ticket].didDispatch
  BY <1>2, <1>7 DEF CallOK, Ticketed, Governing
<1>14. controlled' = controlled /\ session' = session /\ mode' = mode
  BY DEF Drafts
<1>15. Ticketed(k)'
  BY <1>5, <1>7, <1>11, <1>12, <1>13, <1>14 DEF Ticketed, Governed, Identity, Governing
<1>16. HasHeard(k)' /\ Asked(k)' /\ Ticketless(k)'
  BY <1>2, <1>5, <1>7 DEF CallOK, HasHeard, Asked, Ticketless, Governed
<1>17. OverIsStopped' /\ session' \in {"open", "removed", "closed"}
  BY <1>11, <1>14 DEF HttpInv, HttpTypeOK, OverIsStopped
<1> QED
  BY <1>1, <1>4, <1>5, <1>6, <1>9, <1>10, <1>14, <1>15, <1>16, <1>17, CallMoves DEF CallOK

\* A call takes the control: its ticket is new, and so is the record of its operation.
LEMMA TakesControlInv ==
  ASSUME HttpInv, ControlInv', NEW c \in Calls, NEW t \in Tickets,
         At(c, "admitted"), controlled, session = "open", active = NoTicket,
         Unspent(Identity(calls[c])),
         IssueTicket(t, calls[c].actor, Identity(calls[c]), calls[c].route.name, FALSE),
         calls[c].actor = "agent" => epoch' = calls[c].epoch,
         calls' = [calls EXCEPT ![c].pc = "working", ![c].ticket = t],
         UNCHANGED <<controlled, session, mode>>
  PROVE  HttpInv'
<1>1. PICK j : j = calls[c]
  OBVIOUS
<1>2. j \in CallType /\ CallOK(j) /\ j.pc = "admitted" /\ j.ticket = NoTicket
  BY <1>1 DEF HttpInv, HttpTypeOK, At, CallOK, Ticketless
<1>3. /\ IssueTicket(t, j.actor, Identity(j), j.route.name, FALSE) /\ Unspent(Identity(j))
      /\ j.actor = "agent" => epoch' = j.epoch
  BY <1>1
<1>4. PICK k : k = [j EXCEPT !.pc = "working", !.ticket = t]
  OBVIOUS
<1>5. k \in CallType
  BY <1>2, <1>4 DEF CallType, Governing
<1>6. /\ k.pc = "working" /\ k.route = j.route /\ k.actor = j.actor /\ k.epoch = j.epoch
      /\ k.op = j.op /\ k.ticket = t /\ k.heard = j.heard /\ k.worked = j.worked
  BY <1>2, <1>4 DEF CallType
<1>7. calls' = [calls EXCEPT ![c] = k]
  BY <1>1, <1>4 DEF HttpInv, HttpTypeOK
<1>8. \A u : Spares(u)
  BY <1>3, IssueSpares DEF HttpInv
<1>9. /\ t \notin DOMAIN tickets /\ t \in DOMAIN tickets' /\ active' = t /\ finalized' = FALSE
       /\ tickets'[t] = [epoch |-> epoch', actor |-> j.actor, op |-> Identity(j),
                         didDispatch |-> FALSE]
  BY <1>3 DEF IssueTicket
<1>10. Ticketed(k)'
  <2>1. /\ tickets'[t].epoch = epoch' /\ tickets'[t].actor = j.actor
        /\ tickets'[t].op = Identity(j) /\ tickets'[t].didDispatch = FALSE
    BY <1>9
  <2>2. k.worked = FALSE
    BY <1>2, <1>6 DEF CallOK, Ticketless, CallType
  <2>3. Identity(k) = Identity(j) /\ controlled'
    BY <1>6 DEF Identity
  <2> QED
    BY <1>3, <1>6, <1>9, <2>1, <2>2, <2>3 DEF Ticketed, Governing
<1>11. t # NoTicket
  BY ControlAssumption
<1>12. HasHeard(k)' /\ Asked(k)' /\ Ticketless(k)'
  BY <1>2, <1>6, <1>11 DEF CallOK, HasHeard, Asked, Ticketless, Governed
<1>13. OverIsStopped' /\ session' \in {"open", "removed", "closed"}
  BY DEF HttpInv, HttpTypeOK, OverIsStopped
<1>14. calls' \in [Calls -> CallType] /\ calls'[c] = k
  BY <1>5, <1>7 DEF HttpInv, HttpTypeOK
<1>15. \A d \in Calls \ {c} : calls'[d] = calls[d]
  BY <1>7 DEF HttpInv, HttpTypeOK
<1>16. (\A d \in Calls : CallOK(calls[d]))'
  <2>1. ASSUME NEW d \in Calls \ {c}
        PROVE  CallOK(calls[d])'
    <3>1. PICK i : i = calls[d]
      OBVIOUS
    <3>2. i \in CallType /\ CallOK(i)
      BY <3>1 DEF HttpInv, HttpTypeOK
    <3>3. CallOK(i)'
      BY <1>8, <3>2, CallHeld
    <3>4. calls'[d] = i
      BY <1>15, <3>1
    <3> QED
      BY <3>3, <3>4
  <2> QED
    BY <1>10, <1>12, <1>14, <2>1 DEF CallOK
<1>17. TicketsAreCalls'
  <2>1. ASSUME NEW d \in Calls, calls[d].ticket = t
        PROVE  FALSE
    BY <1>9, <1>11, <2>1 DEF HttpInv, CallOK, Ticketed
  <2>2. ASSUME NEW o \in DOMAIN records'
        PROVE  \E d \in Calls : calls'[d].ticket = records'[o].ticket /\ calls'[d].op = o
    <3>1. CASE o \in DOMAIN records
      <4>1. records'[o] = records[o]
        BY <1>3, <3>1 DEF IssueTicket, WithOperation, Unspent
      <4>2. PICK d \in Calls : calls[d].ticket = records[o].ticket /\ calls[d].op = o
        BY <3>1 DEF HttpInv, TicketsAreCalls
      <4>3. records[o].ticket \in Tickets
        BY <3>1 DEF HttpInv, ControlInv, ControlTypeOK, StoredOperation
      <4>4. d # c
        BY <1>1, <1>2, <4>2, <4>3, ControlAssumption
      <4> QED
        BY <1>15, <4>1, <4>2, <4>4
    <3>2. CASE o \notin DOMAIN records
      <4>1. o = Identity(j) /\ o # NoOp /\ records'[o].ticket = t
        BY <1>3, <2>2, <3>2 DEF IssueTicket, WithOperation
      <4> QED
        BY <1>6, <1>14, <4>1 DEF Identity
    <3> QED
      BY <3>1, <3>2
  <2>3. ASSUME NEW a \in Calls, NEW b \in Calls, calls'[a].ticket # NoTicket,
               calls'[a].ticket = calls'[b].ticket
        PROVE  a = b
    BY <1>6, <1>14, <1>15, <2>1, <2>3 DEF HttpInv, TicketsAreCalls
  <2> QED
    BY <2>2, <2>3 DEF TicketsAreCalls
<1> QED
  BY <1>13, <1>14, <1>16, <1>17 DEF HttpInv, HttpTypeOK

LEMMA BeginsInv ==
  ASSUME HttpInv, NEW c \in Calls, NEW t \in Tickets, Begins(c, t)
  PROVE  HttpInv'
<1>1. PICK j : j = calls[c]
  OBVIOUS
<1>2. j \in CallType /\ CallOK(j) /\ j.pc = "admitted"
  BY <1>1 DEF HttpInv, HttpTypeOK, Begins, Reached, At
<1>3. Begin(t, j.actor, j.epoch, Identity(j), j.route.name, FALSE) /\ Admitted(j)
  BY <1>1 DEF Begins
<1>4. /\ j.actor \in Actors /\ j.epoch \in Nat /\ j.route \in RouteTable
      /\ Identity(j) \in OpIds \cup {NoOp}
  <2>1. j.actor \in {"agent", "operator", "human"} /\ j.epoch \in Nat /\ j.op \in OpIds \cup {NoOp}
    BY <1>2 DEF CallType, Callers
  <2>2. j.actor # "human"
    BY <1>3 DEF Admitted
  <2>3. j.route \in RouteTable
    BY <1>2 DEF CallOK, Asked
  <2> QED
    BY <2>1, <2>2, <2>3 DEF Actors, Identity
<1>5. ControlInv'
  BY <1>3, <1>4, RouteFacts, BeginInv DEF HttpInv
<1>6. /\ active = NoTicket /\ Unspent(Identity(j))
      /\ IssueTicket(t, j.actor, Identity(j), j.route.name, FALSE)
      /\ j.actor = "agent" => epoch' = j.epoch
  BY <1>3 DEF Begin, AdmitsActor, LeavesReview, authorizeAgent
<1> QED
  BY <1>1, <1>5, <1>6, TakesControlInv DEF Begins, Reached

\* prepare-resume begins a review and the run that collects it, which is no operation of
\* the caller's.
LEMMA ReviewsInv ==
  ASSUME HttpInv, NEW c \in Calls, NEW t \in Tickets, Reviews(c, t)
  PROVE  HttpInv'
<1>1. PICK j : j = calls[c]
  OBVIOUS
<1>2. /\ j \in CallType /\ CallOK(j) /\ j.pc = "admitted"
      /\ j.actor = "operator" /\ Collects(j)
  BY <1>1 DEF HttpInv, HttpTypeOK, Reviews, Reached, At
<1>3. j.route \in RouteTable
  BY <1>2 DEF CallOK, Asked
<1>4. Identity(j) = NoOp
  BY <1>2, <1>3, RouteFacts DEF Registered, Mutation, Identity, Collects
<1>5. Unspent(NoOp)
  BY ControlAssumption DEF Unspent, HttpInv, ControlInv, ControlTypeOK
<1>6. /\ active = NoTicket /\ state' = "RESUME_REVIEW" /\ epoch' = epoch + 1
      /\ invalidateReview /\ IssueTicket(t, "operator", NoOp, j.route.name, FALSE)
  BY <1>1 DEF Reviews, startReview
<1>7. ControlInv'
  <2>1. epoch' \in Nat /\ epoch <= epoch' /\ state' \in ControlStates /\ review' \in 0..MaxReview
    BY <1>6, ReviewBound DEF HttpInv, ControlInv, ControlTypeOK, ControlStates
  <2>2. j.route.name \in Fingerprints /\ "operator" \in Actors
    BY <1>3, RouteFacts DEF Actors
  <2> QED
    BY <1>5, <1>6, <2>1, <2>2, IssueInv DEF HttpInv
<1> QED
  BY <1>1, <1>2, <1>4, <1>5, <1>6, <1>7, TakesControlInv DEF Reviews, Reached

\* The collection of a review failed and the operator took over: its call goes on under
\* a ticket that is not good any more.
LEMMA CollectionFailsInv ==
  ASSUME HttpInv, NEW c \in Calls, CollectionFails(c)
  PROVE  HttpInv'
<1>1. PICK j : j = calls[c]
  OBVIOUS
<1>2. j \in CallType /\ CallOK(j) /\ j.pc = "working"
  BY <1>1 DEF HttpInv, HttpTypeOK, CollectionFails, At
<1>3. PICK k : k = [j EXCEPT !.draft = "failed"]
  OBVIOUS
<1>4. k \in CallType
  BY <1>2, <1>3 DEF CallType
<1>5. /\ k.pc = "working" /\ k.route = j.route /\ k.actor = j.actor /\ k.epoch = j.epoch
      /\ k.op = j.op /\ k.ticket = j.ticket /\ k.heard = j.heard /\ k.worked = j.worked
  BY <1>2, <1>3 DEF CallType
<1>6. calls' = [calls EXCEPT ![c] = k]
  BY <1>1, <1>3 DEF CollectionFails, HttpInv, HttpTypeOK
<1>7. Takeover /\ session = "open" /\ UNCHANGED <<controlled, session, mode>>
  BY DEF CollectionFails
<1>8. ControlInv' /\ UNCHANGED <<tickets, records, active, finalized>>
  BY <1>7, TransitionInv DEF HttpInv, Takeover
<1>9. RecordsKept /\ \A u : Spares(u)
  BY <1>8, TransitionSpares DEF RecordsKept
<1>10. CallOK(k)
  <2>1. Ticketless(k) /\ HasHeard(k) /\ Asked(k)
    BY <1>2, <1>5 DEF CallOK, Ticketless, HasHeard, Asked, Governed, Recorded
  <2>2. Ticketed(k)
    BY <1>2, <1>5 DEF CallOK, Ticketed, Identity, Governing
  <2> QED
    BY <2>1, <2>2 DEF CallOK
<1>11. CallOK(k)'
  BY <1>4, <1>7, <1>9, <1>10, CallHeld
<1>12. OverIsStopped' /\ session' \in {"open", "removed", "closed"}
  BY <1>7 DEF OverIsStopped
<1> QED
  BY <1>1, <1>4, <1>5, <1>6, <1>7, <1>8, <1>9, <1>11, <1>12, CallMoves

-----------------------------------------------------------------------------
(* The steps that move the ownership.                                      *)

\* The calls are left alone.
LEMMA OwnershipMoves ==
  ASSUME HttpInv, ControlInv', UNCHANGED <<tickets, records, active, finalized>>,
         UNCHANGED <<controlled, calls>>, mode' \in Modes,
         session' \in {"open", "removed", "closed"}, OverIsStopped'
  PROVE  HttpInv'
<1>1. (\A d \in Calls : CallOK(calls[d]))'
  <2>1. ASSUME NEW d \in Calls
        PROVE  CallOK(calls[d])'
    <3>1. PICK i : i = calls[d]
      OBVIOUS
    <3>2. i \in CallType /\ CallOK(i)
      BY <3>1 DEF HttpInv, HttpTypeOK
    <3>3. CallOK(i)' /\ calls'[d] = i
      BY <3>1, <3>2, CallHeld, TransitionSpares
    <3> QED
      BY <3>3
  <2> QED
    BY <2>1
<1>2. RecordsKept
  BY DEF RecordsKept
<1>3. TicketsAreCalls'
  BY <1>2, TicketsKept
<1> QED
  BY <1>1, <1>3 DEF HttpInv, HttpTypeOK

LEMMA ControlChangesInv ==
  ASSUME HttpInv, ControlChanges
  PROVE  HttpInv'
<1>1. Takeover \/ PrepareResume \/ \E e \in 0..MaxReview : Delegate(e)
  BY DEF ControlChanges
<1>2. ControlInv'
  BY <1>1, TransitionInv DEF HttpInv
<1>3. UNCHANGED <<tickets, records, active, finalized>>
  BY <1>1 DEF Takeover, PrepareResume, startReview, Delegate
<1>4. mode' \in Modes
  BY DEF ControlChanges, HttpInv, HttpTypeOK
<1>5. OverIsStopped' /\ session' \in {"open", "removed", "closed"}
  BY DEF ControlChanges, OverIsStopped
<1> QED
  BY <1>2, <1>3, <1>4, <1>5, OwnershipMoves DEF ControlChanges

\* The session leaves the authority.
LEMMA StopsInv ==
  ASSUME HttpInv, session' = "removed", controlled' = controlled,
         IF controlled THEN Stop ELSE UNCHANGED controlVars
  PROVE  /\ ControlInv' /\ OverIsStopped'
         /\ UNCHANGED <<tickets, records, active, finalized>>
<1>1. CASE controlled
  BY <1>1, TransitionInv DEF HttpInv, Stop, OverIsStopped
<1>2. CASE ~controlled
  <2>1. UNCHANGED controlVars
    BY <1>2
  <2>2. ControlInv'
    BY <2>1, NextInv DEF HttpInv
  <2> QED
    BY <1>2, <2>1, <2>2 DEF OverIsStopped, controlVars
<1> QED
  BY <1>1, <1>2

LEMMA EndsInv ==
  ASSUME HttpInv, Ends
  PROVE  HttpInv'
<1>1. mode' \in Modes
  BY DEF Ends, HttpInv, HttpTypeOK
<1> QED
  BY <1>1, StopsInv, OwnershipMoves DEF Ends

LEMMA DeletesInv ==
  ASSUME HttpInv, NEW c \in Calls, Deletes(c)
  PROVE  HttpInv'
<1>1. PICK j, yes : j = calls[c] /\ yes = TRUE
  OBVIOUS
<1>2. j \in CallType /\ CallOK(j) /\ j.pc = "admitted" /\ yes \in BOOLEAN
  BY <1>1 DEF HttpInv, HttpTypeOK, Deletes, At
<1>3. PICK k : k = [j EXCEPT !.pc = "closing", !.worked = yes]
  OBVIOUS
<1>4. k \in CallType
  BY <1>2, <1>3 DEF CallType
<1>5. /\ k.pc = "closing" /\ k.route = j.route /\ k.op = j.op /\ k.ticket = j.ticket
      /\ k.heard = j.heard
  BY <1>2, <1>3 DEF CallType
<1>6. calls' = [calls EXCEPT ![c] = k]
  BY <1>1, <1>3 DEF Deletes, HttpInv, HttpTypeOK
<1>7. ~Governed(j)
  <2>1. j.route \in RouteTable
    BY <1>2 DEF CallOK, Asked
  <2> QED
    BY <1>1, <2>1, RouteFacts DEF Registered, Governed, Deletes
<1>8. ControlInv' /\ OverIsStopped' /\ UNCHANGED <<tickets, records, active, finalized>>
  BY StopsInv DEF Deletes
<1>9. RecordsKept /\ \A u : Spares(u)
  BY <1>8, TransitionSpares DEF RecordsKept
<1>10. CallOK(k)
  BY <1>2, <1>5, <1>7 DEF CallOK, Ticketless, Ticketed, HasHeard, Asked, Governed
<1>11. CallOK(k)'
  BY <1>4, <1>9, <1>10, CallHeld DEF Deletes
<1> QED
  BY <1>1, <1>4, <1>5, <1>6, <1>8, <1>9, <1>11, CallMoves DEF Deletes

\* The engine is closed: whoever waits for it hears so.
LEMMA ClosesInv ==
  ASSUME HttpInv, Closes
  PROVE  HttpInv'
<1>1. UNCHANGED <<controlVars, controlled, mode>> /\ session' = "closed" /\ session = "removed"
  BY DEF Closes
<1>2. ControlInv'
  BY <1>1, NextInv DEF HttpInv
<1>3. RecordsKept /\ \A u : Spares(u)
  BY <1>1 DEF RecordsKept, Spares, controlVars
<1>4. OverIsStopped'
  BY <1>1 DEF HttpInv, OverIsStopped, controlVars
<1>5. ASSUME NEW d \in Calls
      PROVE  \E k \in CallType :
               /\ calls'[d] = k /\ k.ticket = calls[d].ticket /\ k.op = calls[d].op
               /\ CallOK(k)
  <2>1. PICK j : j = calls[d]
    OBVIOUS
  <2>2. j \in CallType /\ CallOK(j)
    BY <2>1 DEF HttpInv, HttpTypeOK
  <2>3. CASE j.pc # "closing"
    BY <2>1, <2>2, <2>3 DEF Closes, At
  <2>4. CASE j.pc = "closing"
    <3>1. PICK h : h = IF j.connected THEN "ok" ELSE j.heard
      OBVIOUS
    <3>2. h \in {"none", "uncertain", "ok"}
      BY <2>2, <2>4, <3>1 DEF CallOK, HasHeard
    <3>3. calls'[d] = Over(j, h)
      BY <2>1, <2>4, <3>1 DEF Closes, At, Hears, HttpInv, HttpTypeOK
    <3>4. PICK k : k = Over(j, h)
      OBVIOUS
    <3>5. /\ k \in CallType
          /\ k.pc = "over" /\ k.heard = h /\ k.route = j.route /\ k.op = j.op
          /\ k.ticket = j.ticket
      BY <2>2, <3>2, <3>4, OverFields
    <3>6. CallOK(k)
      BY <2>2, <2>4, <3>2, <3>5 DEF CallOK, Ticketless, Ticketed, HasHeard, Asked, Governed
    <3> QED
      BY <2>1, <3>3, <3>4, <3>5, <3>6
  <2> QED
    BY <2>3, <2>4
<1>6. calls' \in [Calls -> CallType]
  <2>1. DOMAIN calls' = Calls /\ calls' = [d \in Calls |-> calls'[d]]
    BY DEF Closes
  <2> QED
    BY <1>5, <2>1
<1>7. (\A d \in Calls : CallOK(calls[d]))'
  <2>1. ASSUME NEW d \in Calls
        PROVE  CallOK(calls[d])'
    <3>1. PICK k \in CallType : calls'[d] = k /\ CallOK(k)
      BY <1>5
    <3>2. CallOK(k)'
      BY <1>1, <1>3, <3>1, CallHeld
    <3> QED
      BY <3>1, <3>2
  <2> QED
    BY <2>1
<1>8. TicketsAreCalls'
  BY <1>3, <1>5, TicketsKept
<1> QED
  BY <1>1, <1>2, <1>4, <1>6, <1>7, <1>8 DEF HttpInv, HttpTypeOK

-----------------------------------------------------------------------------
(* The invariant and what callers may rely on.                             *)

LEMMA HttpInitInv == Init => HttpInv
<1> SUFFICES ASSUME Init PROVE HttpInv
  OBVIOUS
<1>1. ControlInv
  BY InitInv DEF Init
<1>2. HttpTypeOK
  BY NoCallFields DEF Init, HttpTypeOK
<1>3. ASSUME NEW c \in Calls
      PROVE  CallOK(calls[c])
  <2>1. PICK k : k = NoCall
    OBVIOUS
  <2>2. calls[c] = k
    BY <2>1 DEF Init
  <2>3. /\ k.pc = "idle" /\ k.ticket = NoTicket /\ ~k.worked /\ k.heard = "none"
    BY <2>1, NoCallFields
  <2>4. CallOK(k)
    BY <2>3 DEF CallOK, Ticketless, Ticketed, HasHeard, Asked
  <2> QED
    BY <2>2, <2>4
<1>4. TicketsAreCalls
  <2>1. DOMAIN records = {}
    BY DEF Init, ControlInit
  <2>2. \A c \in Calls : calls[c].ticket = NoTicket
    BY NoCallFields DEF Init
  <2> QED
    BY <2>1, <2>2 DEF TicketsAreCalls
<1> QED
  BY <1>1, <1>2, <1>3, <1>4 DEF HttpInv, OverIsStopped, Init

\* A step in which nothing happens.
LEMMA HttpStutters ==
  ASSUME HttpInv, UNCHANGED vars
  PROVE  HttpInv'
<1>1. ControlInv'
  BY NextInv DEF HttpInv, vars
<1> QED
  BY <1>1, OwnershipMoves DEF vars, httpVars, controlVars, HttpInv, HttpTypeOK, OverIsStopped

LEMMA HttpNextInv == HttpInv /\ [Next]_vars => HttpInv'
<1> SUFFICES ASSUME HttpInv, [Next]_vars PROVE HttpInv'
  OBVIOUS
<1>1. CASE Asks(Offered)
  BY <1>1, SendsInv DEF Asks
<1>2. CASE \E c \in Calls : LosesTouch(c) \/ Arrives(c) \/ Replays(c) \/ Denies(c)
  BY <1>2, LosesTouchInv, WaitsInv, DeniesInv
<1>3. CASE \E c \in Calls, t \in Tickets : Begins(c, t) \/ Reviews(c, t)
  BY <1>3, BeginsInv, ReviewsInv
<1>4. CASE \E c \in Calls : Works(c) \/ CollectionFails(c) \/ Abandons(c) \/ Publishes(c) \/ OnSend(c)
  BY <1>4, WorksInv, CollectionFailsInv, AbandonsInv, LeavesInv
<1>5. CASE \E c \in Calls, draft \in {"ok", "failed"} : Drafts(c, draft)
  BY <1>5, DraftsInv
<1>6. CASE \E c \in Calls : Flushed(c) \/ Terminates(c) \/ Ended(c) \/ Deletes(c)
  BY <1>6, PublishedInv, EndedInv, DeletesInv
<1>7. CASE \E c \in Calls, answer \in {"ok", "failed"} : Uncontrolled(c, answer)
  BY <1>7, UncontrolledInv
<1>8. CASE Ends \/ Closes \/ ControlChanges
  BY <1>8, EndsInv, ClosesInv, ControlChangesInv
<1>9. CASE UNCHANGED vars
  BY <1>9, HttpStutters
<1> QED
  BY <1>1, <1>2, <1>3, <1>4, <1>5, <1>6, <1>7, <1>8, <1>9 DEF Next, Serves

\* The inductive invariant of the session behind the server (server.ts `on` and onTransport,
\* http-publication.ts): whose ticket is whose, what its record says when its call is where it
\* is, and that a session that is over is stopped.
THEOREM HttpInvariant == Spec => []HttpInv
<1>1. Init => HttpInv
  BY HttpInitInv
<1>2. HttpInv /\ [Next]_vars => HttpInv'
  BY HttpNextInv
<1> QED
  BY <1>1, <1>2, PTL DEF Spec

LEMMA HeardIs == HttpInv => HeardIsTrue
<1> SUFFICES ASSUME HttpInv, NEW c \in Calls, controlled, Governed(calls[c])
             PROVE  /\ calls[c].heard = "denied" => ~calls[c].worked
                    /\ calls[c].heard = "recorded" =>
                         /\ ~calls[c].worked
                         /\ calls[c].op \in DOMAIN records
                         /\ \E d \in Calls \ {c} : /\ calls[d].op = calls[c].op
                                                   /\ calls[d].ticket = records[calls[c].op].ticket
                    /\ calls[c].heard = "ok" /\ Mutation(calls[c].route) =>
                         /\ calls[c].op \in DOMAIN records
                         /\ records[calls[c].op].ticket = calls[c].ticket
                         /\ records[calls[c].op].record = Fact("completed", calls[c].worked)
  BY DEF HeardIsTrue
<1>1. CallOK(calls[c])
  BY DEF HttpInv
<1>2. calls[c].heard = "denied" => ~calls[c].worked
  BY <1>1 DEF CallOK, HasHeard
<1>3. ASSUME calls[c].heard = "recorded"
      PROVE  /\ ~calls[c].worked
             /\ calls[c].op \in DOMAIN records
             /\ \E d \in Calls \ {c} : /\ calls[d].op = calls[c].op
                                       /\ calls[d].ticket = records[calls[c].op].ticket
  <2>1. ~calls[c].worked /\ calls[c].ticket = NoTicket /\ calls[c].op \in DOMAIN records
    BY <1>1, <1>3 DEF CallOK, HasHeard
  <2>2. PICK d \in Calls : /\ calls[d].ticket = records[calls[c].op].ticket
                           /\ calls[d].op = calls[c].op
    BY <2>1 DEF HttpInv, TicketsAreCalls
  <2>3. records[calls[c].op].ticket # NoTicket
    BY <2>1, ControlAssumption DEF HttpInv, ControlInv, ControlTypeOK, StoredOperation
  <2> QED
    BY <2>1, <2>2, <2>3
<1>4. ASSUME calls[c].heard = "ok", Mutation(calls[c].route)
      PROVE  /\ calls[c].op \in DOMAIN records
             /\ records[calls[c].op].ticket = calls[c].ticket
             /\ records[calls[c].op].record = Fact("completed", calls[c].worked)
  <2>1. calls[c].ticket # NoTicket /\ records[calls[c].op].record.status = "completed"
    BY <1>1, <1>4 DEF CallOK, HasHeard, Recorded
  <2>2. /\ calls[c].op \in DOMAIN records
        /\ records[calls[c].op].ticket = calls[c].ticket
    BY <1>4, <2>1, OwnOperation
  <2>3. records[calls[c].op].record.dispatched = tickets[calls[c].ticket].didDispatch
    BY <2>2 DEF HttpInv, ControlInv, IdentitySpentOnce
  <2>4. calls[c].worked = tickets[calls[c].ticket].didDispatch
    BY <1>1, <1>4, <2>1 DEF CallOK, Ticketed
  <2>5. PICK r : r = records[calls[c].op].record
    OBVIOUS
  <2>6. r \in Facts /\ r.status = "completed" /\ r.dispatched = calls[c].worked
    BY <2>1, <2>2, <2>3, <2>4, <2>5
       DEF HttpInv, ControlInv, ControlTypeOK, StoredOperation
  <2>7. r = Fact("completed", calls[c].worked)
    BY <2>6 DEF Facts, Fact
  <2> QED
    BY <2>2, <2>5, <2>7
<1> QED
  BY <1>2, <1>3, <1>4

LEMMA OnceIs == HttpInv => OncePerIdentity
<1> SUFFICES ASSUME HttpInv, controlled, NEW c \in Calls, NEW d \in Calls,
                    calls[c].worked, calls[d].worked,
                    Governed(calls[c]), Governed(calls[d]),
                    Mutation(calls[c].route), Mutation(calls[d].route),
                    calls[c].op = calls[d].op
             PROVE  c = d
  BY DEF OncePerIdentity
<1>1. calls[c].ticket # NoTicket /\ calls[d].ticket # NoTicket
  BY DEF HttpInv, CallOK, HasHeard
<1>2. /\ calls[c].ticket = records[calls[c].op].ticket
      /\ calls[d].ticket = records[calls[d].op].ticket
  BY <1>1, OwnOperation
<1> QED
  BY <1>1, <1>2 DEF HttpInv, TicketsAreCalls

\* A call that collects a review is in it, unless the session is to pause or has stopped.
InReview(c) ==
  Collects(calls[c]) /\ calls[c].ticket # NoTicket /\ calls[c].pc \in Governing =>
    state \in {"RESUME_REVIEW", "PAUSE_REQUESTED", "STOPPED"}

ReviewInv == HttpInv /\ \A c \in Calls : InReview(c)

\* While a ticket is out, control only pauses or stops.
LEMMA StateHeld ==
  ASSUME HttpInv, [Next]_vars, active # NoTicket, active' # NoTicket
  PROVE  state' \in {state, "PAUSE_REQUESTED", "STOPPED"}
<1>1. CASE Takeover \/ Stop \/ UNCHANGED controlVars
  BY <1>1 DEF Takeover, Stop, controlVars
<1>2. CASE \E t, s : Finalize(t, s) \/ Finish(t, s)
  BY <1>2 DEF Finalize, Finish
<1>3. CASE \E t : Dispatched(t)
  BY <1>3 DEF Dispatched
<1>4. ~PrepareResume /\ ~startReview /\ \A e : ~Delegate(e)
  BY DEF PrepareResume, startReview, Delegate
<1>5. \A t, actor, e, op, fp, ack : ~Begin(t, actor, e, op, fp, ack)
  BY DEF Begin
<1>6. ASSUME NEW c \in Calls
      PROVE  /\ LosesTouch(c) \/ Arrives(c) \/ Replays(c) \/ Denies(c) \/ Publishes(c) \/ OnSend(c)
                  \/ Ended(c) \/ (\E a : Uncontrolled(c, a)) \/ (\E r, a, o : Sends(c, r, a, o))
                => UNCHANGED controlVars
             /\ Works(c) => UNCHANGED controlVars \/ \E t : Dispatched(t)
             /\ (\E d : Drafts(c, d)) \/ Abandons(c) => \E t, s : Finalize(t, s) \/ Finish(t, s)
             /\ Flushed(c) \/ Terminates(c)
                => UNCHANGED controlVars \/ \E t, s : Finalize(t, s) \/ Finish(t, s)
             /\ CollectionFails(c) => Takeover
             /\ Deletes(c) => Stop \/ UNCHANGED controlVars
             /\ \A t \in Tickets : ~Begins(c, t) /\ ~Reviews(c, t)
  <2>1. LosesTouch(c) \/ Arrives(c) \/ Replays(c) \/ Denies(c) \/ Publishes(c) \/ OnSend(c)
          \/ Ended(c) \/ (\E a : Uncontrolled(c, a)) \/ (\E r, a, o : Sends(c, r, a, o))
        => UNCHANGED controlVars
    BY DEF LosesTouch, Arrives, Replays, Denies, Publishes, OnSend, Ended, Uncontrolled, Sends
  <2>2. Works(c) => UNCHANGED controlVars \/ \E t : Dispatched(t)
    BY DEF Works
  <2>3. (\E d : Drafts(c, d)) \/ Abandons(c) => \E t, s : Finalize(t, s) \/ Finish(t, s)
    BY DEF Drafts, Abandons
  <2>4. Flushed(c) \/ Terminates(c)
        => UNCHANGED controlVars \/ \E t, s : Finalize(t, s) \/ Finish(t, s)
    BY DEF Flushed, Terminates, Releases
  <2>5. (CollectionFails(c) => Takeover) /\ (Deletes(c) => Stop \/ UNCHANGED controlVars)
    BY DEF CollectionFails, Deletes
  <2>6. \A t \in Tickets : ~Begins(c, t) /\ ~Reviews(c, t)
    BY <1>4, <1>5 DEF Begins, Reviews
  <2> QED
    BY <2>1, <2>2, <2>3, <2>4, <2>5, <2>6
<1>7. CASE Ends \/ Closes \/ ControlChanges \/ UNCHANGED vars
  BY <1>1, <1>4, <1>7 DEF Ends, Closes, ControlChanges, vars
<1>8. CASE Asks(Offered)
  BY <1>1, <1>6, <1>8 DEF Asks
<1> QED
  BY <1>1, <1>2, <1>3, <1>6, <1>7, <1>8 DEF Next, Serves

\* Of a call that is over, and of one that was just sent.
LEMMA NotHeld ==
  /\ \A call, h : Over(call, h).pc = "over"
  /\ \A call, h, w : [Over(call, h) EXCEPT !.worked = w].pc = "over"
  /\ \A r, a, o, e, m, y :
       [NoCall EXCEPT !.pc = "sent", !.route = r, !.actor = a, !.op = o, !.epoch = e,
                      !.mode = m, !.connected = y].pc = "sent"
<1>1. PICK n : n = NoCall
  OBVIOUS
<1>2. n \in CallType
  BY <1>1, NoCallFields
<1>3. ASSUME NEW call, NEW h, NEW w
      PROVE  Over(call, h).pc = "over" /\ [Over(call, h) EXCEPT !.worked = w].pc = "over"
  <2>1. PICK is : is = [n EXCEPT !.pc = "over", !.route = call.route, !.actor = call.actor,
                                !.op = call.op, !.ticket = call.ticket,
                                !.worked = call.worked, !.heard = h]
    OBVIOUS
  <2>2. is = Over(call, h)
    BY <1>1, <2>1 DEF Over
  <2>3. is.pc = "over" /\ [is EXCEPT !.worked = w].pc = "over"
    BY <1>2, <2>1 DEF CallType
  <2> QED
    BY <2>2, <2>3
<1>4. ASSUME NEW r, NEW a, NEW o, NEW e, NEW m, NEW y
      PROVE  [NoCall EXCEPT !.pc = "sent", !.route = r, !.actor = a, !.op = o, !.epoch = e,
                            !.mode = m, !.connected = y].pc = "sent"
  <2>1. [n EXCEPT !.pc = "sent", !.route = r, !.actor = a, !.op = o, !.epoch = e,
                  !.mode = m, !.connected = y].pc = "sent"
    BY <1>2 DEF CallType
  <2> QED
    BY <1>1, <2>1
<1> QED
  BY <1>3, <1>4

\* A call comes to hold the control by its begin only.
LEMMA HeldBefore ==
  ASSUME HttpInv, [Next]_vars, NEW c \in Calls,
         calls'[c].ticket # NoTicket, calls'[c].pc \in Governing
  PROVE  \/ \E t \in Tickets : Begins(c, t) \/ Reviews(c, t)
         \/ /\ calls[c].ticket = calls'[c].ticket /\ calls[c].pc \in Governing
            /\ calls[c].route = calls'[c].route
<1> DEFINE Held == /\ calls[c].ticket = calls'[c].ticket /\ calls[c].pc \in Governing
                   /\ calls[c].route = calls'[c].route
<1>1. PICK j : j = calls[c]
  OBVIOUS
<1>2. calls \in [Calls -> CallType] /\ j \in CallType /\ CallOK(j)
  BY <1>1 DEF HttpInv, HttpTypeOK
<1>3. CASE calls'[c] = calls[c]
  BY <1>3
<1>4. \A d \in Calls \ {c} : \A k : calls' = [calls EXCEPT ![d] = k] => calls'[c] = calls[c]
  BY <1>2
<1>5. calls'[c].pc \notin {"over", "sent", "admitted", "replaying", "closing"}
  BY DEF Governing
<1>6. \A h : calls' # Hears(c, h)
  BY <1>2, <1>5, NotHeld DEF Hears
<1>7. \A d \in Calls \ {c} : \A h : calls' = Hears(d, h) => calls'[c] = calls[c]
  BY <1>2 DEF Hears
<1>8. CASE Asks(Offered)
  <2>1. PICK d \in Calls, r \in RouteTable, a \in Callers, o \in OpIds \cup {NoOp} :
           Sends(d, r, a, o)
    BY <1>8 DEF Asks
  <2>2. d # c
    BY <1>2, <1>5, <2>1, NotHeld DEF Sends
  <2> QED
    BY <1>3, <1>4, <2>1, <2>2 DEF Sends
<1>9. CASE \E d \in Calls : LosesTouch(d)
  <2>1. PICK d \in Calls : LosesTouch(d)
    BY <1>9
  <2>2. CASE d = c
    <3>1. PICK no : no = FALSE
      OBVIOUS
    <3>2. calls'[c] = [j EXCEPT !.connected = no, !.heard = "uncertain"]
      BY <1>1, <1>2, <2>1, <2>2, <3>1 DEF LosesTouch
    <3> QED
      BY <1>1, <1>2, <3>2 DEF CallType
  <2> QED
    BY <1>2, <1>3, <2>1, <2>2 DEF LosesTouch
<1>10. CASE \E d \in Calls : Arrives(d) \/ Replays(d) \/ Denies(d)
  <2>1. PICK d \in Calls : Arrives(d) \/ Replays(d) \/ Denies(d)
    BY <1>10
  <2>2. CASE d = c
    <3>1. calls' # To(c, "admitted")
      <4>1. [j EXCEPT !.pc = "admitted"].pc = "admitted"
        BY <1>2 DEF CallType
      <4> QED
        BY <1>1, <1>2, <1>5, <4>1 DEF To
    <3>2. calls' # [calls EXCEPT ![c].pc = "replaying", ![c].since = review]
      <4>1. [j EXCEPT !.pc = "replaying", !.since = review].pc = "replaying"
        BY <1>2 DEF CallType
      <4> QED
        BY <1>1, <1>2, <1>5, <4>1
    <3> QED
      BY <1>6, <2>1, <2>2, <3>1, <3>2 DEF Arrives, Replays, Denies
  <2>3. CASE d # c
    BY <1>2, <1>3, <1>7, <2>1, <2>3 DEF Arrives, Replays, Denies, To
  <2> QED
    BY <2>2, <2>3
<1>11. CASE \E d \in Calls, t \in Tickets : Begins(d, t) \/ Reviews(d, t)
  <2>1. PICK d \in Calls, t \in Tickets : Begins(d, t) \/ Reviews(d, t)
    BY <1>11
  <2>2. CASE d = c
    BY <2>1, <2>2
  <2>3. CASE d # c
    BY <1>2, <1>3, <2>1, <2>3 DEF Begins, Reviews
  <2> QED
    BY <2>2, <2>3
<1>12. CASE \E d \in Calls : Works(d) \/ CollectionFails(d) \/ \E draft : Drafts(d, draft)
  <2>1. PICK d \in Calls : Works(d) \/ CollectionFails(d) \/ \E draft : Drafts(d, draft)
    BY <1>12
  <2>2. CASE d = c
    <3>1. j.pc = "working"
      BY <1>1, <2>1, <2>2 DEF Works, CollectionFails, Drafts, At
    <3>2. PICK yes : yes = TRUE
      OBVIOUS
    <3>3. \/ calls'[c] = [j EXCEPT !.worked = yes]
          \/ calls'[c] = [j EXCEPT !.draft = "failed"]
          \/ \E draft : calls'[c] = [j EXCEPT !.pc = "publishing", !.draft = draft]
      BY <1>1, <1>2, <2>1, <2>2, <3>2 DEF Works, CollectionFails, Drafts
    <3>4. calls'[c].route = j.route /\ calls'[c].ticket = j.ticket
      BY <1>2, <3>3 DEF CallType
    <3> QED
      BY <1>1, <3>1, <3>4 DEF Governing
  <2>3. CASE d # c
    BY <1>2, <1>3, <2>1, <2>3 DEF Works, CollectionFails, Drafts
  <2> QED
    BY <2>2, <2>3
<1>13. CASE \E d \in Calls : Publishes(d) \/ OnSend(d)
  <2>1. PICK d \in Calls : Publishes(d) \/ OnSend(d)
    BY <1>13
  <2>2. CASE d = c
    <3>1. \/ calls'[c] = [j EXCEPT !.pc = "flushing"]
          \/ \E draft : calls'[c] = [j EXCEPT !.pc = "sending", !.draft = draft]
      <4>1. CASE Publishes(c)
        <5>1. PICK draft : draft = IF j.ticket = NoTicket THEN "recorded" ELSE j.draft
          OBVIOUS
        <5>2. calls'[c] = [j EXCEPT !.pc = "sending", !.draft = draft]
          BY <1>1, <1>2, <4>1, <5>1 DEF Publishes
        <5> QED
          BY <5>2
      <4>2. CASE OnSend(c)
        BY <1>1, <1>2, <4>2 DEF OnSend, To
      <4> QED
        BY <2>1, <2>2, <4>1, <4>2
    <3>2. calls'[c].route = j.route /\ calls'[c].ticket = j.ticket
      BY <1>2, <3>1 DEF CallType
    <3>3. j.pc \in {"publishing", "replaying", "sending"}
      BY <1>1, <2>1, <2>2 DEF Publishes, OnSend, At
    <3>4. j.pc # "replaying"
      BY <1>2, <3>2 DEF CallOK, Ticketless
    <3> QED
      BY <1>1, <3>2, <3>3, <3>4 DEF Governing
  <2>3. CASE d # c
    BY <1>2, <1>3, <2>1, <2>3 DEF Publishes, OnSend, To
  <2> QED
    BY <2>2, <2>3
<1>14. CASE \E d \in Calls : Abandons(d) \/ Flushed(d) \/ Terminates(d)
  <2>1. PICK d \in Calls : Abandons(d) \/ Flushed(d) \/ Terminates(d)
    BY <1>14
  <2>2. d # c
    BY <1>2, <1>5, <1>6, <2>1, NotHeld DEF Abandons, Flushed, Terminates, Cut
  <2> QED
    BY <1>2, <1>3, <1>7, <2>1, <2>2 DEF Abandons, Flushed, Terminates, Cut
<1>15. CASE \E d \in Calls : Ended(d) \/ \E a : Uncontrolled(d, a)
  <2>1. PICK d \in Calls : Ended(d) \/ \E a : Uncontrolled(d, a)
    BY <1>15
  <2>2. PICK h, w : calls' = Hears(d, h) \/ calls' = [Hears(d, h) EXCEPT ![d].worked = w]
    BY <2>1 DEF Ended, Uncontrolled
  <2>3. d # c
    BY <1>2, <1>5, <1>6, <2>2, NotHeld DEF Hears
  <2> QED
    BY <1>2, <1>3, <2>2, <2>3 DEF Hears
<1>16. CASE \E d \in Calls : Deletes(d)
  <2>1. PICK d \in Calls : Deletes(d)
    BY <1>16
  <2>2. PICK yes : yes = TRUE
    OBVIOUS
  <2>3. [j EXCEPT !.pc = "closing", !.worked = yes].pc = "closing"
    BY <1>2 DEF CallType
  <2>4. d # c
    BY <1>1, <1>2, <1>5, <2>1, <2>2, <2>3 DEF Deletes
  <2> QED
    BY <1>2, <1>3, <2>1, <2>4 DEF Deletes
<1>17. CASE Ends \/ Closes \/ ControlChanges \/ UNCHANGED vars
  <2>1. CASE Closes
    BY <1>2, <1>3, <1>5, <2>1, NotHeld DEF Closes, Hears
  <2> QED
    BY <1>3, <1>17, <2>1 DEF Ends, ControlChanges, vars, httpVars
<1> QED
  BY <1>8, <1>9, <1>10, <1>11, <1>12, <1>13, <1>14, <1>15, <1>16, <1>17 DEF Next, Serves

LEMMA ReviewNextInv == ReviewInv /\ [Next]_vars => ReviewInv'
<1> SUFFICES ASSUME ReviewInv, [Next]_vars PROVE ReviewInv'
  OBVIOUS
<1>1. HttpInv /\ HttpInv'
  BY HttpNextInv DEF ReviewInv
<1>2. ASSUME NEW c \in Calls, Collects(calls'[c]), calls'[c].ticket # NoTicket,
             calls'[c].pc \in Governing
      PROVE  state' \in {"RESUME_REVIEW", "PAUSE_REQUESTED", "STOPPED"}
  <2>1. active' # NoTicket
    BY <1>1, <1>2 DEF HttpInv, CallOK, Ticketed
  <2>2. CASE \E t \in Tickets : Reviews(c, t)
    BY <2>2 DEF Reviews, startReview
  <2>3. CASE \E t \in Tickets : Begins(c, t)
    <3>1. Governed(calls[c]) /\ At(c, "admitted")
      BY <2>3 DEF Begins, Reached
    <3>2. calls[c].route \in RouteTable /\ calls[c] \in CallType
      BY <1>1, <3>1 DEF HttpInv, HttpTypeOK, CallOK, Asked, At
    <3>3. calls'[c].route = calls[c].route
      <4>1. PICK t : calls' = [calls EXCEPT ![c].pc = "working", ![c].ticket = t]
        BY <2>3 DEF Begins
      <4>2. PICK j : j = calls[c]
        OBVIOUS
      <4>3. PICK k : k = [j EXCEPT !.pc = "working", !.ticket = t]
        OBVIOUS
      <4>4. k.route = j.route
        BY <3>2, <4>2, <4>3 DEF CallType
      <4>5. calls'[c] = k
        BY <1>1, <4>1, <4>2, <4>3 DEF HttpInv, HttpTypeOK
      <4> QED
        BY <4>2, <4>4, <4>5
    <3> QED
      BY <1>2, <3>1, <3>2, <3>3, RouteFacts DEF Registered, Governed, Collects
  <2>4. CASE /\ calls[c].ticket = calls'[c].ticket /\ calls[c].pc \in Governing
             /\ calls[c].route = calls'[c].route
    <3>1. state \in {"RESUME_REVIEW", "PAUSE_REQUESTED", "STOPPED"}
      BY <1>2, <2>4 DEF ReviewInv, InReview, Collects
    <3>2. active # NoTicket
      BY <1>1, <1>2, <2>4 DEF HttpInv, CallOK, Ticketed
    <3> QED
      BY <1>1, <2>1, <3>1, <3>2, StateHeld
  <2> QED
    BY <1>1, <1>2, <2>2, <2>3, <2>4, HeldBefore
<1> QED
  BY <1>1, <1>2 DEF ReviewInv, InReview

LEMMA ReviewsStand == Spec => []ReviewInv
<1>1. Init => ReviewInv
  BY HttpInitInv, NoCallFields DEF Init, ReviewInv, InReview
<1>2. ReviewInv /\ [Next]_vars => ReviewInv'
  BY ReviewNextInv
<1> QED
  BY <1>1, <1>2, PTL DEF Spec

\* A publication's last look, and then its bytes.
LEMMA PublishedIs ==
  ASSUME ReviewInv, [Next]_vars, NEW c \in Calls, At(c, "sending"), calls'[c].pc = "flushing"
  PROVE  /\ session = "open"
         /\ calls[c].actor = "agent" => authorizeAgent(calls[c].epoch)
         /\ calls[c].ticket # NoTicket => active = calls[c].ticket
         /\ Collects(calls[c]) => state = "RESUME_REVIEW"
<1> USE DEF ReviewInv
<1>1. calls \in [Calls -> CallType] /\ calls[c].pc = "sending" /\ calls'[c] # calls[c]
  BY DEF HttpInv, HttpTypeOK, At
<1>2. ASSUME NEW d \in Calls \ {c}
      PROVE  /\ ~(LosesTouch(d) \/ Arrives(d) \/ Replays(d) \/ Denies(d))
             /\ \A t \in Tickets : ~Begins(d, t) /\ ~Reviews(d, t)
             /\ ~(Works(d) \/ CollectionFails(d) \/ Abandons(d) \/ Publishes(d) \/ OnSend(d))
             /\ \A draft \in {"ok", "failed"} : ~Drafts(d, draft) /\ ~Uncontrolled(d, draft)
             /\ ~(Flushed(d) \/ Terminates(d) \/ Ended(d) \/ Deletes(d))
             /\ \A route, actor, op : ~Sends(d, route, actor, op)
  <2>1. \A k : calls' # [calls EXCEPT ![d] = k]
    BY <1>1
  <2>2. ~(LosesTouch(d) \/ Arrives(d) \/ Replays(d) \/ Denies(d))
    BY <1>1, <2>1 DEF LosesTouch, Arrives, Replays, Denies, To, Hears
  <2>3. \A t \in Tickets : ~Begins(d, t) /\ ~Reviews(d, t)
    BY <1>1 DEF Begins, Reviews
  <2>4. ~(Works(d) \/ CollectionFails(d) \/ Abandons(d) \/ Publishes(d) \/ OnSend(d))
    BY <1>1, <2>1 DEF Works, CollectionFails, Abandons, Publishes, OnSend, To, Hears
  <2>5. \A draft \in {"ok", "failed"} : ~Drafts(d, draft) /\ ~Uncontrolled(d, draft)
    BY <1>1, <2>1 DEF Drafts, Uncontrolled, Hears
  <2>6. ~(Flushed(d) \/ Terminates(d) \/ Ended(d) \/ Deletes(d))
    BY <1>1, <2>1 DEF Flushed, Terminates, Ended, Deletes, Hears, Cut
  <2>7. \A route, actor, op : ~Sends(d, route, actor, op)
    BY <1>1, <2>1 DEF Sends
  <2> QED
    BY <2>2, <2>3, <2>4, <2>5, <2>6, <2>7
<1>3. /\ ~(Arrives(c) \/ Replays(c) \/ Denies(c) \/ Works(c) \/ Abandons(c) \/ Publishes(c))
      /\ ~CollectionFails(c)
      /\ \A t \in Tickets : ~Begins(c, t) /\ ~Reviews(c, t)
      /\ \A draft \in {"ok", "failed"} : ~Drafts(c, draft) /\ ~Uncontrolled(c, draft)
      /\ ~(Flushed(c) \/ Ended(c) \/ Deletes(c) \/ At(c, "idle"))
  BY <1>1 DEF Arrives, Replays, Denies, Works, CollectionFails, Abandons, Publishes, Begins,
              Reviews, Drafts, Uncontrolled, Flushed, Ended, Deletes, Reached, At
<1>4. ~LosesTouch(c)
  <2>1. PICK j, no : j = calls[c] /\ no = FALSE
    OBVIOUS
  <2>2. PICK k : k = [j EXCEPT !.connected = no, !.heard = "uncertain"]
    OBVIOUS
  <2>3. k.pc = "sending"
    BY <1>1, <2>1, <2>2 DEF CallType
  <2> QED
    BY <1>1, <2>1, <2>2, <2>3 DEF LosesTouch
<1>5. ~Terminates(c)
  <2>1. Over(calls[c], "uncertain").pc = "over"
    BY <1>1, OverFields
  <2> QED
    BY <1>1, <2>1 DEF Terminates, Cut
<1>6. ~(Ends \/ Closes \/ ControlChanges \/ UNCHANGED vars)
  <2>1. ~Closes
    BY <1>1 DEF Closes, At
  <2> QED
    BY <1>1, <2>1 DEF Ends, ControlChanges, vars, httpVars
<1>7. OnSend(c)
  BY <1>2, <1>3, <1>4, <1>5, <1>6 DEF Next, Serves, Asks
<1>8. Current(c) /\ CallOK(calls[c])
  BY <1>7 DEF OnSend, HttpInv
<1>9. CASE calls[c].ticket = NoTicket
  <2>1. ~Collects(calls[c])
    <3>1. /\ calls[c].op \in DOMAIN records /\ calls[c].route \in RouteTable
          /\ calls[c].op # NoOp <=> Names(calls[c].route)
      BY <1>1, <1>8, <1>9 DEF CallOK, Ticketless, Asked
    <3>2. calls[c].op # NoOp
      BY <3>1, ControlAssumption DEF HttpInv, ControlInv, ControlTypeOK
    <3> QED
      BY <3>1, <3>2, RouteFacts DEF Registered, Collects
  <2> QED
    BY <1>8, <1>9, <2>1 DEF Current, Admitted
<1>10. CASE calls[c].ticket # NoTicket
  <2>1. /\ active = calls[c].ticket /\ tickets[calls[c].ticket].epoch = epoch
        /\ state \notin {"STOPPED", "PAUSE_REQUESTED"}
    BY <1>8, <1>10 DEF Current, check
  <2>2. /\ controlled /\ tickets[calls[c].ticket].actor = calls[c].actor
        /\ calls[c].actor = "agent" => tickets[calls[c].ticket].epoch = calls[c].epoch
    BY <1>1, <1>8, <1>10 DEF CallOK, Ticketed, Governing
  <2>3. session = "open"
    BY <2>1, <2>2 DEF HttpInv, OverIsStopped
  <2>4. ASSUME calls[c].actor = "agent"
        PROVE  authorizeAgent(calls[c].epoch)
    BY <1>10, <2>1, <2>2, <2>4 DEF HttpInv, ControlInv, ValidTicketIsOwners, authorizeAgent
  <2>5. Collects(calls[c]) => state = "RESUME_REVIEW"
    BY <1>1, <1>10, <2>1 DEF InReview, Governing
  <2> QED
    BY <2>1, <2>3, <2>4, <2>5
<1> QED
  BY <1>9, <1>10

\* What a caller of a controlled session is told is so, an identity reaches the browser once,
\* and a result is published to the owner it was made for (server.ts, http-publication.ts,
\* and the callers' requestJson), for any calls, tickets, routes offered and bounds.
THEOREM AnswersTrusted == Spec => CallersMayTrustAnswers
<1>1. HttpInv => HeardIsTrue /\ OncePerIdentity
  BY HeardIs, OnceIs
<1>2. ReviewInv /\ [Next]_vars =>
        [\A c \in Calls :
           At(c, "sending") /\ calls'[c].pc = "flushing" =>
             /\ session = "open"
             /\ calls[c].actor = "agent" => authorizeAgent(calls[c].epoch)
             /\ calls[c].ticket # NoTicket => active = calls[c].ticket
             /\ Collects(calls[c]) => state = "RESUME_REVIEW"]_vars
  BY PublishedIs
<1>3. Spec => [](HeardIsTrue /\ OncePerIdentity)
  BY <1>1, HttpInvariant, PTL
<1>4. Spec => PublishedToItsOwner
  BY <1>2, ReviewsStand, PTL DEF Spec, PublishedToItsOwner
<1> QED
  BY <1>3, <1>4 DEF CallersMayTrustAnswers
=============================================================================
