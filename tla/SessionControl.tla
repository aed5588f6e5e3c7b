--------------------------- MODULE SessionControl ---------------------------
(***************************************************************************)
(* One browser session's owner: who may act on it (human, agent, nobody),  *)
(* the single ticket that may be open at a time, and the write identities  *)
(* that have been used (packages/core/src/session-control.ts).             *)
(*                                                                         *)
(* A method that throws changes nothing, so a refused call is no step.     *)
(* A ControlTicket is an object compared by identity, and the caller keeps *)
(* it after release: `tickets` holds every ticket ever issued, and any of  *)
(* them may be presented to any method in any order.  The review version   *)
(* is a fresh UUID on every change: a counter here.                        *)
(***************************************************************************)
EXTENDS Naturals, FiniteSets

CONSTANTS
  Tickets,        \* identities of ticket objects; bounds the number of begins
  NoTicket,       \* `active` is undefined
  OpIds,          \* operation ids a caller may choose
  NoOp,           \* a request without an operation id: a read
  Fingerprints,   \* digests of an operation's arguments
  MaxOperations,  \* the session's operation budget
  MaxReview       \* bound on review versions, and so on epochs

ASSUME ControlAssumption ==
  /\ NoTicket \notin Tickets
  /\ NoOp \notin OpIds
  /\ MaxOperations \in Nat \ {0}
  /\ MaxReview \in Nat
  /\ IsFiniteSet(OpIds)

VARIABLES
  state,      \* ControlState
  epoch,      \* generation of control
  review,     \* version a review was made against
  active,     \* the ticket whose operation is admitted and not yet released
  finalized,  \* the active operation's execution facts are frozen
  records,    \* operation id -> what is known of it; never evicted
  tickets     \* every ticket issued

controlVars == <<state, epoch, review, active, finalized, records, tickets>>

ControlStates ==
  {"HUMAN_ACTIVE", "PAUSE_REQUESTED", "RESUME_REVIEW", "AGENT_ACTIVE", "STOPPED"}
Actors == {"agent", "operator"}
Terminal == {"completed", "failed", "outcome_unknown"}
Statuses == {"in_flight"} \cup Terminal

Fact(status, dispatched) == [status |-> status, dispatched |-> dispatched]
Facts == [status : Statuses, dispatched : BOOLEAN]
NoFact == Fact("none", FALSE)

Ticket == [epoch : Nat, actor : Actors, op : OpIds \cup {NoOp}, didDispatch : BOOLEAN]

StoredOperation ==
  [fingerprint : Fingerprints, actor : Actors, ackRequired : BOOLEAN,
   ticket : Tickets, epoch : Nat, record : Facts,
   acknowledgment : Facts \cup {NoFact}]

-----------------------------------------------------------------------------
(* What the owner answers without changing anything.                       *)

\* The facts a reader of the operation may see: the acknowledged ones when the
\* operation was admitted with acknowledgment, the live ones otherwise.
projectOperation(entry) ==
  IF entry.ackRequired THEN entry.acknowledgment ELSE entry.record

authorizeAgent(e) == state = "AGENT_ACTIVE" /\ e = epoch

\* begin's admission of the actor, before any look at the operation.
AdmitsActor(actor, e) ==
  /\ state # "STOPPED"
  /\ IF actor = "agent" THEN authorizeAgent(e) ELSE state # "AGENT_ACTIVE"

\* Slip: the ticket is still the open one, whoever owns the session now.
checkTicketOnly(t) == active = t

check(t) ==
  /\ active = t
  /\ tickets[t].epoch = epoch
  /\ state \notin {"STOPPED", "PAUSE_REQUESTED"}

-----------------------------------------------------------------------------
(* Transitions of control.                                                 *)

invalidateReview ==
  /\ review < MaxReview
  /\ review' = review + 1

InvalidateReview ==
  /\ invalidateReview
  /\ UNCHANGED <<state, epoch, active, finalized, records, tickets>>

Takeover ==
  /\ state # "STOPPED"
  /\ invalidateReview
  /\ epoch' = IF state \in {"PAUSE_REQUESTED", "HUMAN_ACTIVE"} THEN epoch ELSE epoch + 1
  /\ state' = IF active # NoTicket THEN "PAUSE_REQUESTED" ELSE "HUMAN_ACTIVE"
  /\ UNCHANGED <<active, finalized, records, tickets>>

startReview ==
  /\ active = NoTicket
  /\ state \in {"HUMAN_ACTIVE", "RESUME_REVIEW"}
  /\ invalidateReview
  /\ epoch' = epoch + 1
  /\ state' = "RESUME_REVIEW"

PrepareResume == startReview /\ UNCHANGED <<active, finalized, records, tickets>>

\* Slip: the delegation reuses the epoch of its review.
DelegateKeepsEpoch(reviewEpoch) ==
  /\ active = NoTicket
  /\ state = "RESUME_REVIEW"
  /\ reviewEpoch = epoch
  /\ invalidateReview
  /\ state' = "AGENT_ACTIVE"
  /\ UNCHANGED <<epoch, active, finalized, records, tickets>>

Delegate(reviewEpoch) ==
  /\ active = NoTicket
  /\ state = "RESUME_REVIEW"
  /\ reviewEpoch = epoch
  /\ invalidateReview
  /\ epoch' = epoch + 1
  /\ state' = "AGENT_ACTIVE"
  /\ UNCHANGED <<active, finalized, records, tickets>>

Stop ==
  /\ invalidateReview
  /\ epoch' = epoch + 1
  /\ state' = "STOPPED"
  /\ UNCHANGED <<active, finalized, records, tickets>>

-----------------------------------------------------------------------------
(* The life of one operation.                                              *)

\* A review describes the state before an operator's write, even if its
\* dispatch fails: the write leaves review.
LeavesReview(actor, op) == actor = "operator" /\ op # NoOp /\ state = "RESUME_REVIEW"

\* Slip: an operation that failed may be tried again under its id.
UnspentUnlessFailed(op) == op \in DOMAIN records => records[op].record.status = "failed"

\* A repeated operation id never opens a second ticket: it answers with what is
\* known of the first (projectOperation), or is refused.
Unspent(op) == op \notin DOMAIN records

WithOperation(op, entry) ==
  IF op = NoOp THEN records
  ELSE [o \in DOMAIN records \cup {op} |-> IF o = op THEN entry ELSE records[o]]

\* The ticket of an operation that was admitted, and its record if it is a write.
IssueTicket(t, actor, op, fp, ack) ==
  /\ t \in Tickets \ DOMAIN tickets
  /\ tickets' = [u \in DOMAIN tickets \cup {t} |->
                   IF u = t THEN [epoch |-> epoch', actor |-> actor, op |-> op,
                                  didDispatch |-> FALSE]
                            ELSE tickets[u]]
  /\ records' = WithOperation(op,
       [fingerprint |-> fp, actor |-> actor, ackRequired |-> ack, ticket |-> t,
        epoch |-> epoch', record |-> Fact("in_flight", FALSE), acknowledgment |-> NoFact])
  /\ active' = t
  /\ finalized' = FALSE

Begin(t, actor, e, op, fp, ack) ==
  /\ AdmitsActor(actor, e)
  /\ ack => op # NoOp
  /\ Unspent(op)
  /\ active = NoTicket
  /\ op # NoOp => Cardinality(DOMAIN records) < MaxOperations
  /\ IF LeavesReview(actor, op)
       THEN invalidateReview /\ epoch' = epoch + 1 /\ state' = "HUMAN_ACTIVE"
       ELSE UNCHANGED <<review, epoch, state>>
  /\ IssueTicket(t, actor, op, fp, ack)

\* The order in which one operation's acknowledged facts may advance.
ValidAcknowledgment(previous, next) ==
  CASE previous = NoFact -> next = Fact("in_flight", FALSE)
    [] previous = Fact("in_flight", FALSE) ->
         next \in {Fact("in_flight", TRUE), Fact("failed", FALSE)}
    [] previous = Fact("in_flight", TRUE) ->
         next.status # "in_flight" /\ next.dispatched
    [] OTHER -> FALSE

Acknowledge(t, next) ==
  LET op == tickets[t].op IN
  /\ active = t
  /\ op \in DOMAIN records
  /\ records[op].ticket = t
  /\ records[op].ackRequired
  /\ ValidAcknowledgment(records[op].acknowledgment, next)
  /\ records' = [records EXCEPT ![op].acknowledgment = next]
  /\ UNCHANGED <<state, epoch, review, active, finalized, tickets>>

\* The last step before the effect: the callback runs next, synchronously.
Dispatched(t) ==
  /\ check(t)
  /\ ~finalized
  /\ tickets' = [tickets EXCEPT ![t].didDispatch = TRUE]
  /\ records' = IF tickets[t].op \in DOMAIN records
                  THEN [records EXCEPT ![tickets[t].op].record.dispatched = TRUE]
                  ELSE records
  /\ UNCHANGED <<state, epoch, review, active, finalized>>

\* finalize freezes the first status it is given; a second one is ignored.
FinalizedRecords(t, status) ==
  IF ~finalized /\ tickets[t].op \in DOMAIN records
    THEN [records EXCEPT ![tickets[t].op].record.status = status]
    ELSE records

Finalize(t, status) ==
  /\ active = t
  /\ ~finalized
  /\ records' = FinalizedRecords(t, status)
  /\ finalized' = TRUE
  /\ UNCHANGED <<state, epoch, review, active, tickets>>

\* Slip: the requested pause is not completed.
FinishStaysPaused(t, status) ==
  /\ active = t
  /\ records' = FinalizedRecords(t, status)
  /\ finalized' = TRUE
  /\ active' = NoTicket
  /\ UNCHANGED <<state, epoch, review, tickets>>

Finish(t, status) ==
  /\ active = t
  /\ records' = FinalizedRecords(t, status)
  /\ finalized' = TRUE
  /\ active' = NoTicket
  /\ state' = IF state = "PAUSE_REQUESTED" THEN "HUMAN_ACTIVE" ELSE state
  /\ UNCHANGED <<epoch, review, tickets>>

-----------------------------------------------------------------------------

ControlInit ==
  /\ state = "HUMAN_ACTIVE"
  /\ epoch = 0
  /\ review = 0
  /\ active = NoTicket
  /\ finalized = FALSE
  /\ records = [o \in {} |-> NoFact]
  /\ tickets = [t \in {} |-> NoFact]

ControlNext ==
  \/ InvalidateReview
  \/ Takeover
  \/ PrepareResume
  \/ \E e \in 0..MaxReview : Delegate(e)
  \/ Stop
  \/ \E t \in Tickets, actor \in Actors, e \in 0..MaxReview, op \in OpIds \cup {NoOp},
        fp \in Fingerprints, ack \in BOOLEAN : Begin(t, actor, e, op, fp, ack)
  \/ \E t \in DOMAIN tickets, next \in Facts : Acknowledge(t, next)
  \/ \E t \in DOMAIN tickets : Dispatched(t)
  \/ \E t \in DOMAIN tickets, status \in Terminal : Finalize(t, status)
  \/ \E t \in DOMAIN tickets, status \in Terminal : Finish(t, status)

ControlSpec == ControlInit /\ [][ControlNext]_controlVars

-----------------------------------------------------------------------------
(* Properties.                                                             *)

\* Every variable has its type, and every record names a ticket that was issued.
ControlTypeOK ==
  /\ state \in ControlStates
  /\ epoch \in Nat
  /\ review \in 0..MaxReview
  /\ DOMAIN tickets \subseteq Tickets
  /\ \A t \in DOMAIN tickets : tickets[t] \in Ticket
  /\ active \in DOMAIN tickets \cup {NoTicket}
  /\ finalized \in BOOLEAN
  /\ DOMAIN records \subseteq OpIds
  /\ \A o \in DOMAIN records : records[o] \in StoredOperation

\* An operation is reported in flight exactly while its own ticket is active and
\* not finalized: no status is left behind by a release, and none ends early.
InFlightIsActive ==
  \A o \in DOMAIN records :
    records[o].record.status = "in_flight" <=> active = records[o].ticket /\ ~finalized

\* "No eviction of write identities": an operation id opens one ticket, ever, and
\* the status reported for it tells whether that ticket dispatched.
IdentitySpentOnce ==
  /\ \A t, u \in DOMAIN tickets :
       tickets[t].op # NoOp /\ tickets[t].op = tickets[u].op => t = u
  /\ \A o \in DOMAIN records :
       /\ tickets[records[o].ticket].op = o
       /\ records[o].record.dispatched = tickets[records[o].ticket].didDispatch

\* A requested pause always has the operation it waits for: finish is the only
\* way back to HUMAN_ACTIVE, so a pause with nothing to drain would never end.
PauseHasOwner == state = "PAUSE_REQUESTED" => active # NoTicket

\* check compares epochs only; all the same an agent's ticket dispatches only in
\* AGENT_ACTIVE and an operator's only outside it, whatever happened since begin.
DispatchesOnlyAsOwner ==
  [][\A t \in DOMAIN tickets :
       ~tickets[t].didDispatch /\ tickets'[t].didDispatch =>
         (tickets[t].actor = "agent" <=> state = "AGENT_ACTIVE")]_controlVars

\* An epoch that does not authorize an agent now never will again: a revoked
\* delegation is not revived by any later takeover, review or delegation.
RevocationIsPermanent ==
  [][\A e \in 0..epoch : ~authorizeAgent(e) => ~(authorizeAgent(e)')]_controlVars

\* Published facts are never taken back: a terminal status, a dispatch and a
\* terminal acknowledgment of an operation stay as they are for good.
PublishedFactsStand ==
  [][\A o \in DOMAIN records :
       LET was == records[o]  is == records'[o] IN
       /\ was.record.status \in Terminal => is.record = was.record
       /\ was.record.dispatched => is.record.dispatched
       /\ was.acknowledgment.status \in Terminal => is.acknowledgment = was.acknowledgment
       /\ was.acknowledgment.dispatched => is.acknowledgment.dispatched]_controlVars

\* Tickets and records account for one another: each operation id is one ticket's,
\* and what is reported in flight is what runs.
TicketsAreAccounted == ControlTypeOK /\ InFlightIsActive /\ IdentitySpentOnce

\* Neither a revocation nor a published fact is ever taken back.
NothingIsTakenBack == RevocationIsPermanent /\ PublishedFactsStand
=============================================================================
