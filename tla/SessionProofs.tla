---------------------------- MODULE SessionProofs -----------------------------
(***************************************************************************)
(* What the authority of a session guarantees for every number of          *)
(* registrations, tickets and tracked tasks.                               *)
(*                                                                         *)
(* A registration begins with a control of its own, so the invariant of    *)
(* SessionControl does not carry over: tickets of earlier registrations    *)
(* outlive their records.  AuthorityInv says what stays true instead: who  *)
(* holds the one grant there can be, whose the active ticket is, that a    *)
(* pause waits for it, where its run stands, and that the records of the   *)
(* present registration are those of its own runs.                         *)
(*                                                                         *)
(* The second part is about the allocation behind the session              *)
(* (SessionCoordinator), for any number of ids, allocations and records: an*)
(* id under creation is reserved for one context and maps to none, a live  *)
(* context has no close under way but its owner's, and what a shutdown left*)
(* it waits for or the service refuses.                                    *)
(*                                                                         *)
(* The third is about what the service keeps of its sessions               *)
(* (ServiceSessions): what has been recorded by each stage of a creation   *)
(* and of an end, and which entries are still owed a sweep.  The fourth is *)
(* about the event histories (SessionEvents): a ledger keeps the last of   *)
(* what was written, numbered without a hole, and a cursor covers what its *)
(* reader was given or told to be missing.  The last is about the pages the*)
(* service registers (ServicePages): an adoption at its await has room for *)
(* its popup, and is the only one.                                         *)
(***************************************************************************)
EXTENDS SessionAuthority, SessionCoordinator, ServiceSessions, SessionEvents, ServicePages,
        FiniteSetTheorems, SequenceTheorems, TLAPS

\* Every variable has its type, and runs are the tickets issued.
AuthorityTypeOK ==
  /\ ControlTypeOK
  /\ inc \in Nat
  /\ registered \in BOOLEAN
  /\ agent \in Principal
  /\ issued \subseteq Principal
  /\ IsFiniteSet(issued)
  /\ DOMAIN scopes = DOMAIN tickets
  /\ \A t \in DOMAIN scopes : scopes[t] \in Scope

\* There is at most one grant: the entry's own, of the present epoch, while an agent
\* is in control.  Generations tell issued principals apart.
GrantInv ==
  /\ agent # NoAgent <=> registered /\ state = "AGENT_ACTIVE"
  /\ agent # NoAgent => agent \in issued /\ agent.epoch = epoch /\ agent.inc = inc
  /\ grants = IF agent = NoAgent THEN {} ELSE {agent}
  /\ \A p \in issued : p.generation \in 1..Cardinality(issued)
  /\ \A p, q \in issued : p.generation = q.generation => p = q

\* A session that is not registered was stopped, or never was.
EntryInv == IF registered THEN inc # 0 ELSE state = "STOPPED" \/ (inc = 0 /\ active = NoTicket)

\* The active ticket is no newer than the control; while it is valid it belongs to
\* the owner the state says; its facts are frozen exactly for its publication.
OwnerInv ==
  active # NoTicket =>
    /\ tickets[active].epoch <= epoch
    /\ tickets[active].epoch = epoch /\ state \notin {"STOPPED", "PAUSE_REQUESTED"}
         => (tickets[active].actor = "agent" <=> state = "AGENT_ACTIVE")
    /\ finalized <=> scopes[active].phase = "publishing"

\* Where a run may stand, and that it is active until it is over.
PhaseInv ==
  \A t \in DOMAIN scopes :
    /\ scopes[t].inc \in 1..inc
    /\ scopes[t].open => scopes[t].phase = "running"
    /\ scopes[t].reads + scopes[t].dispatches > 0 => scopes[t].phase \in {"running", "draining"}
    /\ active = t <=> scopes[t].inc = inc /\ scopes[t].phase # "done"

\* What readers are told of a run's operation while it runs and after.
Told(sc) == IF sc.phase \in {"running", "draining"} THEN "in_flight" ELSE sc.status

\* The record of an operation of the present registration is its own run's.
RecordInv ==
  \A t \in DOMAIN scopes :
    scopes[t].inc = inc /\ tickets[t].op # NoOp =>
      /\ tickets[t].op \in DOMAIN records
      /\ records[tickets[t].op].ticket = t
      /\ records[tickets[t].op].record = Fact(Told(scopes[t]), tickets[t].didDispatch)

\* The inductive invariant.
AuthorityInv ==
  /\ AuthorityTypeOK
  /\ GrantInv
  /\ EntryInv
  /\ OwnerInv
  /\ PauseHasOwner
  /\ PhaseInv
  /\ RecordInv

-----------------------------------------------------------------------------
(* The operators.                                                          *)

LEMMA ScopeFields ==
  ASSUME NEW sc \in Scope
  PROVE  /\ sc.inc \in Nat /\ sc.open \in BOOLEAN /\ sc.publishes \in BOOLEAN
         /\ sc.reads \in Nat /\ sc.dispatches \in Nat
         /\ sc.status \in Terminal
         /\ sc.phase \in {"running", "draining", "publishing", "done"}
  BY AuthorityAssumption DEF Scope

LEMMA FactFields ==
  ASSUME NEW s, NEW d
  PROVE  Fact(s, d).status = s /\ Fact(s, d).dispatched = d
  BY DEF Fact

\* revoke leaves no grant.
LEMMA RevokeEffect ==
  ASSUME AuthorityInv, revoke
  PROVE  grants' = {} /\ agent' = NoAgent /\ agent' \in Principal
  BY DEF AuthorityInv, GrantInv, revoke, NoAgent, Principal

\* A step of control that leaves runs, tickets and records alone.
Transition ==
  /\ UNCHANGED <<active, finalized, records, tickets, inc, scopes>>
  /\ epoch' \in Nat /\ epoch <= epoch'
  /\ review' \in 0..MaxReview
  /\ state' \in ControlStates
  /\ state' = "PAUSE_REQUESTED" => active # NoTicket
  /\ active # NoTicket => \/ epoch' = epoch /\ state' = state
                          \/ epoch' > epoch
                          \/ state' \in {"STOPPED", "PAUSE_REQUESTED"}

LEMMA TransitionEffect ==
  ASSUME AuthorityInv, UNCHANGED <<inc, scopes>>,
         \/ InvalidateReview \/ Takeover \/ PrepareResume \/ Stop
         \/ \E e \in 0..MaxReview : Delegate(e)
  PROVE  Transition
  BY ControlAssumption
  DEF AuthorityInv, AuthorityTypeOK, ControlTypeOK, Transition, InvalidateReview, Takeover,
      PrepareResume, startReview, Stop, Delegate, invalidateReview, ControlStates, PauseHasOwner

\* It keeps what speaks of the runs.
LEMMA TransitionKeeps ==
  ASSUME AuthorityInv, Transition
  PROVE  ControlTypeOK' /\ OwnerInv' /\ PauseHasOwner' /\ PhaseInv' /\ RecordInv'
<1>1. ControlTypeOK'
  BY DEF AuthorityInv, AuthorityTypeOK, ControlTypeOK, Transition
<1>2. OwnerInv'
  <2>1. active # NoTicket => tickets[active].epoch \in Nat
    BY DEF AuthorityInv, AuthorityTypeOK, ControlTypeOK, Ticket
  <2> QED
    BY <2>1 DEF AuthorityInv, AuthorityTypeOK, ControlTypeOK, OwnerInv, Transition
<1>3. PhaseInv'
  BY DEF AuthorityInv, PhaseInv, Transition
<1>4. RecordInv'
  BY DEF AuthorityInv, RecordInv, Transition, Told
<1>5. PauseHasOwner'
  BY DEF PauseHasOwner, Transition
<1> QED
  BY <1>1, <1>2, <1>3, <1>4, <1>5

-----------------------------------------------------------------------------
(* The registration and its control.                                       *)

\* What a fresh control leaves of the past: nothing that speaks of the present
\* registration.
LEMMA NewEntry ==
  ASSUME AuthorityInv, NewControl, inc' = inc + 1, active' = NoTicket, registered' = TRUE,
         agent' = NoAgent, grants' = {}, UNCHANGED <<tickets, issued, scopes>>
  PROVE  AuthorityInv'
<1>1. AuthorityTypeOK'
  <2>1. ControlTypeOK'
    <3>1. DOMAIN records' = {} /\ 0 \in 0..MaxReview
      BY ControlAssumption DEF NewControl
    <3> QED
      BY <3>1 DEF AuthorityInv, AuthorityTypeOK, ControlTypeOK, NewControl, ControlStates
  <2> QED
    BY <2>1 DEF AuthorityInv, AuthorityTypeOK, NoAgent, Principal
<1>2. GrantInv' /\ EntryInv' /\ OwnerInv' /\ PauseHasOwner'
  BY DEF AuthorityInv, AuthorityTypeOK, GrantInv, EntryInv, OwnerInv, PauseHasOwner, NewControl
<1>3. \A t \in DOMAIN scopes : scopes[t].inc \in 1..inc /\ t # NoTicket
  BY ControlAssumption DEF AuthorityInv, PhaseInv, AuthorityTypeOK, ControlTypeOK
<1>4. PhaseInv'
  BY <1>3 DEF AuthorityInv, PhaseInv, AuthorityTypeOK
<1>5. RecordInv'
  BY <1>3 DEF AuthorityInv, RecordInv, AuthorityTypeOK
<1> QED
  BY <1>1, <1>2, <1>4, <1>5 DEF AuthorityInv

LEMMA RegisterKeeps ==
  ASSUME AuthorityInv, Register
  PROVE  AuthorityInv'
<1>1. grants = {}
  BY DEF AuthorityInv, GrantInv, Register
<1> QED
  BY <1>1, NewEntry DEF Register

LEMMA ConfigureReplacesKeeps ==
  ASSUME AuthorityInv, ConfigureReplaces
  PROVE  AuthorityInv'
  BY NewEntry, RevokeEffect DEF ConfigureReplaces, AuthorityInv

\* Takeover, removal and configuration revoke, and leave no agent in control.
LEMMA RevokingKeeps ==
  ASSUME AuthorityInv, Transition, revoke, UNCHANGED issued, registered' \in BOOLEAN,
         registered' => registered, ~registered' => state' = "STOPPED",
         state' # "AGENT_ACTIVE"
  PROVE  AuthorityInv'
<1>1. grants' = {} /\ agent' = NoAgent /\ agent' \in Principal
  BY RevokeEffect
<1>2. AuthorityTypeOK'
  BY <1>1, TransitionKeeps DEF AuthorityInv, AuthorityTypeOK, Transition
<1>3. GrantInv' /\ EntryInv'
  BY <1>1 DEF AuthorityInv, GrantInv, EntryInv, Transition
<1> QED
  BY <1>2, <1>3, TransitionKeeps DEF AuthorityInv

LEMMA RemoveKeeps ==
  ASSUME AuthorityInv, RemoveSession
  PROVE  AuthorityInv'
<1>1. Transition
  BY TransitionEffect DEF RemoveSession
<1>2. state' = "STOPPED"
  BY DEF RemoveSession, Stop
<1> QED
  BY <1>1, <1>2, RevokingKeeps DEF RemoveSession

LEMMA TakeoverKeeps ==
  ASSUME AuthorityInv, TakeoverSession
  PROVE  AuthorityInv'
<1>1. Transition
  BY TransitionEffect DEF TakeoverSession
<1>2. state' # "AGENT_ACTIVE"
  BY DEF TakeoverSession, Takeover
<1> QED
  BY <1>1, <1>2, RevokingKeeps DEF TakeoverSession

LEMMA ConfigureKeeps ==
  ASSUME AuthorityInv, Configure
  PROVE  AuthorityInv'
<1>1. Transition
  BY ControlAssumption
  DEF Configure, Transition, AuthorityInv, AuthorityTypeOK, ControlTypeOK, ControlStates
<1>2. state' # "AGENT_ACTIVE"
  BY DEF Configure
<1> QED
  BY <1>1, <1>2, RevokingKeeps DEF Configure

\* Preparing a resume, and the end of a review: no agent is in control before or after.
LEMMA ReviewKeeps ==
  ASSUME AuthorityInv, PrepareResumeSession \/ InvalidatePrepared
  PROVE  AuthorityInv'
<1>1. Transition
  BY TransitionEffect DEF PrepareResumeSession, InvalidatePrepared, authorityVars
<1>2. UNCHANGED authorityVars /\ registered
  BY DEF PrepareResumeSession, InvalidatePrepared
<1>3. \/ state' = state /\ epoch' = epoch
      \/ state # "AGENT_ACTIVE" /\ state' # "AGENT_ACTIVE"
  BY DEF PrepareResumeSession, InvalidatePrepared, PrepareResume, startReview, InvalidateReview
<1>4. AuthorityTypeOK'
  BY <1>1, <1>2, TransitionKeeps DEF AuthorityInv, AuthorityTypeOK, authorityVars, Transition
<1>5. GrantInv' /\ EntryInv'
  BY <1>2, <1>3 DEF AuthorityInv, GrantInv, EntryInv, authorityVars
<1> QED
  BY <1>1, <1>4, <1>5, TransitionKeeps DEF AuthorityInv

\* A delegation issues a principal of a generation of its own.
LEMMA DelegateKeeps ==
  ASSUME AuthorityInv, NEW e \in 0..MaxReview, DelegateSession(e)
  PROVE  AuthorityInv'
<1> DEFINE p == [generation |-> Cardinality(issued) + 1, epoch |-> epoch', inc |-> inc]
<1>1. Transition
  BY TransitionEffect DEF DelegateSession
<1>2. /\ registered /\ registered' = registered /\ inc' = inc
      /\ state' = "AGENT_ACTIVE" /\ agent' = p
      /\ grants' = (grants \ {agent}) \cup {p} /\ issued' = issued \cup {p}
  BY DEF DelegateSession, Delegate
<1>3. IsFiniteSet(issued) /\ Cardinality(issued) \in Nat
  BY FS_CardinalityType DEF AuthorityInv, AuthorityTypeOK
<1>4. /\ p \in Principal /\ p.generation = Cardinality(issued) + 1
      /\ p.epoch = epoch' /\ p.inc = inc /\ p # NoAgent
  BY <1>1, <1>3 DEF Principal, NoAgent, Transition, AuthorityInv, AuthorityTypeOK
<1> HIDE DEF p
<1>5. p \notin issued
  BY <1>3, <1>4 DEF AuthorityInv, GrantInv
<1>6. IsFiniteSet(issued') /\ Cardinality(issued') = Cardinality(issued) + 1
  BY <1>2, <1>3, <1>5, FS_AddElement
<1>7. AuthorityTypeOK'
  BY <1>1, <1>2, <1>4, <1>6, TransitionKeeps DEF AuthorityInv, AuthorityTypeOK, Transition
<1>8. GrantInv'
  <2>1. grants' = {p}
    BY <1>2 DEF AuthorityInv, GrantInv
  <2>2. \A q \in issued' : q.generation \in 1..Cardinality(issued')
    BY <1>2, <1>3, <1>4, <1>6 DEF AuthorityInv, GrantInv
  <2>3. \A q, r \in issued' : q.generation = r.generation => q = r
    BY <1>2, <1>3, <1>4 DEF AuthorityInv, GrantInv
  <2> QED
    BY <1>2, <1>4, <2>1, <2>2, <2>3 DEF GrantInv
<1>9. EntryInv'
  BY <1>2 DEF AuthorityInv, EntryInv
<1> QED
  BY <1>1, <1>7, <1>8, <1>9, TransitionKeeps DEF AuthorityInv

-----------------------------------------------------------------------------
(* One run.                                                                *)

\* What begin does to the control: one ticket, of the owner the state says, and for
\* a write one record under an id that had none.
LEMMA BeginEffect ==
  ASSUME AuthorityInv, NEW t \in Tickets, NEW actor \in Actors, NEW e,
         NEW op \in OpIds \cup {NoOp}, NEW fp \in Fingerprints,
         Begin(t, actor, e, op, fp, FALSE)
  PROVE  /\ active = NoTicket /\ active' = t /\ finalized' = FALSE
         /\ t \notin DOMAIN tickets
         /\ DOMAIN tickets' = DOMAIN tickets \cup {t}
         /\ tickets'[t] = [epoch |-> epoch', actor |-> actor, op |-> op, didDispatch |-> FALSE]
         /\ \A u \in DOMAIN tickets : tickets'[u] = tickets[u]
         /\ op \notin DOMAIN records
         /\ \A o \in DOMAIN records : o \in DOMAIN records' /\ records'[o] = records[o]
         /\ op # NoOp => /\ op \in DOMAIN records'
                         /\ records'[op].ticket = t
                         /\ records'[op].record = Fact("in_flight", FALSE)
         /\ ControlTypeOK'
         /\ state = "AGENT_ACTIVE" <=> state' = "AGENT_ACTIVE"
         /\ state = "AGENT_ACTIVE" => epoch' = epoch
         /\ state = "STOPPED" <=> state' = "STOPPED"
         /\ actor = "agent" <=> state' = "AGENT_ACTIVE"
<1> DEFINE entry == [fingerprint |-> fp, actor |-> actor, ackRequired |-> FALSE, ticket |-> t,
                     epoch |-> epoch', record |-> Fact("in_flight", FALSE),
                     acknowledgment |-> NoFact]
           ticket == [epoch |-> epoch', actor |-> actor, op |-> op, didDispatch |-> FALSE]
<1>1. /\ active = NoTicket /\ active' = t /\ finalized' = FALSE
      /\ t \notin DOMAIN tickets /\ op \notin DOMAIN records
  BY DEF Begin, IssueTicket, Unspent
<1>2. /\ DOMAIN tickets' = DOMAIN tickets \cup {t}
      /\ tickets'[t] = ticket
      /\ \A u \in DOMAIN tickets : tickets'[u] = tickets[u]
  BY <1>1 DEF Begin, IssueTicket
<1>3. /\ op = NoOp => records' = records
      /\ op # NoOp => DOMAIN records' = DOMAIN records \cup {op} /\ records'[op] = entry
      /\ \A o \in DOMAIN records : o \in DOMAIN records' /\ records'[o] = records[o]
  BY <1>1 DEF Begin, IssueTicket, WithOperation
<1>4. /\ epoch' \in Nat /\ state' \in ControlStates /\ review' \in 0..MaxReview
  BY ControlAssumption
  DEF Begin, IssueTicket, AuthorityInv, AuthorityTypeOK, ControlTypeOK, ControlStates, invalidateReview
<1>5. /\ state = "AGENT_ACTIVE" <=> state' = "AGENT_ACTIVE"
      /\ state = "AGENT_ACTIVE" => epoch' = epoch
      /\ state = "STOPPED" <=> state' = "STOPPED"
      /\ actor = "agent" <=> state' = "AGENT_ACTIVE"
  BY DEF Begin, IssueTicket, AdmitsActor, authorizeAgent, LeavesReview, Actors
<1>6. ticket \in Ticket
  BY <1>4 DEF Ticket
<1>7. Fact("in_flight", FALSE) \in Facts
  BY DEF Fact, Facts, Statuses
<1>8. entry \in StoredOperation /\ entry.ticket = t /\ entry.record = Fact("in_flight", FALSE)
  <2> HIDE DEF NoFact
  <2> QED
    BY <1>4, <1>7 DEF StoredOperation
<1> HIDE DEF entry, ticket
<1>9. ControlTypeOK'
  <2>1. \A u \in DOMAIN tickets' : tickets'[u] \in Ticket
    BY <1>2, <1>6 DEF AuthorityInv, AuthorityTypeOK, ControlTypeOK
  <2>2. /\ DOMAIN records' \subseteq OpIds
        /\ \A o \in DOMAIN records' : records'[o] \in StoredOperation
    BY <1>3, <1>8 DEF AuthorityInv, AuthorityTypeOK, ControlTypeOK
  <2> QED
    BY <1>1, <1>2, <1>4, <2>1, <2>2 DEF AuthorityInv, AuthorityTypeOK, ControlTypeOK
<1> QED
  BY <1>1, <1>2, <1>3, <1>5, <1>8, <1>9 DEF ticket

LEMMA RunKeeps ==
  ASSUME AuthorityInv, NEW t \in Tickets, NEW actor \in Actors, NEW p,
         NEW op \in OpIds \cup {NoOp}, NEW fp \in Fingerprints, Run(t, actor, p, op, fp)
  PROVE  AuthorityInv'
<1>1. /\ registered /\ UNCHANGED <<inc, registered, agent, grants, issued>>
      /\ scopes' = [u \in DOMAIN scopes \cup {t} |-> IF u = t THEN NewScope ELSE scopes[u]]
      /\ Begin(t, actor, agent.epoch, op, fp, FALSE)
  BY DEF Run
<1>2. /\ active = NoTicket /\ active' = t /\ finalized' = FALSE
      /\ t \notin DOMAIN tickets
      /\ DOMAIN tickets' = DOMAIN tickets \cup {t}
      /\ tickets'[t] = [epoch |-> epoch', actor |-> actor, op |-> op, didDispatch |-> FALSE]
      /\ \A u \in DOMAIN tickets : tickets'[u] = tickets[u]
  BY <1>1, BeginEffect
<1>3. /\ op \notin DOMAIN records
      /\ \A o \in DOMAIN records : o \in DOMAIN records' /\ records'[o] = records[o]
      /\ op # NoOp => /\ op \in DOMAIN records'
                      /\ records'[op].ticket = t
                      /\ records'[op].record = Fact("in_flight", FALSE)
      /\ ControlTypeOK'
  BY ZenonT(60), <1>1, BeginEffect
<1>4. /\ state = "AGENT_ACTIVE" <=> state' = "AGENT_ACTIVE"
      /\ state = "AGENT_ACTIVE" => epoch' = epoch
      /\ state = "STOPPED" <=> state' = "STOPPED"
      /\ actor = "agent" <=> state' = "AGENT_ACTIVE"
  BY <1>1, BeginEffect
<1>5. /\ DOMAIN scopes = DOMAIN tickets /\ inc \in Nat
      /\ DOMAIN scopes' = DOMAIN scopes \cup {t}
      /\ scopes'[t] = NewScope
      /\ \A u \in DOMAIN scopes : u # t /\ scopes'[u] = scopes[u]
  BY <1>1, <1>2 DEF AuthorityInv, AuthorityTypeOK
<1>6. /\ NewScope \in Scope /\ NewScope.inc = inc /\ NewScope.open /\ NewScope.phase = "running"
      /\ NewScope.reads = 0 /\ NewScope.dispatches = 0
  BY <1>5, AuthorityAssumption DEF NewScope, Scope, Terminal
<1>7. inc # 0
  BY <1>1, <1>2 DEF AuthorityInv, EntryInv
<1>8. AuthorityTypeOK'
  BY <1>1, <1>2, <1>3, <1>5, <1>6 DEF AuthorityInv, AuthorityTypeOK
<1>9. GrantInv' /\ EntryInv'
  BY <1>1, <1>4 DEF AuthorityInv, GrantInv, EntryInv
<1>10. OwnerInv'
  <2>1. epoch' \in Nat /\ tickets'[t].epoch = epoch' /\ tickets'[t].actor = actor
    BY <1>2, <1>3 DEF ControlTypeOK
  <2> QED
    BY <1>2, <1>4, <1>5, <1>6, <2>1 DEF OwnerInv
<1>11. PhaseInv'
  BY <1>1, <1>2, <1>5, <1>6, <1>7, ControlAssumption
  DEF AuthorityInv, PhaseInv, AuthorityTypeOK, ControlTypeOK
<1>12. RecordInv'
  <2> SUFFICES ASSUME NEW u \in DOMAIN scopes', scopes'[u].inc = inc', tickets'[u].op # NoOp
               PROVE  /\ tickets'[u].op \in DOMAIN records'
                      /\ records'[tickets'[u].op].ticket = u
                      /\ records'[tickets'[u].op].record =
                           Fact(Told(scopes'[u]), tickets'[u].didDispatch)
    BY DEF RecordInv, Told
  <2>1. CASE u = t
    <3>1. tickets'[t].op = op /\ tickets'[t].didDispatch = FALSE
      BY <1>2
    <3>2. Told(scopes'[t]) = "in_flight"
      BY <1>5, <1>6 DEF Told
    <3> QED
      BY <1>3, <2>1, <3>1, <3>2
  <2>2. CASE u # t
    BY <1>1, <1>2, <1>3, <1>5, <2>2 DEF AuthorityInv, RecordInv, Told
  <2> QED
    BY <2>1, <2>2
<1>13. PauseHasOwner'
  BY <1>2, ControlAssumption DEF PauseHasOwner
<1> QED
  BY <1>8, <1>9, <1>10, <1>11, <1>12, <1>13 DEF AuthorityInv

\* A change of one run's counts, with the control as it is, or as a dispatch left it.
Counted(t) ==
  /\ UNCHANGED <<inc, registered, agent, grants, issued>>
  /\ UNCHANGED <<state, epoch, review, active, finalized>>
  /\ DOMAIN scopes' = DOMAIN scopes
  /\ scopes'[t] \in Scope
  /\ scopes'[t].inc = scopes[t].inc /\ scopes'[t].open = scopes[t].open
  /\ scopes'[t].phase = scopes[t].phase /\ scopes'[t].status = scopes[t].status
  /\ scopes'[t].reads + scopes'[t].dispatches > 0 => scopes[t].phase \in {"running", "draining"}
  /\ \A u \in DOMAIN scopes \ {t} : scopes'[u] = scopes[u]

LEMMA CountedKeeps ==
  ASSUME AuthorityInv, NEW t \in DOMAIN scopes, Counted(t), ControlTypeOK',
         DOMAIN tickets' = DOMAIN tickets
  PROVE  AuthorityTypeOK' /\ GrantInv' /\ EntryInv' /\ PauseHasOwner' /\ PhaseInv'
<1>1. AuthorityTypeOK'
  BY DEF AuthorityInv, AuthorityTypeOK, Counted
<1>2. GrantInv' /\ EntryInv' /\ PauseHasOwner'
  BY DEF AuthorityInv, GrantInv, EntryInv, PauseHasOwner, Counted
<1>3. PhaseInv'
  BY DEF AuthorityInv, PhaseInv, Counted
<1> QED
  BY <1>1, <1>2, <1>3

\* A read is tracked, or a tracked task settles.
LEMMA QuietKeeps ==
  ASSUME AuthorityInv, NEW t \in DOMAIN scopes, Counted(t), UNCHANGED <<records, tickets>>
  PROVE  AuthorityInv'
<1>1. ControlTypeOK'
  BY DEF AuthorityInv, AuthorityTypeOK, ControlTypeOK, Counted
<1>2. OwnerInv'
  BY DEF AuthorityInv, OwnerInv, Counted, AuthorityTypeOK, ControlTypeOK
<1>3. \A u \in DOMAIN scopes : scopes'[u].inc = scopes[u].inc /\ Told(scopes'[u]) = Told(scopes[u])
  BY DEF Counted, Told
<1>4. RecordInv'
  BY <1>3 DEF AuthorityInv, RecordInv, Counted
<1> QED
  BY <1>1, <1>2, <1>4, CountedKeeps DEF AuthorityInv

LEMMA TrackReadKeeps ==
  ASSUME AuthorityInv, NEW t \in DOMAIN scopes, TrackReadInScope(t)
  PROVE  AuthorityInv'
<1> DEFINE sc == [scopes[t] EXCEPT !.reads = @ + 1]
<1>1. scopes[t] \in Scope
  BY DEF AuthorityInv, AuthorityTypeOK
<1>2. /\ UNCHANGED <<controlVars, inc, registered, agent, grants, issued>>
      /\ scopes' = [scopes EXCEPT ![t] = sc]
      /\ scopes[t].open /\ scopes[t].reads + scopes[t].dispatches < MaxPending
  BY DEF TrackReadInScope, AssertInScope, Pending
<1>3. /\ sc \in Scope /\ sc.inc = scopes[t].inc /\ sc.open = scopes[t].open
      /\ sc.phase = scopes[t].phase /\ sc.status = scopes[t].status
  <2>1. scopes[t].reads + 1 \in 0..MaxPending
    BY <1>1, <1>2, ScopeFields, AuthorityAssumption
  <2> QED
    BY <1>1, <2>1 DEF Scope
<1>4. scopes[t].phase = "running"
  BY <1>2 DEF AuthorityInv, PhaseInv
<1> HIDE DEF sc
<1>5. Counted(t)
  BY <1>2, <1>3, <1>4 DEF Counted, controlVars
<1> QED
  BY <1>2, <1>5, QuietKeeps DEF controlVars

LEMMA SettleKeeps ==
  ASSUME AuthorityInv, NEW t \in DOMAIN scopes, SettleRead(t) \/ SettleDispatch(t)
  PROVE  AuthorityInv'
<1>1. scopes[t] \in Scope
  BY DEF AuthorityInv, AuthorityTypeOK
<1>2. scopes[t].reads \in Nat /\ scopes[t].dispatches \in Nat
  BY <1>1, ScopeFields
<1>3. UNCHANGED <<controlVars, inc, registered, agent, grants, issued>>
  BY DEF SettleRead, SettleDispatch
<1>4. PICK sc : /\ scopes' = [scopes EXCEPT ![t] = sc]
                /\ \/ scopes[t].reads > 0 /\ sc = [scopes[t] EXCEPT !.reads = @ - 1]
                   \/ scopes[t].dispatches > 0 /\ sc = [scopes[t] EXCEPT !.dispatches = @ - 1]
  BY DEF SettleRead, SettleDispatch
<1>5. /\ sc \in Scope /\ sc.inc = scopes[t].inc /\ sc.open = scopes[t].open
      /\ sc.phase = scopes[t].phase /\ sc.status = scopes[t].status
  BY <1>1, <1>4, AuthorityAssumption DEF Scope
<1>6. scopes[t].reads + scopes[t].dispatches > 0
  BY <1>2, <1>4
<1>7. scopes[t].phase \in {"running", "draining"}
  BY <1>6 DEF AuthorityInv, PhaseInv
<1>8. Counted(t)
  BY <1>3, <1>4, <1>5, <1>7 DEF Counted, controlVars
<1> QED
  BY <1>3, <1>8, QuietKeeps DEF controlVars

\* What dispatched does to the control: one ticket is marked, and its record with it.
LEMMA DispatchedEffect ==
  ASSUME AuthorityInv, NEW t \in DOMAIN scopes, Dispatched(t)
  PROVE  /\ active = t /\ ~finalized
         /\ UNCHANGED <<state, epoch, review, active, finalized>>
         /\ ControlTypeOK'
         /\ DOMAIN tickets' = DOMAIN tickets
         /\ tickets'[t].didDispatch = TRUE
         /\ \A u \in DOMAIN tickets : /\ tickets'[u].op = tickets[u].op
                                      /\ tickets'[u].epoch = tickets[u].epoch
                                      /\ tickets'[u].actor = tickets[u].actor
                                      /\ u # t => tickets'[u] = tickets[u]
         /\ DOMAIN records' = DOMAIN records
         /\ \A o \in DOMAIN records :
              /\ records'[o].ticket = records[o].ticket
              /\ o # tickets[t].op => records'[o] = records[o]
              /\ o = tickets[t].op =>
                   records'[o].record = Fact(records[o].record.status, TRUE)
<1> DEFINE op == tickets[t].op
           ticket == [tickets[t] EXCEPT !.didDispatch = TRUE]
<1>1. /\ UNCHANGED <<state, epoch, review, active, finalized>>
      /\ active = t /\ ~finalized
      /\ tickets' = [tickets EXCEPT ![t] = ticket]
      /\ DOMAIN tickets' = DOMAIN tickets /\ t \in DOMAIN tickets
      /\ DOMAIN records' = DOMAIN records
  BY DEF Dispatched, check, AuthorityInv, AuthorityTypeOK
<1>2. tickets[t] \in Ticket
  BY <1>1 DEF AuthorityInv, AuthorityTypeOK, ControlTypeOK
<1>3. /\ ticket \in Ticket
      /\ ticket.op = op /\ ticket.epoch = tickets[t].epoch /\ ticket.actor = tickets[t].actor
      /\ ticket.didDispatch = TRUE
  BY <1>2 DEF Ticket
<1>4. /\ tickets'[t] = ticket
      /\ \A u \in DOMAIN tickets : /\ tickets'[u] \in Ticket
                                   /\ tickets'[u].op = tickets[u].op
                                   /\ tickets'[u].epoch = tickets[u].epoch
                                   /\ tickets'[u].actor = tickets[u].actor
                                   /\ u # t => tickets'[u] = tickets[u]
  BY <1>1, <1>3 DEF AuthorityInv, AuthorityTypeOK, ControlTypeOK
<1>5. \A o \in DOMAIN records :
        /\ records'[o] \in StoredOperation
        /\ records'[o].ticket = records[o].ticket
        /\ o # op => records'[o] = records[o]
        /\ o = op => records'[o].record = Fact(records[o].record.status, TRUE)
  <2>1. CASE op \in DOMAIN records
    <3> DEFINE r == [records[op] EXCEPT !.record = [records[op].record EXCEPT !.dispatched = TRUE]]
    <3>1. records[op] \in StoredOperation
      BY <2>1 DEF AuthorityInv, AuthorityTypeOK, ControlTypeOK
    <3>2. /\ r \in StoredOperation /\ r.ticket = records[op].ticket
          /\ r.record = Fact(records[op].record.status, TRUE)
      BY <3>1 DEF StoredOperation, Facts, Fact
    <3>3. records' = [records EXCEPT ![op] = r]
      BY <2>1 DEF Dispatched
    <3> QED
      BY <2>1, <3>2, <3>3 DEF AuthorityInv, AuthorityTypeOK, ControlTypeOK
  <2>2. CASE op \notin DOMAIN records
    BY <2>2 DEF Dispatched, AuthorityInv, AuthorityTypeOK, ControlTypeOK
  <2> QED
    BY <2>1, <2>2
<1>6. ControlTypeOK'
  BY <1>1, <1>4, <1>5 DEF AuthorityInv, AuthorityTypeOK, ControlTypeOK
<1> HIDE DEF ticket
<1> QED
  BY <1>1, <1>3, <1>4, <1>5, <1>6

LEMMA DispatchKeeps ==
  ASSUME AuthorityInv, NEW t \in DOMAIN scopes, DispatchInScope(t)
  PROVE  AuthorityInv'
<1> DEFINE sc == [scopes[t] EXCEPT !.dispatches = @ + 1]
<1>1. scopes[t] \in Scope /\ DOMAIN scopes = DOMAIN tickets
  BY DEF AuthorityInv, AuthorityTypeOK
<1>2. /\ UNCHANGED <<inc, registered, agent, grants, issued>>
      /\ Dispatched(t)
      /\ scopes' = [scopes EXCEPT ![t] = sc]
      /\ scopes[t].open /\ scopes[t].reads + scopes[t].dispatches < MaxPending
  BY DEF DispatchInScope, AssertInScope, Pending
<1>3. /\ sc \in Scope /\ sc.inc = scopes[t].inc /\ sc.open = scopes[t].open
      /\ sc.phase = scopes[t].phase /\ sc.status = scopes[t].status
  <2>1. scopes[t].dispatches + 1 \in 0..MaxPending
    BY <1>1, <1>2, ScopeFields, AuthorityAssumption
  <2> QED
    BY <1>1, <2>1 DEF Scope
<1>4. scopes[t].phase = "running"
  BY <1>2 DEF AuthorityInv, PhaseInv
<1> HIDE DEF sc
<1>5. Counted(t)
  BY <1>2, <1>3, <1>4, DispatchedEffect DEF Counted
<1>6. ControlTypeOK' /\ DOMAIN tickets' = DOMAIN tickets
  BY <1>2, DispatchedEffect
<1>7. OwnerInv'
  <2>1. active = t /\ active' = t /\ state' = state /\ epoch' = epoch /\ finalized' = finalized
    BY <1>2, DispatchedEffect
  <2>2. tickets'[t].epoch = tickets[t].epoch /\ tickets'[t].actor = tickets[t].actor
    BY <1>1, <1>2, DispatchedEffect
  <2> QED
    BY <1>5, <2>1, <2>2 DEF AuthorityInv, OwnerInv, Counted
<1>8. RecordInv'
  <2> SUFFICES ASSUME NEW u \in DOMAIN scopes, scopes[u].inc = inc, tickets[u].op # NoOp
               PROVE  /\ tickets[u].op \in DOMAIN records
                      /\ records'[tickets[u].op].ticket = u
                      /\ records'[tickets[u].op].record =
                           Fact(Told(scopes[u]), tickets'[u].didDispatch)
    <3>1. \A u \in DOMAIN scopes :
            scopes'[u].inc = scopes[u].inc /\ Told(scopes'[u]) = Told(scopes[u])
      BY <1>5 DEF Counted, Told
    <3>2. \A u \in DOMAIN scopes : tickets'[u].op = tickets[u].op
      BY <1>1, <1>2, DispatchedEffect
    <3>3. DOMAIN records' = DOMAIN records
      BY <1>2, DispatchedEffect
    <3> QED
      BY <1>2, <1>5, <3>1, <3>2, <3>3 DEF RecordInv, Counted
  <2>1. /\ tickets[u].op \in DOMAIN records /\ records[tickets[u].op].ticket = u
        /\ records[tickets[u].op].record = Fact(Told(scopes[u]), tickets[u].didDispatch)
    BY DEF AuthorityInv, RecordInv
  <2>2. CASE u = t
    <3>1. /\ records'[tickets[u].op].ticket = u
          /\ records'[tickets[u].op].record = Fact(records[tickets[u].op].record.status, TRUE)
          /\ tickets'[u].didDispatch = TRUE
      BY <1>2, <2>1, <2>2, DispatchedEffect
    <3>2. records[tickets[u].op].record.status = Told(scopes[u])
      BY <2>1 DEF Fact
    <3> QED
      BY <2>1, <3>1, <3>2
  <2>3. CASE u # t
    <3>1. tickets[u].op # tickets[t].op
      <4>1. active = t
        BY <1>2, DispatchedEffect
      <4>2. scopes[t].inc = inc
        BY <4>1 DEF AuthorityInv, PhaseInv
      <4> QED
        BY <2>1, <2>3, <4>2 DEF AuthorityInv, RecordInv
    <3>2. records'[tickets[u].op] = records[tickets[u].op] /\ tickets'[u] = tickets[u]
      BY <1>1, <1>2, <2>1, <2>3, <3>1, DispatchedEffect
    <3> QED
      BY <2>1, <3>2
  <2> QED
    BY <2>1, <2>2, <2>3
<1> QED
  BY <1>5, <1>6, <1>7, <1>8, CountedKeeps DEF AuthorityInv

\* finalize and finish freeze one record's status, once.
LEMMA FinalizedEffect ==
  ASSUME AuthorityInv, NEW t \in DOMAIN scopes, NEW status \in Terminal,
         records' = FinalizedRecords(t, status)
  PROVE  /\ DOMAIN records' = DOMAIN records
         /\ \A o \in DOMAIN records :
              /\ records'[o] \in StoredOperation
              /\ records'[o].ticket = records[o].ticket
              /\ finalized \/ o # tickets[t].op => records'[o] = records[o]
              /\ ~finalized /\ o = tickets[t].op =>
                   records'[o].record = Fact(status, records[o].record.dispatched)
<1> DEFINE op == tickets[t].op
<1>1. \A o \in DOMAIN records : records[o] \in StoredOperation
  BY DEF AuthorityInv, AuthorityTypeOK, ControlTypeOK
<1>2. CASE ~finalized /\ op \in DOMAIN records
  <2> DEFINE r == [records[op] EXCEPT !.record = [records[op].record EXCEPT !.status = status]]
  <2>1. /\ r \in StoredOperation /\ r.ticket = records[op].ticket
        /\ r.record = Fact(status, records[op].record.dispatched)
    BY <1>1, <1>2 DEF StoredOperation, Facts, Fact, Statuses
  <2>2. records' = [records EXCEPT ![op] = r]
    BY <1>2 DEF FinalizedRecords
  <2> HIDE DEF r
  <2> QED
    BY <1>1, <1>2, <2>1, <2>2
<1>3. CASE ~(~finalized /\ op \in DOMAIN records)
  BY <1>1, <1>3 DEF FinalizedRecords
<1> QED
  BY <1>2, <1>3

\* A run's last two steps, at the control of its own entry or, once that entry is
\* replaced, nowhere.
Closes(t, new) ==
  /\ UNCHANGED <<inc, registered, agent, grants, issued>>
  /\ scopes' = [scopes EXCEPT ![t] = new]
  /\ IF scopes[t].inc = inc
       THEN /\ records' = FinalizedRecords(t, new.status)
            /\ finalized => new.status = scopes[t].status /\ scopes[t].phase = "publishing"
            /\ finalized' = TRUE
            /\ active' = IF new.phase = "publishing" THEN t ELSE NoTicket
            /\ state' = IF new.phase = "done" /\ state = "PAUSE_REQUESTED"
                          THEN "HUMAN_ACTIVE" ELSE state
            /\ UNCHANGED <<epoch, review, tickets>>
       ELSE UNCHANGED controlVars

LEMMA ClosingKeeps ==
  ASSUME AuthorityInv, NEW t \in DOMAIN scopes, NEW new \in Scope, Closes(t, new),
         scopes[t].phase # "done",
         new.inc = scopes[t].inc, ~new.open, new.reads = 0, new.dispatches = 0,
         new.phase \in {"publishing", "done"}
  PROVE  AuthorityInv'
<1>1. /\ UNCHANGED <<inc, registered, agent, grants, issued>>
      /\ DOMAIN scopes' = DOMAIN scopes /\ scopes'[t] = new
      /\ \A u \in DOMAIN scopes \ {t} : scopes'[u] = scopes[u]
      /\ UNCHANGED <<epoch, review, tickets>>
  BY DEF Closes, controlVars
<1>2. /\ DOMAIN scopes = DOMAIN tickets /\ t \in Tickets /\ t # NoTicket
      /\ \A u \in DOMAIN scopes : u # NoTicket
  BY ControlAssumption DEF AuthorityInv, AuthorityTypeOK, ControlTypeOK
<1>3. scopes[t].inc = inc <=> active = t
  BY DEF AuthorityInv, PhaseInv
<1>4. new.status \in Terminal
  BY ScopeFields
<1>5. CASE scopes[t].inc = inc
  <2>1. /\ records' = FinalizedRecords(t, new.status)
        /\ finalized => new.status = scopes[t].status /\ scopes[t].phase = "publishing"
        /\ finalized' = TRUE
        /\ active' = IF new.phase = "publishing" THEN t ELSE NoTicket
        /\ state' = IF new.phase = "done" /\ state = "PAUSE_REQUESTED"
                      THEN "HUMAN_ACTIVE" ELSE state
    BY <1>5 DEF Closes
  <2>2. /\ DOMAIN records' = DOMAIN records
        /\ \A o \in DOMAIN records :
             /\ records'[o] \in StoredOperation
             /\ records'[o].ticket = records[o].ticket
             /\ finalized \/ o # tickets[t].op => records'[o] = records[o]
             /\ ~finalized /\ o = tickets[t].op =>
                  records'[o].record = Fact(new.status, records[o].record.dispatched)
    BY <1>4, <2>1, FinalizedEffect
  <2>3. ControlTypeOK'
    <3>1. state' \in ControlStates /\ active' \in DOMAIN tickets \cup {NoTicket}
      BY <1>2, <2>1 DEF AuthorityInv, AuthorityTypeOK, ControlTypeOK, ControlStates
    <3> QED
      BY <1>1, <2>1, <2>2, <3>1 DEF AuthorityInv, AuthorityTypeOK, ControlTypeOK
  <2>4. AuthorityTypeOK'
    BY <1>1, <1>2, <2>3 DEF AuthorityInv, AuthorityTypeOK
  <2>5. GrantInv' /\ EntryInv'
    BY <1>1, <1>2, <1>3, <1>5, <2>1 DEF AuthorityInv, GrantInv, EntryInv
  <2>6. OwnerInv' /\ PauseHasOwner'
    BY <1>1, <1>2, <1>3, <1>5, <2>1 DEF AuthorityInv, OwnerInv, PauseHasOwner
  <2>7. PhaseInv'
    <3> SUFFICES ASSUME NEW u \in DOMAIN scopes
                 PROVE  /\ scopes'[u].inc \in 1..inc
                        /\ scopes'[u].open => scopes'[u].phase = "running"
                        /\ scopes'[u].reads + scopes'[u].dispatches > 0 =>
                             scopes'[u].phase \in {"running", "draining"}
                        /\ active' = u <=> scopes'[u].inc = inc /\ scopes'[u].phase # "done"
      BY <1>1 DEF PhaseInv
    <3>1. CASE u = t
      BY <1>1, <1>2, <1>5, <2>1, <3>1 DEF AuthorityInv, PhaseInv
    <3>2. CASE u # t
      BY <1>1, <1>2, <1>3, <1>5, <2>1, <3>2 DEF AuthorityInv, PhaseInv
    <3> QED
      BY <3>1, <3>2
  <2>8. RecordInv'
    <3> SUFFICES ASSUME NEW u \in DOMAIN scopes, scopes'[u].inc = inc, tickets[u].op # NoOp
                 PROVE  /\ tickets[u].op \in DOMAIN records'
                        /\ records'[tickets[u].op].ticket = u
                        /\ records'[tickets[u].op].record =
                             Fact(Told(scopes'[u]), tickets[u].didDispatch)
      BY <1>1 DEF RecordInv, Told
    <3>1. /\ tickets[u].op \in DOMAIN records /\ records[tickets[u].op].ticket = u
          /\ records[tickets[u].op].record = Fact(Told(scopes[u]), tickets[u].didDispatch)
      BY <1>1 DEF AuthorityInv, RecordInv
    <3>2. CASE u = t
      <4>1. Told(scopes'[u]) = new.status
        BY <1>1, <3>2 DEF Told
      <4>2. CASE finalized
        <5>1. Told(scopes[u]) = new.status
          BY <2>1, <3>2, <4>2 DEF Told
        <5> QED
          BY <2>2, <3>1, <4>1, <4>2, <5>1
      <4>3. CASE ~finalized
        <5>1. records[tickets[u].op].record.dispatched = tickets[u].didDispatch
          BY <3>1 DEF Fact
        <5>2. records'[tickets[u].op].record =
                Fact(new.status, records[tickets[u].op].record.dispatched)
          BY <2>2, <3>1, <3>2, <4>3
        <5> QED
          BY <2>2, <3>1, <4>1, <5>1, <5>2
      <4> QED
        BY <4>2, <4>3
    <3>3. CASE u # t
      <4>1. tickets[u].op # tickets[t].op
        BY <1>5, <3>1, <3>3 DEF AuthorityInv, RecordInv
      <4> QED
        BY <1>1, <2>2, <3>1, <3>3, <4>1
    <3> QED
      BY <3>2, <3>3
  <2> QED
    BY <2>4, <2>5, <2>6, <2>7, <2>8 DEF AuthorityInv
<1>6. CASE scopes[t].inc # inc
  <2>1. UNCHANGED controlVars /\ active # t
    BY <1>3, <1>6 DEF Closes
  <2>2. AuthorityTypeOK'
    BY <1>1, <2>1 DEF AuthorityInv, AuthorityTypeOK, ControlTypeOK, controlVars
  <2>3. GrantInv' /\ EntryInv' /\ PauseHasOwner'
    BY <1>1, <2>1 DEF AuthorityInv, GrantInv, EntryInv, PauseHasOwner, controlVars
  <2>4. OwnerInv'
    BY <1>1, <1>2, <2>1 DEF AuthorityInv, OwnerInv, AuthorityTypeOK, ControlTypeOK, controlVars
  <2>5. PhaseInv'
    BY <1>1, <1>6, <2>1 DEF AuthorityInv, PhaseInv, controlVars
  <2>6. RecordInv'
    BY <1>1, <1>6, <2>1 DEF AuthorityInv, RecordInv, controlVars, Told
  <2> QED
    BY <2>2, <2>3, <2>4, <2>5, <2>6 DEF AuthorityInv
<1> QED
  BY <1>5, <1>6

LEMMA UnfinishedType ==
  ASSUME NEW t
  PROVE  Unfinished(t) \in Terminal
  BY DEF Unfinished, Terminal

\* Draining over: the run publishes, or is over.
LEMMA ConcludeKeeps ==
  ASSUME AuthorityInv, NEW t \in DOMAIN scopes, NEW sc \in Scope, Conclude(t, sc),
         UNCHANGED <<inc, registered, agent, grants, issued>>,
         sc.inc = scopes[t].inc, ~sc.open, sc.reads = 0, sc.dispatches = 0,
         scopes[t].phase \in {"running", "draining"}
  PROVE  AuthorityInv'
<1> DEFINE final == FinalStatus(t, sc.status)
           new == IF sc.publishes THEN [sc EXCEPT !.status = final, !.phase = "publishing"]
                  ELSE Done(sc, final)
<1>1. final \in Terminal
  BY UnfinishedType, ScopeFields DEF FinalStatus
<1>2. /\ new \in Scope /\ new.inc = sc.inc /\ new.open = sc.open
      /\ new.reads = sc.reads /\ new.dispatches = sc.dispatches /\ new.status = final
      /\ new.phase = IF sc.publishes THEN "publishing" ELSE "done"
  BY <1>1 DEF Scope, Done
<1>3. scopes' = [scopes EXCEPT ![t] = new]
  BY DEF Conclude
<1>4. CASE scopes[t].inc = inc
  <2>1. active = t /\ t # NoTicket
    BY <1>4, ControlAssumption
    DEF AuthorityInv, PhaseInv, AuthorityTypeOK, ControlTypeOK
  <2>2. ~finalized
    BY <2>1 DEF AuthorityInv, OwnerInv
  <2>3. IF sc.publishes THEN Finalize(t, final) ELSE Finish(t, final)
    BY <1>4 DEF Conclude, OnOwnEntry
  <2> HIDE DEF new, final
  <2>4. Closes(t, new)
    BY <1>2, <1>3, <1>4, <2>1, <2>2, <2>3 DEF Closes, Finalize, Finish
  <2> QED
    BY <1>2, <2>4, ClosingKeeps
<1>5. CASE scopes[t].inc # inc
  <2>1. UNCHANGED controlVars
    BY <1>5 DEF Conclude, OnOwnEntry
  <2> HIDE DEF new, final
  <2>2. Closes(t, new)
    BY <1>3, <1>5, <2>1 DEF Closes
  <2> QED
    BY <1>2, <2>2, ClosingKeeps
<1> QED
  BY <1>4, <1>5

LEMMA DrainedKeeps ==
  ASSUME AuthorityInv, NEW t \in DOMAIN scopes, Drained(t)
  PROVE  AuthorityInv'
<1>1. scopes[t] \in Scope /\ scopes[t].phase = "draining" /\ ~scopes[t].open
  BY DEF Drained, AuthorityInv, AuthorityTypeOK, PhaseInv
<1>2. scopes[t].reads = 0 /\ scopes[t].dispatches = 0
  BY <1>1, ScopeFields DEF Drained, Pending
<1> QED
  BY <1>1, <1>2, ConcludeKeeps DEF Drained

\* The work callback ends: with nothing pending in one step, else draining.
LEMMA FnEndsKeeps ==
  ASSUME AuthorityInv, NEW t \in DOMAIN scopes, NEW outcome \in Outcomes,
         NEW publication \in BOOLEAN, FnEnds(t, outcome, publication)
  PROVE  AuthorityInv'
<1> DEFINE sc == [scopes[t] EXCEPT !.open = FALSE, !.phase = "draining",
                                   !.status = ReturnStatus(t, outcome),
                                   !.publishes = publication /\ outcome # "throws" /\ ScopeOwner(t)]
<1>1. /\ scopes[t] \in Scope /\ scopes[t].phase = "running"
      /\ UNCHANGED <<inc, registered, agent, grants, issued>>
      /\ IF Pending(t) = 0 THEN Conclude(t, sc)
         ELSE scopes' = [scopes EXCEPT ![t] = sc] /\ UNCHANGED controlVars
  BY DEF FnEnds, AuthorityInv, AuthorityTypeOK
<1>2. ReturnStatus(t, outcome) \in Terminal
  BY UnfinishedType DEF ReturnStatus, Terminal
<1>3. (publication /\ outcome # "throws" /\ ScopeOwner(t)) \in BOOLEAN
  OBVIOUS
<1>4. /\ sc \in Scope /\ sc.inc = scopes[t].inc /\ sc.open = FALSE /\ sc.phase = "draining"
      /\ sc.reads = scopes[t].reads /\ sc.dispatches = scopes[t].dispatches
  BY <1>1, <1>2, <1>3 DEF Scope
<1> HIDE DEF sc
<1>5. CASE Pending(t) = 0
  <2>1. scopes[t].reads = 0 /\ scopes[t].dispatches = 0
    BY <1>1, <1>5, ScopeFields DEF Pending
  <2> QED
    BY <1>1, <1>4, <1>5, <2>1, ConcludeKeeps
<1>6. CASE Pending(t) # 0
  <2>1. /\ DOMAIN scopes' = DOMAIN scopes /\ scopes'[t] = sc
        /\ \A u \in DOMAIN scopes \ {t} : scopes'[u] = scopes[u]
        /\ UNCHANGED controlVars
    BY <1>1, <1>6
  <2>2. AuthorityTypeOK'
    BY <1>1, <1>4, <2>1 DEF AuthorityInv, AuthorityTypeOK, ControlTypeOK, controlVars
  <2>3. GrantInv' /\ EntryInv' /\ PauseHasOwner'
    BY <1>1, <2>1 DEF AuthorityInv, GrantInv, EntryInv, PauseHasOwner, controlVars
  <2>4. OwnerInv'
    BY <1>1, <1>4, <2>1
    DEF AuthorityInv, OwnerInv, AuthorityTypeOK, ControlTypeOK, controlVars
  <2>5. PhaseInv'
    BY <1>1, <1>4, <2>1 DEF AuthorityInv, PhaseInv, controlVars
  <2>6. \A u \in DOMAIN scopes :
          scopes'[u].inc = scopes[u].inc /\ Told(scopes'[u]) = Told(scopes[u])
    BY <1>1, <1>4, <2>1 DEF Told
  <2>7. RecordInv'
    BY <1>1, <2>1, <2>6 DEF AuthorityInv, RecordInv, controlVars
  <2> QED
    BY <2>2, <2>3, <2>4, <2>5, <2>7 DEF AuthorityInv
<1> QED
  BY <1>5, <1>6

LEMMA EndPublicationKeeps ==
  ASSUME AuthorityInv, NEW t \in DOMAIN scopes, EndPublication(t)
  PROVE  AuthorityInv'
<1> DEFINE new == Done(scopes[t], scopes[t].status)
<1>1. /\ scopes[t] \in Scope /\ scopes[t].phase = "publishing" /\ ~scopes[t].open
      /\ scopes' = [scopes EXCEPT ![t] = new]
      /\ UNCHANGED <<inc, registered, agent, grants, issued>>
      /\ OnOwnEntry(t, Finish(t, scopes[t].status))
  BY DEF EndPublication, AuthorityInv, AuthorityTypeOK, PhaseInv
<1>2. scopes[t].reads = 0 /\ scopes[t].dispatches = 0
  <2>1. ~(scopes[t].reads + scopes[t].dispatches > 0)
    BY <1>1 DEF AuthorityInv, PhaseInv
  <2> QED
    BY <1>1, <2>1, ScopeFields
<1>3. /\ new \in Scope /\ new.inc = scopes[t].inc /\ new.open = scopes[t].open
      /\ new.reads = scopes[t].reads /\ new.dispatches = scopes[t].dispatches
      /\ new.status = scopes[t].status /\ new.phase = "done"
  BY <1>1 DEF Scope, Done
<1> HIDE DEF new
<1>4. Closes(t, new)
  BY <1>1, <1>3 DEF Closes, OnOwnEntry, Finish
<1> QED
  BY <1>1, <1>2, <1>3, <1>4, ClosingKeeps

-----------------------------------------------------------------------------
(* The theorems.                                                           *)

LEMMA InitKeeps == AuthorityInit => AuthorityInv
<1> SUFFICES ASSUME AuthorityInit PROVE AuthorityInv
  OBVIOUS
<1>1. /\ DOMAIN records = {} /\ DOMAIN tickets = {} /\ DOMAIN scopes = {}
      /\ state = "HUMAN_ACTIVE" /\ epoch = 0 /\ review = 0 /\ active = NoTicket
      /\ finalized = FALSE /\ inc = 0 /\ registered = FALSE /\ agent = NoAgent
      /\ grants = {} /\ issued = {}
  BY DEF AuthorityInit, ControlInit
<1>2. 0 \in 0..MaxReview /\ IsFiniteSet(issued) /\ NoAgent \in Principal
  BY <1>1, ControlAssumption, FS_EmptySet DEF NoAgent, Principal
<1>3. AuthorityTypeOK
  BY <1>1, <1>2 DEF AuthorityTypeOK, ControlTypeOK, ControlStates
<1>4. GrantInv /\ EntryInv /\ OwnerInv /\ PauseHasOwner /\ PhaseInv /\ RecordInv
  BY <1>1 DEF GrantInv, EntryInv, OwnerInv, PauseHasOwner, PhaseInv, RecordInv
<1> QED
  BY <1>3, <1>4 DEF AuthorityInv

LEMMA StepKeeps == AuthorityInv /\ [AuthorityNext]_sessionVars => AuthorityInv'
<1> SUFFICES ASSUME AuthorityInv, [AuthorityNext]_sessionVars PROVE AuthorityInv'
  OBVIOUS
<1>1. CASE Register
  BY <1>1, RegisterKeeps
<1>2. CASE RemoveSession
  BY <1>2, RemoveKeeps
<1>3. CASE TakeoverSession
  BY <1>3, TakeoverKeeps
<1>4. CASE PrepareResumeSession \/ InvalidatePrepared
  BY <1>4, ReviewKeeps
<1>5. ASSUME NEW e \in 0..MaxReview, DelegateSession(e) PROVE AuthorityInv'
  BY <1>5, DelegateKeeps
<1>6. CASE Configure
  BY <1>6, ConfigureKeeps
<1>7. CASE ConfigureReplaces
  BY <1>7, ConfigureReplacesKeeps
<1>8. ASSUME NEW t \in FreshTicket, NEW op \in OpIds \cup {NoOp}, NEW fp \in Fingerprints,
             \/ Run(t, "operator", NoAgent, op, fp)
             \/ \E p \in issued : Run(t, "agent", p, op, fp)
      PROVE  AuthorityInv'
  <2>1. t \in Tickets
    BY <1>8 DEF Run, Begin, IssueTicket
  <2>2. "operator" \in Actors /\ "agent" \in Actors
    BY DEF Actors
  <2> QED
    BY <1>8, <2>1, <2>2, RunKeeps
<1>9. ASSUME NEW t \in DOMAIN scopes, TrackReadInScope(t) PROVE AuthorityInv'
  BY <1>9, TrackReadKeeps
<1>10. ASSUME NEW t \in DOMAIN scopes, DispatchInScope(t) PROVE AuthorityInv'
  BY <1>10, DispatchKeeps
<1>11. ASSUME NEW t \in DOMAIN scopes, SettleRead(t) \/ SettleDispatch(t) PROVE AuthorityInv'
  BY <1>11, SettleKeeps
<1>12. ASSUME NEW t \in DOMAIN scopes, NEW outcome \in Outcomes, NEW publication \in BOOLEAN,
              FnEnds(t, outcome, publication)
       PROVE  AuthorityInv'
  BY <1>12, FnEndsKeeps
<1>13. ASSUME NEW t \in DOMAIN scopes, Drained(t) PROVE AuthorityInv'
  BY <1>13, DrainedKeeps
<1>14. ASSUME NEW t \in DOMAIN scopes, EndPublication(t) PROVE AuthorityInv'
  BY <1>14, EndPublicationKeeps
<1>15. CASE UNCHANGED sessionVars
  BY <1>15
  DEF sessionVars, controlVars, authorityVars, AuthorityInv, AuthorityTypeOK, ControlTypeOK,
      GrantInv, EntryInv, OwnerInv, PauseHasOwner, PhaseInv, RecordInv, Told
<1> QED
  BY <1>1, <1>2, <1>3, <1>4, <1>5, <1>6, <1>7, <1>8, <1>9, <1>10, <1>11, <1>12, <1>13, <1>14, <1>15
  DEF AuthorityNext

\* Every reachable state of the authority (session-authority.ts): the one grant, the
\* owner of the active ticket, where its run stands, and whose the records are.
THEOREM AuthorityInvariant == AuthoritySpec => []AuthorityInv
  BY InitKeeps, StepKeeps, PTL DEF AuthoritySpec

\* A token authenticates only the present grant, and authenticate and admit agree; the
\* session is busy exactly while a run of the present registration is not over; and a
\* published status is the recorded one.
THEOREM AuthorityKept == AuthoritySpec => []AuthorityHolds
<1>1. AuthorityInv => TokenIsCurrentGrant
  <2> SUFFICES ASSUME AuthorityInv, NEW p \in issued
               PROVE  /\ Authenticates(p) => p = agent /\ p.inc = inc
                      /\ Authenticates(p) <=> AdmitsAgent(p)
    BY DEF TokenIsCurrentGrant
  <2>1. Authenticates(p) => p = agent /\ agent # NoAgent
    BY DEF Authenticates, AuthorityInv, GrantInv
  <2>2. AdmitsAgent(p) => p = agent
    BY DEF AdmitsAgent, AuthorityInv, GrantInv
  <2> QED
    BY <2>1, <2>2 DEF Authenticates, AdmitsAgent, AuthorityInv, GrantInv
<1>2. AuthorityInv => DrainHoldsSession
  BY DEF AuthorityInv, PhaseInv, DrainHoldsSession
<1>3. AuthorityInv => PublishedStatusIsRecorded
  BY DEF AuthorityInv, RecordInv, PublishedStatusIsRecorded, Told
<1>4. AuthorityInv => AuthorityHolds
  BY <1>1, <1>2, <1>3 DEF AuthorityHolds
<1> QED
  BY <1>4, AuthorityInvariant, PTL

\* Only dispatchInScope adds a dispatch to a run that was there before.
LEMMA OnlyDispatchDispatches ==
  ASSUME AuthorityInv, AuthorityNext, NEW t \in DOMAIN scopes,
         scopes'[t].dispatches > scopes[t].dispatches
  PROVE  DispatchInScope(t)
<1>1. \A u \in DOMAIN scopes : scopes[u] \in Scope /\ scopes[u].dispatches \in Nat
  BY ScopeFields DEF AuthorityInv, AuthorityTypeOK
<1>2. UNCHANGED scopes => FALSE
  BY <1>1
<1>3. ASSUME NEW u \in DOMAIN scopes, NEW new, scopes' = [scopes EXCEPT ![u] = new],
             new.dispatches = scopes[u].dispatches
      PROVE  FALSE
  BY <1>1, <1>3
<1>4. \A e : ~DelegateSession(e)
  BY <1>2 DEF DelegateSession
<1>5. ~Register /\ ~RemoveSession /\ ~TakeoverSession /\ ~Configure /\ ~ConfigureReplaces
  BY <1>2 DEF Register, RemoveSession, TakeoverSession, Configure, ConfigureReplaces
<1>6. ~PrepareResumeSession /\ ~InvalidatePrepared
  BY <1>2 DEF PrepareResumeSession, InvalidatePrepared, authorityVars
<1>7. ASSUME NEW u, NEW actor, NEW p, NEW op, NEW fp, Run(u, actor, p, op, fp) PROVE FALSE
  <2>1. u \notin DOMAIN scopes
    BY <1>7 DEF Run, Begin, IssueTicket, AuthorityInv, AuthorityTypeOK
  <2>2. scopes'[t] = scopes[t]
    BY <1>7, <2>1 DEF Run
  <2> QED
    BY <1>1, <2>2
<1>8. ASSUME NEW u \in DOMAIN scopes, TrackReadInScope(u) \/ SettleRead(u) PROVE FALSE
  <2>1. PICK n : scopes' = [scopes EXCEPT ![u] = [scopes[u] EXCEPT !.reads = n]]
    BY <1>8 DEF TrackReadInScope, SettleRead
  <2>2. [scopes[u] EXCEPT !.reads = n].dispatches = scopes[u].dispatches
    BY <1>1 DEF Scope
  <2> QED
    BY <1>3, <2>1, <2>2
<1>9. ASSUME NEW u \in DOMAIN scopes, SettleDispatch(u) PROVE FALSE
  <2>1. scopes' = [scopes EXCEPT ![u] = [scopes[u] EXCEPT !.dispatches = @ - 1]]
    BY <1>9 DEF SettleDispatch
  <2>2. [scopes[u] EXCEPT !.dispatches = @ - 1].dispatches = scopes[u].dispatches - 1
    BY <1>1 DEF Scope
  <2> QED
    BY <1>1, <2>1, <2>2
<1>10. ASSUME NEW u \in DOMAIN scopes, NEW sc, Conclude(u, sc), sc \in Scope,
              sc.dispatches = scopes[u].dispatches
       PROVE  FALSE
  <2>1. PICK s, f : \/ scopes' = [scopes EXCEPT ![u] = [sc EXCEPT !.status = s, !.phase = f]]
                    \/ scopes' = [scopes EXCEPT ![u] = Done(sc, s)]
    BY <1>10 DEF Conclude
  <2>2. /\ [sc EXCEPT !.status = s, !.phase = f].dispatches = sc.dispatches
        /\ Done(sc, s).dispatches = sc.dispatches
    BY <1>10 DEF Scope, Done
  <2> QED
    BY <1>3, <1>10, <2>1, <2>2
<1>11. ASSUME NEW u \in DOMAIN scopes, NEW outcome \in Outcomes, NEW publication \in BOOLEAN,
              FnEnds(u, outcome, publication)
       PROVE  FALSE
  <2> DEFINE sc == [scopes[u] EXCEPT !.open = FALSE, !.phase = "draining",
                                     !.status = ReturnStatus(u, outcome),
                                     !.publishes = publication /\ outcome # "throws"
                                                     /\ ScopeOwner(u)]
  <2>1. \/ Conclude(u, sc)
        \/ scopes' = [scopes EXCEPT ![u] = sc]
    BY <1>11 DEF FnEnds
  <2>2. ReturnStatus(u, outcome) \in Terminal
    BY UnfinishedType DEF ReturnStatus, Terminal
  <2>3. sc \in Scope /\ sc.dispatches = scopes[u].dispatches
    BY <1>1, <2>2 DEF Scope
  <2> HIDE DEF sc
  <2> QED
    BY <1>3, <1>10, <2>1, <2>3
<1>12. ASSUME NEW u \in DOMAIN scopes, Drained(u) PROVE FALSE
  BY <1>1, <1>10, <1>12 DEF Drained
<1>13. ASSUME NEW u \in DOMAIN scopes, EndPublication(u) PROVE FALSE
  <2>1. scopes' = [scopes EXCEPT ![u] = Done(scopes[u], scopes[u].status)]
    BY <1>13 DEF EndPublication
  <2>2. Done(scopes[u], scopes[u].status).dispatches = scopes[u].dispatches
    BY <1>1 DEF Scope, Done
  <2> QED
    BY <1>3, <2>1, <2>2
<1>14. ASSUME NEW u \in DOMAIN scopes, DispatchInScope(u), u # t PROVE FALSE
  BY <1>1, <1>14 DEF DispatchInScope
<1> QED
  BY <1>4, <1>5, <1>6, <1>7, <1>8, <1>9, <1>11, <1>12, <1>13, <1>14 DEF AuthorityNext

\* Every effect belongs to the live owner: its run is of the present registration, and
\* an agent's falls in the lifetime of its own grant (dispatchInScope, checkScopeOwner).
THEOREM EffectsAreOwners == AuthoritySpec => EffectsByCurrentOwner
<1>1. AuthorityInv /\ [AuthorityNext]_sessionVars =>
        [\A t \in DOMAIN scopes :
           scopes'[t].dispatches > scopes[t].dispatches =>
             /\ registered
             /\ scopes[t].inc = inc
             /\ IF tickets[t].actor = "agent"
                  THEN agent # NoAgent /\ agent.epoch = tickets[t].epoch /\ agent \in grants
                  ELSE agent = NoAgent]_sessionVars
  <2> SUFFICES ASSUME AuthorityInv, AuthorityNext, NEW t \in DOMAIN scopes,
                      scopes'[t].dispatches > scopes[t].dispatches
               PROVE  /\ registered
                      /\ scopes[t].inc = inc
                      /\ IF tickets[t].actor = "agent"
                           THEN /\ agent # NoAgent /\ agent.epoch = tickets[t].epoch
                                /\ agent \in grants
                           ELSE agent = NoAgent
    OBVIOUS
  <2>1. DispatchInScope(t)
    BY OnlyDispatchDispatches
  <2>2. /\ active = t /\ tickets[t].epoch = epoch /\ state \notin {"STOPPED", "PAUSE_REQUESTED"}
    BY <2>1 DEF DispatchInScope, AssertInScope, check
  <2>3. t # NoTicket
    BY ControlAssumption DEF AuthorityInv, AuthorityTypeOK, ControlTypeOK
  <2>4. scopes[t].inc = inc
    BY <2>2 DEF AuthorityInv, PhaseInv
  <2>5. registered
    BY <2>2, <2>3 DEF AuthorityInv, EntryInv
  <2>6. tickets[t].actor = "agent" <=> state = "AGENT_ACTIVE"
    BY <2>2, <2>3 DEF AuthorityInv, OwnerInv
  <2> QED
    BY <2>2, <2>4, <2>5, <2>6 DEF AuthorityInv, GrantInv
<1> QED
  BY <1>1, AuthorityInvariant, PTL DEF AuthoritySpec, EffectsByCurrentOwner

\* A pause waits for a run that is not over: what TakeoverDrains needs besides the
\* fairness of that run (takeover, finish).
PauseWaitsForRun ==
  state = "PAUSE_REQUESTED" => active \in DOMAIN scopes /\ scopes[active].phase # "done"

\* Whatever is registered meanwhile, the run a pause waits for is there, and not over.
THEOREM PauseWaits == AuthoritySpec => []PauseWaitsForRun
<1>1. AuthorityInv => PauseWaitsForRun
  BY DEF AuthorityInv, PauseHasOwner, PhaseInv, AuthorityTypeOK, ControlTypeOK, PauseWaitsForRun
<1> QED
  BY <1>1, AuthorityInvariant, PTL

\* A token that does not authenticate never does again, though epochs and sessions are
\* numbered anew by the next registration (authenticate, revoke, register).
RevokedForGood ==
  [][\A p \in issued : ~Authenticates(p) => ~(Authenticates(p)')]_sessionVars

\* A revoked token stays revoked over any number of registrations.
THEOREM RevokedStaysRevoked == AuthoritySpec => RevokedForGood
<1>1. AuthorityInv /\ AuthorityInv' /\ [AuthorityNext]_sessionVars =>
        [\A p \in issued : ~Authenticates(p) => ~(Authenticates(p)')]_sessionVars
  <2> SUFFICES ASSUME AuthorityInv, AuthorityInv', AuthorityNext, NEW p \in issued,
                      Authenticates(p)'
               PROVE  Authenticates(p)
    OBVIOUS
  <2>1. p = agent' /\ p \in grants' /\ p # NoAgent
    BY DEF Authenticates, AuthorityInv, GrantInv
  <2>2. ASSUME NEW e \in 0..MaxReview, DelegateSession(e) PROVE p = agent
    <3>1. agent'.generation = Cardinality(issued) + 1
      BY <2>2 DEF DelegateSession
    <3>2. p.generation \in 1..Cardinality(issued) /\ Cardinality(issued) \in Nat
      BY FS_CardinalityType DEF AuthorityInv, AuthorityTypeOK, GrantInv
    <3> QED
      BY <2>1, <3>1, <3>2
  <2>3. ASSUME \A e \in 0..MaxReview : ~DelegateSession(e) PROVE p = agent
    <3>1. agent' \in {agent, NoAgent}
      BY <2>3
      DEF AuthorityNext, Register, RemoveSession, TakeoverSession, PrepareResumeSession,
          InvalidatePrepared, Configure, ConfigureReplaces, revoke, authorityVars, Run,
          TrackReadInScope, DispatchInScope, SettleRead, SettleDispatch, FnEnds, Drained,
          EndPublication
    <3> QED
      BY <2>1, <3>1
  <2>4. p = agent /\ agent # NoAgent
    BY <2>1, <2>2, <2>3
  <2> QED
    BY <2>4 DEF Authenticates, authorizeAgent, AuthorityInv, GrantInv
<1> QED
  BY <1>1, AuthorityInvariant, PTL DEF AuthoritySpec, RevokedForGood

-------------------------------------------------------------------------------
(* The allocation behind a session.                                           *)

-----------------------------------------------------------------------------
(* The inductive invariant.                                                *)

\* A session id maps to a context made for it.
MapInv == \A id \in DOMAIN sessions : contexts[sessions[id]].id = id

\* An id under creation is reserved for one context, and maps to none.
PendingInv ==
  /\ pendingIds \cap DOMAIN sessions = {}
  /\ \A c \in DOMAIN contexts : contexts[c].stage = "allocating" => contexts[c].id \in pendingIds
  /\ \A c, d \in DOMAIN contexts :
       contexts[c].stage = "allocating" /\ contexts[d].stage = "allocating"
         /\ contexts[c].id = contexts[d].id => c = d

\* Which engine closes may be under way, and whose they are.
ClosesInv ==
  \A c \in DOMAIN contexts :
    /\ contexts[c].closing => contexts[c].outstanding = 1 /\ contexts[c].engine = "asked"
    /\ contexts[c].engine = "none" => contexts[c].outstanding = 0
    /\ Live(c) => /\ contexts[c].closing <=> contexts[c].state = "CLOSING"
                  /\ ~contexts[c].closing => contexts[c].outstanding = 0

\* What a shutdown under way has left, it waits for, or the service will refuse.
ShutdownInv ==
  /\ shutdown \in {"closing", "done"} =>
       \A c \in DOMAIN contexts :
         Live(c) => c \in shutdownWaits \/ contexts[c].stage = "registered"
  /\ shutdown = "done" => shutdownWaits = {}

CoordinatorInv ==
  /\ CoordinatorTypeOK
  /\ MapInv
  /\ PendingInv
  /\ ClosesInv
  /\ ShutdownInv
  /\ NoEngineLeak
  /\ ClosedOnceCancelled
  /\ TerminalNotLive

-----------------------------------------------------------------------------
(* What the helpers do.                                                    *)

\* Contexts and sessions as the types have them.
LEMMA Typed ==
  ASSUME CoordinatorInv, NEW c \in DOMAIN contexts
  PROVE  /\ contexts[c] \in Context /\ contexts[c].id \in Ids
         /\ contexts[c].outstanding \in Nat
<1>1. contexts[c] \in Context
  BY DEF CoordinatorInv, CoordinatorTypeOK
<1> QED
  BY <1>1 DEF Context

\* One context changes, under the same id, and no session goes.
LEMMA SetEffect ==
  ASSUME CoordinatorInv, NEW c \in DOMAIN contexts, NEW r \in Context, r.id = contexts[c].id,
         SetContext(c, r)
  PROVE  /\ contexts' \in Seq(Context)
         /\ DOMAIN contexts' = DOMAIN contexts
         /\ contexts'[c] = r
         /\ \A d \in DOMAIN contexts : d # c => contexts'[d] = contexts[d]
         /\ \A d \in DOMAIN contexts : contexts'[d].id = contexts[d].id
BY DEF CoordinatorInv, CoordinatorTypeOK, SetContext

\* The contexts of C are gone from the map, the others are where they were.
LEMMA WithoutEffect ==
  ASSUME CoordinatorInv, NEW C, sessions' = Without(C),
         DOMAIN contexts' = DOMAIN contexts,
         \A d \in DOMAIN contexts : contexts'[d].id = contexts[d].id
  PROVE  /\ DOMAIN sessions' = {i \in DOMAIN sessions : sessions[i] \notin C}
         /\ \A i \in DOMAIN sessions' : sessions'[i] = sessions[i]
         /\ \A d \in DOMAIN contexts : Live(d)' <=> Live(d) /\ d \notin C
BY DEF Without, Live

LEMMA SameMap ==
  ASSUME CoordinatorInv, UNCHANGED sessions,
         DOMAIN contexts' = DOMAIN contexts,
         \A d \in DOMAIN contexts : contexts'[d].id = contexts[d].id
  PROVE  \A d \in DOMAIN contexts : Live(d)' <=> Live(d)
BY DEF Live

\* What an ended context looks like.
LEMMA EndedIs ==
  ASSUME NEW r \in Context, NEW st \in States
  PROVE  /\ Ended(r, st) \in Context
         /\ Ended(r, st).id = r.id /\ Ended(r, st).stage = r.stage
         /\ Ended(r, st).state = st /\ Ended(r, st).aborted /\ Ended(r, st).engine = "asked"
         /\ Ended(r, st).closing = r.closing
         /\ Ended(r, st).outstanding =
              IF r.state = "CLOSING" THEN r.outstanding ELSE r.outstanding + 1
<1>1. r.outstanding \in Nat /\ r.stage \in Stages
  BY DEF Context
<1>2. Ended(r, st).outstanding \in Nat
      /\ Ended(r, st).outstanding =
           IF r.state = "CLOSING" THEN r.outstanding ELSE r.outstanding + 1
  BY <1>1 DEF Ended, Context
<1>3. /\ Ended(r, st).id = r.id /\ Ended(r, st).stage = r.stage
      /\ Ended(r, st).state = st /\ Ended(r, st).aborted /\ Ended(r, st).engine = "asked"
      /\ Ended(r, st).closing = r.closing
  BY DEF Ended, Context
<1>4. Ended(r, st) \in Context
  BY <1>1, <1>2 DEF Ended, Context
<1> QED
  BY <1>2, <1>3, <1>4

\* expire, terminateContext and shutdown end live contexts.
LEMMA EndEffect ==
  ASSUME CoordinatorInv, NEW C \in SUBSET DOMAIN contexts, NEW st \in States, End(C, st)
  PROVE  /\ contexts' \in Seq(Context)
         /\ DOMAIN contexts' = DOMAIN contexts
         /\ \A d \in DOMAIN contexts :
              contexts'[d] = IF d \in C THEN Ended(contexts[d], st) ELSE contexts[d]
         /\ \A d \in DOMAIN contexts : contexts'[d].id = contexts[d].id
<1>1. contexts' = [c \in DOMAIN contexts |->
                     IF c \in C THEN Ended(contexts[c], st) ELSE contexts[c]]
  BY DEF End
<1>2. \A c \in DOMAIN contexts : contexts'[c] \in Context /\ contexts'[c].id = contexts[c].id
  BY <1>1, Typed, EndedIs
<1>3. contexts \in Seq(Context) /\ DOMAIN contexts = 1 .. Len(contexts) /\ Len(contexts) \in Nat
  BY DEF CoordinatorInv, CoordinatorTypeOK
<1>4. contexts' \in Seq(Context)
  BY <1>1, <1>2, <1>3
<1> QED
  BY <1>1, <1>2, <1>4

\* Records are made for ids that were recorded or ended now.
LEMMA RecordEffect ==
  ASSUME NEW C, Record(C)
  PROVE  terminal' \subseteq terminal \cup {contexts[c].id : c \in C}
BY DEF Record

-----------------------------------------------------------------------------
(* The steps.                                                              *)

LEMMA AllocationsInitInv == CoordinatorInit => CoordinatorInv
<1> SUFFICES ASSUME CoordinatorInit PROVE CoordinatorInv
  OBVIOUS
<1>1. DOMAIN contexts = {} /\ DOMAIN sessions = {} /\ contexts \in Seq(Context)
  BY DEF CoordinatorInit
<1> QED
  BY <1>1 DEF CoordinatorInit, CoordinatorInv, CoordinatorTypeOK, MapInv, PendingInv, ClosesInv,
     ShutdownInv, NoEngineLeak, ClosedOnceCancelled, TerminalNotLive

\* Ending live contexts keeps everything, whoever asked for it.
LEMMA EndInv ==
  ASSUME CoordinatorInv, NEW C \in SUBSET DOMAIN contexts, NEW st \in States \ {"CLOSING"},
         End(C, st), \A c \in C : Live(c),
         Record(C) \/ UNCHANGED terminal, pendingIds' = pendingIds
  PROVE  /\ contexts' \in Seq(Context) /\ DOMAIN contexts' = DOMAIN contexts
         /\ DOMAIN sessions' \subseteq Ids
         /\ \A id \in DOMAIN sessions' : sessions'[id] \in DOMAIN contexts'
         /\ terminal' \subseteq Ids
         /\ MapInv' /\ PendingInv' /\ ClosesInv' /\ NoEngineLeak' /\ ClosedOnceCancelled'
         /\ TerminalNotLive'
         /\ \A d \in DOMAIN contexts :
              /\ contexts'[d].stage = contexts[d].stage
              /\ Live(d)' <=> Live(d) /\ d \notin C
<1>1. /\ contexts' \in Seq(Context)
      /\ DOMAIN contexts' = DOMAIN contexts
      /\ \A d \in DOMAIN contexts :
           contexts'[d] = IF d \in C THEN Ended(contexts[d], st) ELSE contexts[d]
      /\ \A d \in DOMAIN contexts : contexts'[d].id = contexts[d].id
  BY EndEffect
<1>2. /\ DOMAIN sessions' = {i \in DOMAIN sessions : sessions[i] \notin C}
      /\ \A i \in DOMAIN sessions' : sessions'[i] = sessions[i]
      /\ \A d \in DOMAIN contexts : Live(d)' <=> Live(d) /\ d \notin C
  BY <1>1, WithoutEffect DEF End
<1>3. \A d \in DOMAIN contexts :
        contexts[d] \in Context /\ contexts[d].id \in Ids /\ contexts[d].outstanding \in Nat
  BY Typed
<1>4. \A d \in C : /\ contexts'[d].stage = contexts[d].stage /\ contexts'[d].aborted
                   /\ contexts'[d].engine = "asked" /\ contexts'[d].closing = contexts[d].closing
                   /\ contexts'[d].outstanding = 1
  <2> SUFFICES ASSUME NEW d \in C
               PROVE  /\ contexts'[d].stage = contexts[d].stage /\ contexts'[d].aborted
                      /\ contexts'[d].engine = "asked"
                      /\ contexts'[d].closing = contexts[d].closing
                      /\ contexts'[d].outstanding = 1
    OBVIOUS
  <2>1. Live(d) /\ (contexts[d].closing <=> contexts[d].state = "CLOSING")
        /\ (contexts[d].closing => contexts[d].outstanding = 1)
        /\ (~contexts[d].closing => contexts[d].outstanding = 0)
    BY DEF CoordinatorInv, ClosesInv
  <2> QED
    BY <1>1, <1>3, <2>1, EndedIs
<1>5. terminal' \subseteq Ids /\ TerminalNotLive'
  <2>1. terminal' \subseteq terminal \cup {contexts[c].id : c \in C}
    BY RecordEffect
  <2>2. \A c \in C : contexts[c].id \notin DOMAIN sessions'
    BY <1>2 DEF Live
  <2> QED
    BY <1>2, <1>3, <2>1, <2>2 DEF CoordinatorInv, CoordinatorTypeOK, TerminalNotLive
<1>6. /\ DOMAIN sessions' \subseteq Ids
      /\ \A id \in DOMAIN sessions' : sessions'[id] \in DOMAIN contexts'
  BY <1>1, <1>2 DEF CoordinatorInv, CoordinatorTypeOK
<1>7. MapInv'
  BY <1>1, <1>2, <1>6 DEF CoordinatorInv, CoordinatorTypeOK, MapInv
<1>8. \A d \in DOMAIN contexts : contexts'[d].stage = contexts[d].stage
  BY <1>1, <1>4
<1>9. PendingInv'
  BY <1>1, <1>2, <1>8 DEF CoordinatorInv, PendingInv
<1>10. ClosesInv' /\ NoEngineLeak' /\ ClosedOnceCancelled'
  BY <1>1, <1>2, <1>3, <1>4 DEF CoordinatorInv, ClosesInv, NoEngineLeak, ClosedOnceCancelled
<1> QED
  BY <1>1, <1>2, <1>5, <1>6, <1>7, <1>8, <1>9, <1>10

\* One context moves on and the map stays: what has to be looked at is that context.
LEMMA SetContextInv ==
  ASSUME CoordinatorInv, NEW c \in DOMAIN contexts, NEW r \in Context, SetContext(c, r),
         r.id = contexts[c].id,
         UNCHANGED <<sessions, terminal, shutdown, shutdownWaits>>,
         r.stage = "allocating" => contexts[c].stage = "allocating",
         \/ pendingIds' = pendingIds
         \/ /\ pendingIds' = pendingIds \ {r.id}
            /\ contexts[c].stage = "allocating" /\ r.stage # "allocating",
         r.stage = contexts[c].stage \/ contexts[c].stage # "registered" \/ shutdown = "no"
           \/ ~Live(c),
         r.closing => r.outstanding = 1 /\ r.engine = "asked",
         r.engine = "none" => r.outstanding = 0,
         Live(c) => (r.closing <=> r.state = "CLOSING") /\ (~r.closing => r.outstanding = 0),
         r.engine = "open" => Live(c),
         r.outstanding <= 1,
         r.engine = "asked" => r.aborted
  PROVE  CoordinatorInv'
<1>1. /\ contexts' \in Seq(Context)
      /\ DOMAIN contexts' = DOMAIN contexts
      /\ contexts'[c] = r
      /\ \A d \in DOMAIN contexts : d # c => contexts'[d] = contexts[d]
      /\ \A d \in DOMAIN contexts : contexts'[d].id = contexts[d].id
  BY SetEffect
<1>2. \A d \in DOMAIN contexts : Live(d)' <=> Live(d)
  BY <1>1, SameMap
<1>3. CoordinatorTypeOK'
  BY <1>1 DEF CoordinatorInv, CoordinatorTypeOK
<1>4. MapInv'
  BY <1>1 DEF CoordinatorInv, CoordinatorTypeOK, MapInv
<1>5. PendingInv'
  BY <1>1 DEF CoordinatorInv, PendingInv
<1>6. ClosesInv' /\ NoEngineLeak' /\ ClosedOnceCancelled'
  BY <1>1, <1>2 DEF CoordinatorInv, ClosesInv, NoEngineLeak, ClosedOnceCancelled
<1>7. ShutdownInv'
  BY <1>1, <1>2 DEF CoordinatorInv, ShutdownInv
<1>8. TerminalNotLive'
  BY DEF CoordinatorInv, TerminalNotLive
<1> QED
  BY <1>3, <1>4, <1>5, <1>6, <1>7, <1>8 DEF CoordinatorInv

\* One live context leaves the map.
LEMMA GoneInv ==
  ASSUME CoordinatorInv, NEW c \in DOMAIN contexts, Live(c), NEW r \in Context, SetContext(c, r),
         r.id = contexts[c].id, sessions' = Without({c}),
         Record({c}) \/ UNCHANGED terminal,
         UNCHANGED <<pendingIds, shutdown, shutdownWaits>>,
         r.stage = "allocating" => contexts[c].stage = "allocating",
         r.closing => r.outstanding = 1,
         r.engine = "asked" /\ r.aborted /\ r.outstanding <= 1
  PROVE  CoordinatorInv'
<1>1. /\ contexts' \in Seq(Context)
      /\ DOMAIN contexts' = DOMAIN contexts
      /\ contexts'[c] = r
      /\ \A d \in DOMAIN contexts : d # c => contexts'[d] = contexts[d]
      /\ \A d \in DOMAIN contexts : contexts'[d].id = contexts[d].id
  BY SetEffect
<1>2. /\ DOMAIN sessions' = {i \in DOMAIN sessions : sessions[i] # c}
      /\ \A i \in DOMAIN sessions' : sessions'[i] = sessions[i]
      /\ \A d \in DOMAIN contexts : Live(d)' <=> Live(d) /\ d # c
  <2>1. /\ DOMAIN sessions' = {i \in DOMAIN sessions : sessions[i] \notin {c}}
        /\ \A i \in DOMAIN sessions' : sessions'[i] = sessions[i]
        /\ \A d \in DOMAIN contexts : Live(d)' <=> Live(d) /\ d \notin {c}
    BY <1>1, WithoutEffect
  <2> QED
    BY <2>1
<1>3. terminal' \subseteq Ids /\ TerminalNotLive'
  <2>1. terminal' \subseteq terminal \cup {contexts[c].id}
    BY RecordEffect
  <2>2. contexts[c].id \notin DOMAIN sessions' /\ contexts[c].id \in Ids
    BY <1>2, Typed DEF Live
  <2> QED
    BY ZenonT(60), <1>2, <2>1, <2>2 DEF CoordinatorInv, CoordinatorTypeOK, TerminalNotLive
<1>4. CoordinatorTypeOK'
  BY <1>1, <1>2, <1>3 DEF CoordinatorInv, CoordinatorTypeOK
<1>5. MapInv'
  <2> SUFFICES ASSUME NEW i \in DOMAIN sessions' PROVE contexts'[sessions'[i]].id = i
    BY DEF MapInv
  <2>1. i \in DOMAIN sessions /\ sessions'[i] = sessions[i] /\ sessions[i] \in DOMAIN contexts
    BY <1>2 DEF CoordinatorInv, CoordinatorTypeOK
  <2> QED
    BY <1>1, <2>1 DEF CoordinatorInv, MapInv
<1>6. PendingInv'
  BY <1>1, <1>2 DEF CoordinatorInv, PendingInv
<1>7. ClosesInv' /\ NoEngineLeak' /\ ClosedOnceCancelled'
  BY <1>1, <1>2 DEF CoordinatorInv, ClosesInv, NoEngineLeak, ClosedOnceCancelled
<1>8. ShutdownInv'
  BY <1>1, <1>2 DEF CoordinatorInv, ShutdownInv
<1> QED
  BY <1>3, <1>4, <1>5, <1>6, <1>7, <1>8 DEF CoordinatorInv

\* A creation reserves an id that is neither live nor reserved.
LEMMA CreateInv ==
  ASSUME CoordinatorInv, NEW id \in Ids, Create(id)
  PROVE  CoordinatorInv'
<1> DEFINE r == [id |-> id, stage |-> "allocating", state |-> "CREATING", aborted |-> FALSE,
                 over |-> FALSE, idle |-> FALSE, engine |-> "none",
                 outstanding |-> 0, closing |-> FALSE]
<1>n. PICK n \in Nat : n = Len(contexts) + 1
  BY DEF CoordinatorInv, CoordinatorTypeOK
<1>1. /\ r \in Context /\ r.id = id /\ r.stage = "allocating" /\ r.engine = "none"
      /\ r.outstanding = 0 /\ r.closing = FALSE
  BY DEF Context, States, Stages
<1>2. /\ contexts' = Append(contexts, r) /\ pendingIds' = pendingIds \cup {id}
      /\ UNCHANGED <<sessions, terminal, shutdown, shutdownWaits>>
      /\ id \notin DOMAIN sessions \cup pendingIds
  BY DEF Create
<1> HIDE DEF r
<1>3. /\ contexts' \in Seq(Context) /\ DOMAIN contexts' = DOMAIN contexts \cup {n}
      /\ n \notin DOMAIN contexts /\ contexts'[n] = r
      /\ \A d \in DOMAIN contexts : contexts'[d] = contexts[d]
  BY <1>1, <1>2, <1>n DEF CoordinatorInv, CoordinatorTypeOK
<1>4. /\ \A d \in DOMAIN contexts : Live(d)' <=> Live(d)
      /\ ~Live(n)'
  <2>1. \A d \in DOMAIN contexts : Live(d)' <=> Live(d)
    BY <1>2, <1>3 DEF Live
  <2>2. ~Live(n)'
    BY <1>1, <1>2, <1>3 DEF Live
  <2> QED
    BY <2>1, <2>2
<1>5. CoordinatorTypeOK'
  BY <1>2, <1>3 DEF CoordinatorInv, CoordinatorTypeOK
<1>6. MapInv' /\ TerminalNotLive'
  BY <1>2, <1>3 DEF CoordinatorInv, CoordinatorTypeOK, MapInv, TerminalNotLive
<1>7. PendingInv'
  BY <1>1, <1>2, <1>3 DEF CoordinatorInv, PendingInv
<1>8. ClosesInv' /\ NoEngineLeak' /\ ClosedOnceCancelled'
  BY <1>1, <1>3, <1>4 DEF CoordinatorInv, ClosesInv, NoEngineLeak, ClosedOnceCancelled
<1>9. ShutdownInv'
  BY <1>2, <1>3, <1>4 DEF CoordinatorInv, ShutdownInv
<1> QED
  BY <1>5, <1>6, <1>7, <1>8, <1>9 DEF CoordinatorInv

\* A registration takes an id that maps to nothing: no session is lost under it.
LEMMA EngineCreatesInv ==
  ASSUME CoordinatorInv, NEW c \in DOMAIN contexts, EngineCreates(c)
  PROVE  CoordinatorInv'
<1> DEFINE r == [contexts[c] EXCEPT !.stage = "registered", !.state = "LIVE", !.engine = "open"]
           id == contexts[c].id
<1>1. /\ contexts[c].stage = "allocating" /\ contexts[c].engine = "none" /\ SetContext(c, r)
      /\ sessions' = [i \in DOMAIN sessions \cup {id} |-> IF i = id THEN c ELSE sessions[i]]
      /\ pendingIds' = pendingIds \ {id} /\ terminal' = terminal \ {id}
      /\ UNCHANGED <<shutdown, shutdownWaits>>
  BY DEF EngineCreates
<1>2. contexts[c] \in Context /\ id \in Ids /\ contexts[c].outstanding = 0 /\ ~contexts[c].closing
      /\ id \in pendingIds /\ id \notin DOMAIN sessions
  BY <1>1, Typed DEF CoordinatorInv, ClosesInv, PendingInv
<1>3. /\ r \in Context /\ r.id = id /\ r.stage = "registered" /\ r.state = "LIVE"
      /\ r.engine = "open" /\ r.outstanding = 0 /\ ~r.closing
  BY <1>2 DEF Context, Stages, States
<1> HIDE DEF r
<1>4. /\ contexts' \in Seq(Context)
      /\ DOMAIN contexts' = DOMAIN contexts
      /\ contexts'[c] = r
      /\ \A d \in DOMAIN contexts : d # c => contexts'[d] = contexts[d]
      /\ \A d \in DOMAIN contexts : contexts'[d].id = contexts[d].id
  BY <1>1, <1>3, SetEffect
<1>5. /\ DOMAIN sessions' = DOMAIN sessions \cup {id} /\ sessions'[id] = c
      /\ \A i \in DOMAIN sessions : sessions'[i] = sessions[i]
  BY <1>1, <1>2
<1>6. Live(c)' /\ \A d \in DOMAIN contexts : d # c => (Live(d)' <=> Live(d))
  BY <1>2, <1>4, <1>5 DEF Live, CoordinatorInv, MapInv
<1>7. CoordinatorTypeOK'
  BY <1>1, <1>2, <1>4, <1>5 DEF CoordinatorInv, CoordinatorTypeOK
<1>8. MapInv' /\ TerminalNotLive'
  BY <1>1, <1>2, <1>4, <1>5 DEF CoordinatorInv, CoordinatorTypeOK, MapInv, TerminalNotLive
<1>9. PendingInv'
  BY <1>1, <1>3, <1>4, <1>5 DEF CoordinatorInv, PendingInv
<1>10. ClosesInv' /\ NoEngineLeak' /\ ClosedOnceCancelled'
  BY SMTT(30), <1>3, <1>4, <1>6 DEF CoordinatorInv, ClosesInv, NoEngineLeak, ClosedOnceCancelled
<1>11. ShutdownInv'
  BY <1>1, <1>3, <1>4, <1>6 DEF CoordinatorInv, ShutdownInv
<1> QED
  BY <1>7, <1>8, <1>9, <1>10, <1>11 DEF CoordinatorInv

\* What each context satisfies, in one place.
LEMMA ContextFacts ==
  ASSUME CoordinatorInv, NEW c \in DOMAIN contexts
  PROVE  /\ contexts[c] \in Context
         /\ contexts[c].outstanding \in Nat /\ contexts[c].outstanding <= 1
         /\ contexts[c].closing => contexts[c].outstanding = 1 /\ contexts[c].engine = "asked"
         /\ contexts[c].engine = "none" => contexts[c].outstanding = 0 /\ ~contexts[c].closing
         /\ contexts[c].engine = "open" => Live(c)
         /\ contexts[c].engine = "asked" => contexts[c].aborted
         /\ Live(c) => /\ contexts[c].closing <=> contexts[c].state = "CLOSING"
                       /\ ~contexts[c].closing => contexts[c].outstanding = 0
                       /\ contexts[c].stage # "allocating"
BY Typed DEF CoordinatorInv, ClosesInv, NoEngineLeak, ClosedOnceCancelled, PendingInv, Live

\* The service refuses a session: it is ended if it is still the owner of its id.
LEMMA RefuseInv ==
  ASSUME CoordinatorInv, NEW c \in DOMAIN contexts, Refuse(c), contexts[c].stage # "allocating"
  PROVE  CoordinatorInv'
<1>1. CASE Live(c)
  <2> DEFINE st == IF Expired(c) THEN "EXPIRED" ELSE "CLOSED"
             r == [Ended(contexts[c], st) EXCEPT !.stage = "refused"]
  <2>1. /\ sessions' = Without({c}) /\ SetContext(c, r)
        /\ Record({c}) \/ UNCHANGED terminal
        /\ UNCHANGED <<pendingIds, shutdown, shutdownWaits>>
    BY <1>1 DEF Refuse
  <2>2. st \in States
    BY DEF States
  <2> HIDE DEF st
  <2> DEFINE e == Ended(contexts[c], st)
  <2>3. /\ e \in Context /\ e.id = contexts[c].id /\ e.aborted /\ e.engine = "asked"
        /\ e.closing = contexts[c].closing /\ e.outstanding = 1
    BY <1>1, <2>2, ContextFacts, EndedIs
  <2> HIDE DEF e
  <2>4. r = [e EXCEPT !.stage = "refused"]
    BY DEF e
  <2> HIDE DEF r
  <2>5. /\ r \in Context /\ r.id = contexts[c].id /\ r.aborted /\ r.engine = "asked"
        /\ r.outstanding = 1 /\ r.stage = "refused"
    BY <2>3, <2>4 DEF Context, Stages
  <2> QED
    BY <1>1, <2>1, <2>5, GoneInv
<1>2. CASE ~Live(c)
  <2> DEFINE r == [contexts[c] EXCEPT !.stage = "refused"]
  <2>1. SetContext(c, r) /\ UNCHANGED <<sessions, terminal, pendingIds, shutdown, shutdownWaits>>
    BY <1>2 DEF Refuse
  <2>2. /\ r \in Context /\ r.id = contexts[c].id /\ r.stage = "refused"
        /\ r.closing = contexts[c].closing /\ r.outstanding = contexts[c].outstanding
        /\ r.engine = contexts[c].engine /\ r.aborted = contexts[c].aborted
    BY ContextFacts DEF Context, Stages
  <2> HIDE DEF r
  <2> QED
    BY <1>2, <2>1, <2>2, ContextFacts, SetContextInv
<1> QED
  BY <1>1, <1>2

\* Steps of a creation, of the service over it, and of the clock.
LEMMA CreationInv ==
  ASSUME CoordinatorInv, NEW c \in DOMAIN contexts,
         EngineRefuses(c) \/ EngineCreatesUnusable(c) \/ ServiceChecks(c)
           \/ InitializationFails(c) \/ ServiceAdopts(c) \/ LifetimeEnds(c) \/ IdleTooLong(c)
  PROVE  CoordinatorInv'
<1> DEFINE o == contexts[c]
<1>c. /\ o \in Context
      /\ o.outstanding \in Nat /\ o.outstanding <= 1
      /\ o.closing => o.outstanding = 1 /\ o.engine = "asked"
      /\ o.engine = "none" => o.outstanding = 0 /\ ~o.closing
      /\ o.engine = "open" => Live(c)
      /\ o.engine = "asked" => o.aborted
      /\ Live(c) => /\ o.closing <=> o.state = "CLOSING"
                    /\ ~o.closing => o.outstanding = 0
                    /\ o.stage # "allocating"
  BY ContextFacts
<1>1. CASE EngineRefuses(c)
  <2> DEFINE r == [contexts[c] EXCEPT !.stage = "refused"]
  <2>1. /\ SetContext(c, r) /\ pendingIds' = pendingIds \ {o.id} /\ o.stage = "allocating"
        /\ UNCHANGED <<sessions, terminal, shutdown, shutdownWaits>>
    BY <1>1 DEF EngineRefuses
  <2>2. /\ r \in Context /\ r.id = o.id /\ r.stage = "refused" /\ r.closing = o.closing
        /\ r.outstanding = o.outstanding /\ r.engine = o.engine /\ r.aborted = o.aborted
        /\ r.state = o.state
    BY <1>c DEF Context, Stages
  <2> HIDE DEF r
  <2> QED
    BY <1>c, <2>1, <2>2, SetContextInv
<1>2. CASE EngineCreatesUnusable(c)
  <2> DEFINE r == [contexts[c] EXCEPT !.engine = "asked", !.outstanding = 1, !.aborted = TRUE]
  <2>1. /\ SetContext(c, r) /\ o.stage = "allocating" /\ o.engine = "none"
        /\ UNCHANGED <<sessions, terminal, pendingIds, shutdown, shutdownWaits>>
    BY <1>2 DEF EngineCreatesUnusable
  <2>2. /\ r \in Context /\ r.id = o.id /\ r.stage = o.stage /\ r.closing = o.closing
        /\ r.outstanding = 1 /\ r.engine = "asked" /\ r.aborted
    BY <1>c DEF Context
  <2> HIDE DEF r
  <2> QED
    BY <1>c, <2>1, <2>2, SetContextInv
<1>3. CASE \/ ServiceChecks(c) /\ shutdown = "no" /\ Owned(c)
           \/ ServiceAdopts(c) /\ Owned(c)
  <2> DEFINE st == IF o.stage = "registered" THEN "initializing" ELSE "adopted"
             r == [contexts[c] EXCEPT !.stage = st]
  <2>1. /\ SetContext(c, r)
        /\ o.stage = "registered" => shutdown = "no"
        /\ UNCHANGED <<sessions, terminal, pendingIds, shutdown, shutdownWaits>>
    BY <1>3 DEF ServiceChecks, ServiceAdopts
  <2>2. /\ r \in Context /\ r.id = o.id /\ r.stage \in {"initializing", "adopted"}
        /\ r.closing = o.closing /\ r.outstanding = o.outstanding /\ r.engine = o.engine
        /\ r.aborted = o.aborted /\ r.state = o.state
    BY <1>c DEF Context, Stages
  <2> HIDE DEF r
  <2> QED
    BY <1>c, <2>1, <2>2, SetContextInv
<1>4. CASE Refuse(c) /\ o.stage # "allocating"
  BY <1>4, RefuseInv
<1>5. CASE LifetimeEnds(c) \/ IdleTooLong(c)
  <2>1. PICK r : /\ SetContext(c, r)
                 /\ r = [contexts[c] EXCEPT !.over = TRUE] \/ r = [contexts[c] EXCEPT !.idle = TRUE]
    BY <1>5 DEF LifetimeEnds, IdleTooLong
  <2>2. /\ r \in Context /\ r.id = o.id /\ r.stage = o.stage
        /\ r.closing = o.closing /\ r.outstanding = o.outstanding /\ r.engine = o.engine
        /\ r.aborted = o.aborted /\ r.state = o.state
    BY <1>c, <2>1 DEF Context
  <2>3. UNCHANGED <<sessions, terminal, pendingIds, shutdown, shutdownWaits>>
    BY <1>5 DEF LifetimeEnds, IdleTooLong
  <2> QED
    BY <1>c, <2>1, <2>2, <2>3, SetContextInv
<1> QED
  BY <1>1, <1>2, <1>3, <1>4, <1>5 DEF ServiceChecks, InitializationFails, ServiceAdopts

\* A close that settles, its owner's or the best effort of an ending.
LEMMA SettleInv ==
  ASSUME CoordinatorInv, NEW c \in DOMAIN contexts,
         CloseSettles(c) \/ \E ok \in BOOLEAN : OwnedCloseSettles(c, ok)
  PROVE  CoordinatorInv'
<1> DEFINE o == contexts[c]
<1>c. /\ o \in Context
      /\ o.outstanding \in Nat /\ o.outstanding <= 1
      /\ o.closing => o.outstanding = 1 /\ o.engine = "asked"
      /\ o.engine = "none" => o.outstanding = 0 /\ ~o.closing
      /\ o.engine = "open" => Live(c)
      /\ o.engine = "asked" => o.aborted
      /\ Live(c) => /\ o.closing <=> o.state = "CLOSING"
                    /\ ~o.closing => o.outstanding = 0
                    /\ o.stage # "allocating"
  BY ContextFacts
<1>1. CASE CloseSettles(c)
  <2> DEFINE st == IF o.stage = "allocating" THEN "refused" ELSE o.stage
             r == [contexts[c] EXCEPT !.outstanding = 0, !.stage = st]
  <2>0. o.outstanding = 1 /\ o.outstanding - 1 = 0
    BY <1>1, <1>c DEF CloseSettles
  <2>1. /\ SetContext(c, r) /\ ~o.closing /\ ~Live(c)
        /\ pendingIds' = IF o.stage = "allocating" THEN pendingIds \ {o.id} ELSE pendingIds
        /\ UNCHANGED <<sessions, terminal, shutdown, shutdownWaits>>
    BY <1>1, <1>c, <2>0 DEF CloseSettles
  <2>3. st # "allocating" /\ st \in Stages
    BY <1>c DEF Context, Stages
  <2> HIDE DEF st
  <2>2. /\ r \in Context /\ r.id = o.id /\ r.stage = st /\ r.closing = o.closing
        /\ r.outstanding = 0 /\ r.engine = o.engine /\ r.aborted = o.aborted
    BY <1>c, <2>3 DEF Context
  <2> HIDE DEF r
  <2> QED
    BY <1>c, <2>1, <2>2, <2>3, SetContextInv
<1>2. CASE \E ok \in BOOLEAN : OwnedCloseSettles(c, ok)
  <2>1. PICK ok \in BOOLEAN : OwnedCloseSettles(c, ok)
    BY <1>2
  <2> DEFINE st == IF ok THEN "CLOSED" ELSE "ENGINE_CRASHED"
             r == [contexts[c] EXCEPT !.outstanding = 0, !.closing = FALSE, !.state = st]
  <2>a. o.closing
    BY <2>1 DEF OwnedCloseSettles
  <2>0. o.closing /\ o.outstanding - 1 = 0
    BY <2>a, <1>c
  <2>2. /\ SetContext(c, r) /\ o.closing
        /\ IF ok /\ Live(c)
             THEN sessions' = Without({c}) /\ Record({c})
             ELSE UNCHANGED <<sessions, terminal>>
        /\ UNCHANGED <<pendingIds, shutdown, shutdownWaits>>
    BY <2>0, <2>1 DEF OwnedCloseSettles
  <2>3. st \in States \ {"CLOSING"}
    BY DEF States
  <2> HIDE DEF st
  <2>4. /\ r \in Context /\ r.id = o.id /\ r.stage = o.stage /\ ~r.closing
        /\ r.outstanding = 0 /\ r.engine = "asked" /\ r.aborted /\ r.state # "CLOSING"
    BY <1>c, <2>2, <2>3 DEF Context
  <2> HIDE DEF r
  <2>5. CASE ok /\ Live(c)
    BY <2>2, <2>4, <2>5, GoneInv
  <2>6. CASE ~(ok /\ Live(c))
    BY <1>c, <2>2, <2>4, <2>6, SetContextInv
  <2> QED
    BY <2>5, <2>6
<1> QED
  BY <1>1, <1>2

\* A live session of an id: the context it maps to.
LEMMA Mapped ==
  ASSUME CoordinatorInv, NEW id \in DOMAIN sessions
  PROVE  sessions[id] \in DOMAIN contexts /\ Live(sessions[id])
BY DEF CoordinatorInv, CoordinatorTypeOK, MapInv, Live

LEMMA LifeInv ==
  ASSUME CoordinatorInv, NEW id \in Ids,
         UpdateActivity(id) \/ Close(id)
  PROVE  CoordinatorInv'
<1>id. id \in DOMAIN sessions
  BY DEF UpdateActivity, Close
<1>p. PICK c \in DOMAIN contexts : c = sessions[id]
  BY <1>id, Mapped
<1> DEFINE o == contexts[c]
<1>c. /\ o \in Context /\ Live(c)
      /\ o.outstanding \in Nat /\ o.outstanding <= 1
      /\ o.closing => o.outstanding = 1 /\ o.engine = "asked"
      /\ o.engine = "none" => o.outstanding = 0 /\ ~o.closing
      /\ o.engine = "asked" => o.aborted
      /\ o.closing <=> o.state = "CLOSING"
      /\ ~o.closing => o.outstanding = 0
      /\ o.stage # "allocating"
  BY <1>id, <1>p, Mapped, ContextFacts
<1>1. CASE UpdateActivity(id)
  <2> DEFINE r == [contexts[c] EXCEPT !.idle = FALSE]
  <2>1. /\ SetContext(c, r)
        /\ UNCHANGED <<sessions, terminal, pendingIds, shutdown, shutdownWaits>>
    BY <1>1, <1>p DEF UpdateActivity
  <2>2. /\ r \in Context /\ r.id = o.id /\ r.stage = o.stage
        /\ r.closing = o.closing /\ r.outstanding = o.outstanding /\ r.engine = o.engine
        /\ r.aborted = o.aborted /\ r.state = o.state
    BY <1>c DEF Context
  <2> HIDE DEF r
  <2> QED
    BY <1>c, <2>1, <2>2, SetContextInv
<1>2. CASE Close(id)
  <2> DEFINE r == [contexts[c] EXCEPT !.state = "CLOSING", !.aborted = TRUE,
                      !.engine = "asked", !.outstanding = 1, !.closing = TRUE]
  <2>0. ~o.closing /\ o.outstanding + 1 = 1
    BY <1>2, <1>p, <1>c DEF Close
  <2>1. /\ SetContext(c, r) /\ ~o.closing
        /\ UNCHANGED <<sessions, terminal, pendingIds, shutdown, shutdownWaits>>
    BY <1>2, <1>p, <2>0 DEF Close
  <2>2. /\ r \in Context /\ r.id = o.id /\ r.stage = o.stage
        /\ r.closing /\ r.outstanding = 1 /\ r.engine = "asked" /\ r.aborted
        /\ r.state = "CLOSING"
    BY <1>c, <2>1 DEF Context, States
  <2> HIDE DEF r
  <2> QED
    BY <1>c, <2>1, <2>2, SetContextInv
<1> QED
  BY <1>1, <1>2

\* Whoever ends sessions: a look, the cleanup, a termination, the shutdown.
LEMMA EndsInv ==
  ASSUME CoordinatorInv,
         \/ \E id \in Ids : Get(id) \/ Terminate(id)
         \/ Cleanup \/ CoordinatorShutdown
         \/ \E c \in DOMAIN contexts : Live(c) /\ ShutdownResumes(c)
  PROVE  CoordinatorInv'
<1>1. PICK C \in SUBSET DOMAIN contexts, st \in States \ {"CLOSING"} :
        /\ End(C, st) /\ (\A c \in C : Live(c)) /\ pendingIds' = pendingIds
        /\ Record(C) \/ UNCHANGED terminal
        /\ \/ UNCHANGED <<shutdown, shutdownWaits>>
           \/ shutdown' = "closing" /\ shutdownWaits' = {sessions[id] : id \in DOMAIN sessions}
  <2>1. ASSUME NEW id \in Ids, Get(id) \/ Terminate(id)
        PROVE  \E st \in States \ {"CLOSING"} :
                 /\ End({sessions[id]}, st) /\ Record({sessions[id]})
                 /\ sessions[id] \in DOMAIN contexts /\ Live(sessions[id])
                 /\ UNCHANGED <<pendingIds, shutdown, shutdownWaits>>
    <3>1. {"EXPIRED", "TERMINATED"} \subseteq States \ {"CLOSING"}
      BY DEF States
    <3> QED
      BY <2>1, <3>1, Mapped DEF Get, Terminate
  <2>2. CASE \E id \in Ids : Get(id) \/ Terminate(id)
    <3>1. PICK id \in Ids : Get(id) \/ Terminate(id)
      BY <2>2
    <3>2. PICK st \in States \ {"CLOSING"} :
            /\ End({sessions[id]}, st) /\ Record({sessions[id]})
            /\ sessions[id] \in DOMAIN contexts /\ Live(sessions[id])
            /\ UNCHANGED <<pendingIds, shutdown, shutdownWaits>>
      BY <3>1, <2>1
    <3> DEFINE C == {sessions[id]}
    <3>3. C \in SUBSET DOMAIN contexts /\ \A c \in C : Live(c)
      BY <3>2
    <3>4. End(C, st) /\ Record(C)
      BY <3>2
    <3> HIDE DEF C
    <3> QED
      BY <3>2, <3>3, <3>4
  <2>3. CASE Cleanup
    <3> DEFINE C == {sessions[id] : id \in {i \in DOMAIN sessions : Expired(sessions[i])}}
    <3>1. C \subseteq DOMAIN contexts /\ \A c \in C : Live(c)
      BY Mapped
    <3>2. End(C, "EXPIRED") /\ Record(C) /\ UNCHANGED <<pendingIds, shutdown, shutdownWaits>>
      BY <2>3 DEF Cleanup
    <3>3. "EXPIRED" \in States \ {"CLOSING"}
      BY DEF States
    <3> HIDE DEF C
    <3> QED
      BY <3>1, <3>2, <3>3
  <2>4. CASE CoordinatorShutdown
    <3> DEFINE found == {sessions[id] : id \in DOMAIN sessions}
               C == {c \in found : ~contexts[c].closing}
    <3>1. C \subseteq DOMAIN contexts /\ \A c \in C : Live(c)
      BY Mapped
    <3>2. End(C, "CLOSED") /\ UNCHANGED <<pendingIds, terminal>>
          /\ shutdown' = "closing" /\ shutdownWaits' = found
      BY <2>4 DEF CoordinatorShutdown
    <3>3. "CLOSED" \in States \ {"CLOSING"}
      BY DEF States
    <3> HIDE DEF C
    <3> QED
      BY <3>1, <3>2, <3>3
  <2>5. CASE \E c \in DOMAIN contexts : Live(c) /\ ShutdownResumes(c)
    <3>1. PICK c \in DOMAIN contexts : Live(c) /\ ShutdownResumes(c)
      BY <2>5
    <3>2. End({c}, "CLOSED") /\ UNCHANGED <<pendingIds, terminal, shutdown, shutdownWaits>>
      BY <3>1 DEF ShutdownResumes
    <3>3. "CLOSED" \in States \ {"CLOSING"}
      BY DEF States
    <3> QED
      BY <3>1, <3>2, <3>3
  <2> QED
    BY <2>2, <2>3, <2>4, <2>5
<1>2. /\ contexts' \in Seq(Context) /\ DOMAIN contexts' = DOMAIN contexts
      /\ DOMAIN sessions' \subseteq Ids
      /\ \A id \in DOMAIN sessions' : sessions'[id] \in DOMAIN contexts'
      /\ terminal' \subseteq Ids
      /\ MapInv' /\ PendingInv' /\ ClosesInv' /\ NoEngineLeak' /\ ClosedOnceCancelled'
      /\ TerminalNotLive'
      /\ \A d \in DOMAIN contexts :
           /\ contexts'[d].stage = contexts[d].stage
           /\ Live(d)' <=> Live(d) /\ d \notin C
  BY <1>1, EndInv
<1>3. {sessions[id] : id \in DOMAIN sessions} \subseteq DOMAIN contexts
  BY Mapped
<1>4. CoordinatorTypeOK'
  BY <1>1, <1>2, <1>3 DEF CoordinatorInv, CoordinatorTypeOK
<1>5. ShutdownInv'
  <2>1. \A d \in DOMAIN contexts : Live(d) => d \in {sessions[id] : id \in DOMAIN sessions}
    BY DEF Live
  <2> QED
    BY <1>1, <1>2, <2>1 DEF CoordinatorInv, ShutdownInv
<1> QED
  BY <1>2, <1>4, <1>5 DEF CoordinatorInv

\* The steps that touch no context.
LEMMA AroundInv ==
  ASSUME CoordinatorInv,
         \/ RetentionEnds \/ ServiceShutdown \/ ShutdownDone
         \/ \E c \in DOMAIN contexts : ~Live(c) /\ ShutdownResumes(c)
         \/ UNCHANGED coordinatorVars
  PROVE  CoordinatorInv'
<1>1. UNCHANGED <<sessions, pendingIds, contexts>> /\ terminal' \subseteq terminal
  BY DEF RetentionEnds, ServiceShutdown, ShutdownDone, ShutdownResumes, coordinatorVars
<1>2. \A d \in DOMAIN contexts : Live(d)' <=> Live(d)
  BY <1>1 DEF Live
<1>3. /\ MapInv' /\ PendingInv' /\ ClosesInv'
      /\ NoEngineLeak' /\ ClosedOnceCancelled' /\ TerminalNotLive'
  BY <1>1, <1>2 DEF CoordinatorInv, MapInv, PendingInv, ClosesInv, NoEngineLeak,
         ClosedOnceCancelled, TerminalNotLive
<1>4. CoordinatorTypeOK' /\ ShutdownInv'
  BY <1>1, <1>2 DEF CoordinatorInv, CoordinatorTypeOK, ShutdownInv, RetentionEnds, ServiceShutdown,
         ShutdownDone, ShutdownResumes, coordinatorVars
<1> QED
  BY <1>3, <1>4 DEF CoordinatorInv

LEMMA AllocationsStepInv == CoordinatorInv /\ [CoordinatorNext]_coordinatorVars => CoordinatorInv'
BY CreateInv, EngineCreatesInv, CreationInv, SettleInv, LifeInv, EndsInv, AroundInv
   DEF CoordinatorNext

\* Every reachable state of the coordinator.
THEOREM CoordinatorInvariant == CoordinatorSpec => []CoordinatorInv
BY AllocationsInitInv, AllocationsStepInv, PTL DEF CoordinatorSpec

\* Engine sessions are never lost, closed twice or under their consumers, and a
\* finished shutdown leaves none (session-coordinator.ts), for any number of ids,
\* allocations and records.
THEOREM AllocationsKept == CoordinatorSpec => []AllocationsHold
<1>1. CoordinatorInv => AllocationsHold
  BY DEF CoordinatorInv, AllocationsHold, ShutdownInv, ShutdownLeavesNothing
<1> QED
  BY <1>1, CoordinatorInvariant, PTL

-----------------------------------------------------------------------------
(* What the service keeps of a session: ServiceSessions.                   *)

Counting(n) == [i \in 1 .. n |-> i]

\* What the engine recorded is in the rows, or waits for the ledger to open.
RowsInv(s) ==
  /\ ~fed[s] => rows[s] = <<>> /\ pending[s] = Counting(made[s])
  /\ rows[s] = Counting(Len(rows[s]))
  /\ file[s] = "open" => fed[s] /\ Len(rows[s]) = made[s]

\* How far a creation is and what it has made by then.
Stage(s) ==
  /\ creation[s] \in {"none", "engine"} =>
       context[s] = "none" /\ closeCall[s] = "no" /\ entries[s] \subseteq {"secrets"}
  /\ creation[s] \in {"none", "engine", "ledger"} =>
       ~fed[s] /\ file[s] = "none" /\ "ledger" \notin entries[s]
  /\ creation[s] = "none" => entries[s] = {}
  /\ creation[s] # "answered" => crash[s] = "no"
  /\ context[s] = "live" => "policies" \in entries[s]
  /\ creation[s] \notin {"none", "engine"} => entries[s] = {} \/ "policies" \in entries[s]
  /\ closeCall[s] # "no" => context[s] # "live"

\* An open file is one the maps still hold, or one a crash has still to seal.
FileInv(s) ==
  /\ file[s] = "open" <=> "ledger" \in entries[s] \/ crash[s] = "engine"
  /\ file[s] = "sealed" => s \in closings
  /\ crash[s] = "engine" => s \in closings /\ "ledger" \notin entries[s]
  /\ closeCall[s] \in {"file", "done"} => "ledger" \notin entries[s]
  /\ closeCall[s] = "done" => file[s] \in {"none", "closed"}

\* Shutdown, by its phases.
AnswerInv ==
  /\ service \notin {"up", "draining"} => \A s \in Sessions : context[s] # "live"
  /\ service \in {"ledgers", "down"} => \A s \in Sessions : "ledger" \notin entries[s]
  /\ service = "down" => \A s \in Sessions : file[s] \in {"none", "closed"}

\* The records of a transfer, by its stages.
TransferInv(s) ==
  /\ asks[s].source # Nobody => asks[s].ledger
  /\ transfer[s] \in {<<>>, <<"prepared">>, <<"prepared", "seeded">>,
                      <<"prepared", "seeded", "completed">>}
  /\ creation[s] \in {"none", "engine", "ledger", "capture", "prepare"} => transfer[s] = <<>>
  /\ creation[s] = "seed" => transfer[s] = <<"prepared">>
  /\ creation[s] = "complete" => transfer[s] = <<"prepared", "seeded">>
  /\ creation[s] = "answered" /\ asks[s].source # Nobody =>
       transfer[s] = <<"prepared", "seeded", "completed">>

SessionInv(s) == RowsInv(s) /\ Stage(s) /\ FileInv(s) /\ TransferInv(s)

ServiceInv == ServiceTypeOK /\ AnswerInv /\ \A s \in Sessions : SessionInv(s)

-----------------------------------------------------------------------------
LEMMA ServiceStarts == ServiceInit => ServiceInv
<1> SUFFICES ASSUME ServiceInit PROVE ServiceInv
  OBVIOUS
<1>1. ServiceTypeOK
  BY DEF ServiceInit, ServiceTypeOK, Asks, Creations, TransferRecords
<1>2. \A s \in Sessions : SessionInv(s)
  BY DEF ServiceInit, SessionInv, RowsInv, Stage, FileInv, TransferInv, Counting
<1> QED BY <1>1, <1>2 DEF ServiceInv, AnswerInv, ServiceInit

LEMMA CountingIsSeq ==
  ASSUME NEW n \in Nat
  PROVE  /\ Counting(n) \in Seq(Nat) /\ Len(Counting(n)) = n
         /\ Append(Counting(n), n + 1) = Counting(n + 1)
<1>1. Counting(n) \in Seq(Nat) /\ Len(Counting(n)) = n
  BY DEF Counting
<1>2. Len(Append(Counting(n), n + 1)) = n + 1
  BY <1>1
<1>3. \A i \in 1 .. n + 1 : Append(Counting(n), n + 1)[i] = i
  BY <1>1 DEF Counting
<1>4. Append(Counting(n), n + 1) \in Seq(Nat) /\ Counting(n + 1) \in Seq(Nat)
  BY <1>1 DEF Counting
<1>5. Len(Counting(n + 1)) = n + 1 /\ \A i \in 1 .. n + 1 : Counting(n + 1)[i] = i
  BY DEF Counting
<1> QED BY <1>1, <1>2, <1>3, <1>4, <1>5

\* A session nothing has changed for.
LEMMA Untouched ==
  ASSUME NEW p \in Sessions, SessionInv(p), asks'[p] = asks[p], creation'[p] = creation[p],
         context'[p] = context[p], entries'[p] = entries[p], file'[p] = file[p],
         made'[p] = made[p], pending'[p] = pending[p], fed'[p] = fed[p], rows'[p] = rows[p],
         transfer'[p] = transfer[p], p \in closings' <=> p \in closings,
         closeCall'[p] = closeCall[p], crash'[p] = crash[p]
  PROVE  SessionInv(p)'
BY DEF SessionInv, RowsInv, Stage, FileInv, TransferInv

LEMMA CreateSessionKeeps ==
  ASSUME ServiceInv, NEW s \in Sessions, \E a \in Asks : CreateSession(s, a)
  PROVE  ServiceInv'
<1>1. ServiceTypeOK'
  BY DEF CreateSession, ServiceInv, ServiceTypeOK, Drops, Ends, Discards, Transferable,
     Tracked, InUse, CreationAdmitted, Asks, Creations, StillUp, MayKeep, Flushed, BothCurrent,
     Writable, InTransfer, Tracks, ledgerVars, callVars
<1>2. AnswerInv'
  BY DEF CreateSession, ServiceInv, ServiceTypeOK, AnswerInv, SessionInv, Stage, FileInv,
     Drops, Ends, Discards, Transferable, Tracked, InUse, CreationAdmitted, Asks, Creations,
     StillUp, MayKeep, Flushed, BothCurrent, Writable, InTransfer, Tracks, ledgerVars, callVars
<1>3. SessionInv(s)'
  <2>1. PICK a \in Asks : CreateSession(s, a)
    OBVIOUS
  <2>2. /\ a.source # Nobody => a.ledger
        /\ asks'[s] = a /\ creation[s] = "none" /\ creation'[s] = "engine"
        /\ entries'[s] = {"secrets"}
        /\ UNCHANGED <<context, file, ledgerVars, transfer, closings, callVars>>
    BY <2>1 DEF CreateSession, CreationAdmitted, Transferable, ServiceInv, ServiceTypeOK
  <2> QED BY <2>2
       DEF ServiceInv, SessionInv, RowsInv, Stage, FileInv, TransferInv, ledgerVars, callVars
<1>4. ASSUME NEW p \in Sessions \ {s} PROVE SessionInv(p)'
  <2>1. /\ p \in Sessions /\ SessionInv(p)
        /\ UNCHANGED <<asks[p], creation[p], context[p], entries[p], file[p], made[p],
                       pending[p], fed[p], rows[p], transfer[p], closeCall[p], crash[p]>>
        /\ p \in closings' <=> p \in closings
    BY DEF CreateSession, ServiceInv, ServiceTypeOK, Drops, Ends, Discards, Transferable,
       Tracked, InUse, CreationAdmitted, Asks, Creations, StillUp, MayKeep, Flushed,
       BothCurrent, Writable, InTransfer, Tracks, ledgerVars, callVars
  <2>. QED BY <2>1, Untouched
<1> QED BY <1>1, <1>2, <1>3, <1>4 DEF ServiceInv

LEMMA CreationFailsKeeps ==
  ASSUME ServiceInv, NEW s \in Sessions, CreationFails(s)
  PROVE  ServiceInv'
<1>1. ServiceTypeOK'
  BY DEF CreationFails, ServiceInv, ServiceTypeOK, Drops, Ends, Discards, Transferable,
     Tracked, InUse, CreationAdmitted, Asks, Creations, StillUp, MayKeep, Flushed, BothCurrent,
     Writable, InTransfer, Tracks, ledgerVars, callVars
<1>2. AnswerInv'
  BY DEF CreationFails, ServiceInv, ServiceTypeOK, AnswerInv, SessionInv, Stage, FileInv,
     Drops, Ends, Discards, Transferable, Tracked, InUse, CreationAdmitted, Asks, Creations,
     StillUp, MayKeep, Flushed, BothCurrent, Writable, InTransfer, Tracks, ledgerVars, callVars
<1>3. SessionInv(s)'
  BY DEF CreationFails, ServiceInv, ServiceTypeOK, AnswerInv, SessionInv, RowsInv, Stage, FileInv,
         TransferInv, Drops, Ends, Discards, Transferable, Tracked, InUse, CreationAdmitted,
         Asks, Creations, StillUp, MayKeep, Flushed, BothCurrent, Writable, InTransfer, Tracks,
         ledgerVars, callVars
<1>4. ASSUME NEW p \in Sessions \ {s} PROVE SessionInv(p)'
  <2>1. /\ p \in Sessions /\ SessionInv(p)
        /\ UNCHANGED <<asks[p], creation[p], context[p], entries[p], file[p], made[p],
                       pending[p], fed[p], rows[p], transfer[p], closeCall[p], crash[p]>>
        /\ p \in closings' <=> p \in closings
    BY DEF CreationFails, ServiceInv, ServiceTypeOK, Drops, Ends, Discards, Transferable,
       Tracked, InUse, CreationAdmitted, Asks, Creations, StillUp, MayKeep, Flushed,
       BothCurrent, Writable, InTransfer, Tracks, ledgerVars, callVars
  <2>. QED BY <2>1, Untouched
<1> QED BY <1>1, <1>2, <1>3, <1>4 DEF ServiceInv

LEMMA AllocatedKeeps ==
  ASSUME ServiceInv, NEW s \in Sessions, Allocated(s)
  PROVE  ServiceInv'
<1>1. ServiceTypeOK'
  BY DEF Allocated, ServiceInv, ServiceTypeOK, Drops, Ends, Discards, Transferable, Tracked,
     InUse, CreationAdmitted, Asks, Creations, StillUp, MayKeep, Flushed, BothCurrent,
     Writable, InTransfer, Tracks, ledgerVars, callVars
<1>2. AnswerInv'
  BY DEF Allocated, ServiceInv, ServiceTypeOK, AnswerInv, SessionInv, Stage, FileInv, Drops,
     Ends, Discards, Transferable, Tracked, InUse, CreationAdmitted, Asks, Creations, StillUp,
     MayKeep, Flushed, BothCurrent, Writable, InTransfer, Tracks, ledgerVars, callVars
<1>3. SessionInv(s)'
  BY DEF Allocated, ServiceInv, ServiceTypeOK, AnswerInv, SessionInv, RowsInv, Stage, FileInv,
         TransferInv, Drops, Ends, Discards, Transferable, Tracked, InUse, CreationAdmitted,
         Asks, Creations, StillUp, MayKeep, Flushed, BothCurrent, Writable, InTransfer, Tracks,
         ledgerVars, callVars
<1>4. ASSUME NEW p \in Sessions \ {s} PROVE SessionInv(p)'
  <2>1. /\ p \in Sessions /\ SessionInv(p)
        /\ UNCHANGED <<asks[p], creation[p], context[p], entries[p], file[p], made[p],
                       pending[p], fed[p], rows[p], transfer[p], closeCall[p], crash[p]>>
        /\ p \in closings' <=> p \in closings
    BY DEF Allocated, ServiceInv, ServiceTypeOK, Drops, Ends, Discards, Transferable, Tracked,
       InUse, CreationAdmitted, Asks, Creations, StillUp, MayKeep, Flushed, BothCurrent,
       Writable, InTransfer, Tracks, ledgerVars, callVars
  <2>. QED BY <2>1, Untouched
<1> QED BY <1>1, <1>2, <1>3, <1>4 DEF ServiceInv

LEMMA LedgerRefusesKeeps ==
  ASSUME ServiceInv, NEW s \in Sessions, LedgerRefuses(s)
  PROVE  ServiceInv'
<1>1. ServiceTypeOK'
  BY DEF LedgerRefuses, ServiceInv, ServiceTypeOK, Drops, Ends, Discards, Transferable,
     Tracked, InUse, CreationAdmitted, Asks, Creations, StillUp, MayKeep, Flushed, BothCurrent,
     Writable, InTransfer, Tracks, ledgerVars, callVars
<1>2. AnswerInv'
  BY DEF LedgerRefuses, ServiceInv, ServiceTypeOK, AnswerInv, SessionInv, Stage, FileInv,
     Drops, Ends, Discards, Transferable, Tracked, InUse, CreationAdmitted, Asks, Creations,
     StillUp, MayKeep, Flushed, BothCurrent, Writable, InTransfer, Tracks, ledgerVars, callVars
<1>3. SessionInv(s)'
  BY DEF LedgerRefuses, ServiceInv, ServiceTypeOK, AnswerInv, SessionInv, RowsInv, Stage, FileInv,
         TransferInv, Drops, Ends, Discards, Transferable, Tracked, InUse, CreationAdmitted,
         Asks, Creations, StillUp, MayKeep, Flushed, BothCurrent, Writable, InTransfer, Tracks,
         ledgerVars, callVars
<1>4. ASSUME NEW p \in Sessions \ {s} PROVE SessionInv(p)'
  <2>1. /\ p \in Sessions /\ SessionInv(p)
        /\ UNCHANGED <<asks[p], creation[p], context[p], entries[p], file[p], made[p],
                       pending[p], fed[p], rows[p], transfer[p], closeCall[p], crash[p]>>
        /\ p \in closings' <=> p \in closings
    BY DEF LedgerRefuses, ServiceInv, ServiceTypeOK, Drops, Ends, Discards, Transferable,
       Tracked, InUse, CreationAdmitted, Asks, Creations, StillUp, MayKeep, Flushed,
       BothCurrent, Writable, InTransfer, Tracks, ledgerVars, callVars
  <2>. QED BY <2>1, Untouched
<1> QED BY <1>1, <1>2, <1>3, <1>4 DEF ServiceInv

LEMMA LedgerOpensKeeps ==
  ASSUME ServiceInv, NEW s \in Sessions, LedgerOpens(s)
  PROVE  ServiceInv'
<1>1. ServiceTypeOK'
  BY DEF LedgerOpens, ServiceInv, ServiceTypeOK, Drops, Ends, Discards, Transferable, Tracked,
     InUse, CreationAdmitted, Asks, Creations, StillUp, MayKeep, Flushed, BothCurrent,
     Writable, InTransfer, Tracks, ledgerVars, callVars
<1>2. AnswerInv'
  BY DEF LedgerOpens, ServiceInv, ServiceTypeOK, AnswerInv, SessionInv, Stage, FileInv,
     Drops, Ends, Discards, Transferable, Tracked, InUse, CreationAdmitted, Asks, Creations,
     StillUp, MayKeep, Flushed, BothCurrent, Writable, InTransfer, Tracks, ledgerVars, callVars
<1>3. SessionInv(s)'
  <2>1. made[s] \in Nat /\ pending[s] = Counting(made[s]) /\ creation[s] = "ledger"
    BY DEF LedgerOpens, ServiceInv, ServiceTypeOK, SessionInv, RowsInv, Stage
  <2>2. /\ made'[s] = made[s] /\ rows'[s] = pending[s] /\ fed'[s]
    BY DEF LedgerOpens, Flushed, ServiceInv, ServiceTypeOK
  <2>3. RowsInv(s)'
    BY <2>1, <2>2, CountingIsSeq DEF RowsInv
  <2>4. /\ file'[s] = "open" /\ entries'[s] = entries[s] \cup {"ledger"}
        /\ creation'[s] = IF asks[s].source = Nobody THEN "answered" ELSE "capture"
        /\ context[s] = "live"
        /\ UNCHANGED <<asks, context, closings, closeCall, crash, transfer>>
    BY DEF LedgerOpens, ServiceInv, ServiceTypeOK, MayKeep, InUse, callVars
  <2>5. Stage(s)' /\ FileInv(s)' /\ TransferInv(s)'
    BY <2>1, <2>4 DEF ServiceInv, ServiceTypeOK, SessionInv, Stage, FileInv, TransferInv, Creations
  <2> QED BY <2>3, <2>5 DEF SessionInv
<1>4. ASSUME NEW p \in Sessions \ {s} PROVE SessionInv(p)'
  <2>1. /\ p \in Sessions /\ SessionInv(p)
        /\ UNCHANGED <<asks[p], creation[p], context[p], entries[p], file[p], made[p],
                       pending[p], fed[p], rows[p], transfer[p], closeCall[p], crash[p]>>
        /\ p \in closings' <=> p \in closings
    BY DEF LedgerOpens, ServiceInv, ServiceTypeOK, Drops, Ends, Discards, Transferable,
       Tracked, InUse, CreationAdmitted, Asks, Creations, StillUp, MayKeep, Flushed,
       BothCurrent, Writable, InTransfer, Tracks, ledgerVars, callVars
  <2>. QED BY <2>1, Untouched
<1> QED BY <1>1, <1>2, <1>3, <1>4 DEF ServiceInv

LEMMA LedgerTooLateKeeps ==
  ASSUME ServiceInv, NEW s \in Sessions, LedgerTooLate(s)
  PROVE  ServiceInv'
<1>1. ServiceTypeOK'
  BY DEF LedgerTooLate, ServiceInv, ServiceTypeOK, Drops, Ends, Discards, Transferable,
     Tracked, InUse, CreationAdmitted, Asks, Creations, StillUp, MayKeep, Flushed, BothCurrent,
     Writable, InTransfer, Tracks, ledgerVars, callVars
<1>2. AnswerInv'
  BY DEF LedgerTooLate, ServiceInv, ServiceTypeOK, AnswerInv, SessionInv, Stage, FileInv,
     Drops, Ends, Discards, Transferable, Tracked, InUse, CreationAdmitted, Asks, Creations,
     StillUp, MayKeep, Flushed, BothCurrent, Writable, InTransfer, Tracks, ledgerVars, callVars
<1>3. SessionInv(s)'
  BY DEF LedgerTooLate, ServiceInv, ServiceTypeOK, AnswerInv, SessionInv, RowsInv, Stage, FileInv,
         TransferInv, Drops, Ends, Discards, Transferable, Tracked, InUse, CreationAdmitted,
         Asks, Creations, StillUp, MayKeep, Flushed, BothCurrent, Writable, InTransfer, Tracks,
         ledgerVars, callVars
<1>4. ASSUME NEW p \in Sessions \ {s} PROVE SessionInv(p)'
  <2>1. /\ p \in Sessions /\ SessionInv(p)
        /\ UNCHANGED <<asks[p], creation[p], context[p], entries[p], file[p], made[p],
                       pending[p], fed[p], rows[p], transfer[p], closeCall[p], crash[p]>>
        /\ p \in closings' <=> p \in closings
    BY DEF LedgerTooLate, ServiceInv, ServiceTypeOK, Drops, Ends, Discards, Transferable,
       Tracked, InUse, CreationAdmitted, Asks, Creations, StillUp, MayKeep, Flushed,
       BothCurrent, Writable, InTransfer, Tracks, ledgerVars, callVars
  <2>. QED BY <2>1, Untouched
<1> QED BY <1>1, <1>2, <1>3, <1>4 DEF ServiceInv

\* The records of a transfer, each behind the one before.
LEMMA Extended ==
  /\ <<>> \o <<"prepared">> = <<"prepared">>
  /\ <<"prepared">> \o <<"seeded">> = <<"prepared", "seeded">>
  /\ <<"prepared", "seeded">> \o <<"completed">> = <<"prepared", "seeded", "completed">>
<1> DEFINE S == {"prepared", "seeded", "completed"}
<1>1. <<>> \o <<"prepared">> = <<"prepared">>
  OBVIOUS
<1>2. <<"prepared">> \o <<"seeded">> = <<"prepared", "seeded">>
  <2> DEFINE q == <<"prepared">> \o <<"seeded">>
             p == <<"prepared", "seeded">>
  <2>1. q \in Seq(S) /\ p \in Seq(S) /\ Len(q) = 2 /\ Len(p) = 2
    OBVIOUS
  <2>2. q[1] = p[1] /\ q[2] = p[2]
    OBVIOUS
  <2> HIDE DEF q, p, S
  <2>3. Len(q) = Len(p) /\ \A i \in 1 .. Len(q) : q[i] = p[i]
    BY <2>1, <2>2
  <2>4. q = p
    BY <2>1, <2>3, SeqEqual, Zenon
  <2> QED BY <2>4 DEF q, p
<1>3. <<"prepared", "seeded">> \o <<"completed">> = <<"prepared", "seeded", "completed">>
  <2> DEFINE q == <<"prepared", "seeded">> \o <<"completed">>
             p == <<"prepared", "seeded", "completed">>
  <2>1. q \in Seq(S) /\ p \in Seq(S) /\ Len(q) = 3 /\ Len(p) = 3
    OBVIOUS
  <2>2. q[1] = p[1] /\ q[2] = p[2] /\ q[3] = p[3]
    OBVIOUS
  <2> HIDE DEF q, p, S
  <2>3. Len(q) = Len(p) /\ \A i \in 1 .. Len(q) : q[i] = p[i]
    BY <2>1, <2>2
  <2>4. q = p
    BY <2>1, <2>3, SeqEqual, Zenon
  <2> QED BY <2>4 DEF q, p
<1> QED BY <1>1, <1>2, <1>3

LEMMA TransferStepKeeps ==
  ASSUME ServiceInv, NEW s \in Sessions, TransferStep(s)
  PROVE  ServiceInv'
<1>1. /\ context[s] = "live" /\ creation[s] \in {"capture", "prepare", "seed", "complete"}
      /\ TransferInv(s) /\ Stage(s) /\ FileInv(s) /\ RowsInv(s)
  BY DEF TransferStep, InTransfer, BothCurrent, InUse, ServiceInv, SessionInv
<1>2. \A p \in Sessions \ {s} : creation'[p] = creation[p] /\ transfer'[p] = transfer[p]
  BY DEF TransferStep, Transfer, ServiceInv, ServiceTypeOK
<1>3. /\ creation'[s] \in {"prepare", "seed", "complete", "answered"}
      /\ creation' \in [Sessions -> Creations]
      /\ transfer' \in [Sessions -> Seq(TransferRecords)] /\ TransferInv(s)'
  <2>1. CASE creation[s] = "capture"
    <3>1. /\ creation' = [creation EXCEPT ![s] = "prepare"]
          /\ transfer' = [transfer EXCEPT ![s] = @ \o <<>>]
      BY <2>1 DEF TransferStep, Transfer
    <3>2. transfer[s] = <<>> /\ transfer[s] \o <<>> = <<>>
      BY <1>1, <2>1 DEF TransferInv
    <3> QED BY <1>1, <3>1, <3>2 DEF TransferInv, ServiceInv, ServiceTypeOK, Creations, TransferStep
  <2>2. CASE creation[s] = "prepare"
    <3>1. /\ creation' = [creation EXCEPT ![s] = "seed"]
          /\ transfer' = [transfer EXCEPT ![s] = @ \o <<"prepared">>]
      BY <2>2 DEF TransferStep, Transfer
    <3>2. transfer[s] = <<>> /\ <<>> \o <<"prepared">> = <<"prepared">>
      BY <1>1, <2>2, Extended DEF TransferInv
    <3>3. <<"prepared">> \in Seq(TransferRecords)
      BY DEF TransferRecords
    <3> QED BY <1>1, <3>1, <3>2, <3>3
         DEF TransferInv, ServiceInv, ServiceTypeOK, Creations, TransferStep
  <2>3. CASE creation[s] = "seed"
    <3>1. /\ creation' = [creation EXCEPT ![s] = "complete"]
          /\ transfer' = [transfer EXCEPT ![s] = @ \o <<"seeded">>]
      BY <2>3 DEF TransferStep, Transfer
    <3>2. transfer[s] = <<"prepared">> /\ <<"prepared">> \o <<"seeded">> = <<"prepared", "seeded">>
      BY <1>1, <2>3, Extended DEF TransferInv
    <3>3. <<"prepared", "seeded">> \in Seq(TransferRecords)
      BY DEF TransferRecords
    <3> QED BY <1>1, <3>1, <3>2, <3>3
         DEF TransferInv, ServiceInv, ServiceTypeOK, Creations, TransferStep
  <2>4. CASE creation[s] = "complete"
    <3>1. /\ creation' = [creation EXCEPT ![s] = "answered"]
          /\ transfer' = [transfer EXCEPT ![s] = @ \o <<"completed">>]
      BY <2>4 DEF TransferStep, Transfer
    <3>2. /\ transfer[s] = <<"prepared", "seeded">>
          /\ <<"prepared", "seeded">> \o <<"completed">> = <<"prepared", "seeded", "completed">>
      BY <1>1, <2>4, Extended DEF TransferInv
    <3>3. <<"prepared", "seeded", "completed">> \in Seq(TransferRecords)
      BY DEF TransferRecords
    <3> QED BY <1>1, <3>1, <3>2, <3>3
         DEF TransferInv, ServiceInv, ServiceTypeOK, Creations, TransferStep
  <2> QED BY <1>1, <2>1, <2>2, <2>3, <2>4
<1>4. /\ UNCHANGED <<service, asks, context, engine, scope, file, ledgerVars, closings, callVars>>
      /\ entries' \in [Sessions -> SUBSET {"secrets", "policies", "hidden", "ledger"}]
      /\ \A p \in Sessions \ {s} : entries'[p] = entries[p]
      /\ entries'[s] \subseteq entries[s]
      /\ \A x \in {"policies", "ledger"} : x \in entries'[s] <=> x \in entries[s]
  BY DEF TransferStep, ServiceInv, ServiceTypeOK
<1>5. ServiceTypeOK'
  BY <1>3, <1>4 DEF ServiceInv, ServiceTypeOK, ledgerVars, callVars
<1>6. AnswerInv'
  BY <1>4 DEF ServiceInv, ServiceTypeOK, AnswerInv
<1>7. SessionInv(s)'
  <2>1. RowsInv(s)' /\ FileInv(s)'
    BY <1>1, <1>4 DEF RowsInv, FileInv, ledgerVars, callVars
  <2>2. Stage(s)'
    BY <1>1, <1>3, <1>4 DEF Stage, ledgerVars, callVars
  <2> QED BY <1>3, <2>1, <2>2 DEF SessionInv
<1>8. \A p \in Sessions \ {s} : SessionInv(p)'
  BY <1>2, <1>4, Untouched DEF ServiceInv, ledgerVars, callVars
<1> QED BY <1>5, <1>6, <1>7, <1>8 DEF ServiceInv

LEMMA TransferFailsKeeps ==
  ASSUME ServiceInv, NEW s \in Sessions, TransferFails(s)
  PROVE  ServiceInv'
<1>1. ServiceTypeOK'
  BY DEF TransferFails, ServiceInv, ServiceTypeOK, Drops, Ends, Discards, Transferable,
     Tracked, InUse, CreationAdmitted, Asks, Creations, StillUp, MayKeep, Flushed, BothCurrent,
     Writable, InTransfer, Tracks, ledgerVars, callVars
<1>2. AnswerInv'
  BY DEF TransferFails, ServiceInv, ServiceTypeOK, AnswerInv, SessionInv, Stage, FileInv,
     Drops, Ends, Discards, Transferable, Tracked, InUse, CreationAdmitted, Asks, Creations,
     StillUp, MayKeep, Flushed, BothCurrent, Writable, InTransfer, Tracks, ledgerVars, callVars
<1>3. SessionInv(s)'
  BY DEF TransferFails, ServiceInv, ServiceTypeOK, AnswerInv, SessionInv, RowsInv, Stage, FileInv,
         TransferInv, Drops, Ends, Discards, Transferable, Tracked, InUse, CreationAdmitted,
         Asks, Creations, StillUp, MayKeep, Flushed, BothCurrent, Writable, InTransfer, Tracks,
         ledgerVars, callVars
<1>4. ASSUME NEW p \in Sessions \ {s} PROVE SessionInv(p)'
  <2>1. /\ p \in Sessions /\ SessionInv(p)
        /\ UNCHANGED <<asks[p], creation[p], context[p], entries[p], file[p], made[p],
                       pending[p], fed[p], rows[p], transfer[p], closeCall[p], crash[p]>>
        /\ p \in closings' <=> p \in closings
    BY DEF TransferFails, ServiceInv, ServiceTypeOK, Drops, Ends, Discards, Transferable,
       Tracked, InUse, CreationAdmitted, Asks, Creations, StillUp, MayKeep, Flushed,
       BothCurrent, Writable, InTransfer, Tracks, ledgerVars, callVars
  <2>. QED BY <2>1, Untouched
<1> QED BY <1>1, <1>2, <1>3, <1>4 DEF ServiceInv

LEMMA RecordRequestKeeps ==
  ASSUME ServiceInv, NEW s \in Sessions, RecordRequest(s)
  PROVE  ServiceInv'
<1>1. ServiceTypeOK'
  BY DEF RecordRequest, ServiceInv, ServiceTypeOK, Drops, Ends, Discards, Transferable,
     Tracked, InUse, CreationAdmitted, Asks, Creations, StillUp, MayKeep, Flushed, BothCurrent,
     Writable, InTransfer, Tracks, ledgerVars, callVars
<1>2. AnswerInv'
  BY DEF RecordRequest, ServiceInv, ServiceTypeOK, AnswerInv, SessionInv, Stage, FileInv,
     Drops, Ends, Discards, Transferable, Tracked, InUse, CreationAdmitted, Asks, Creations,
     StillUp, MayKeep, Flushed, BothCurrent, Writable, InTransfer, Tracks, ledgerVars, callVars
<1>3. SessionInv(s)'
  <2>1. /\ made[s] \in Nat /\ made'[s] = made[s] + 1
        /\ rows'[s] = IF fed[s] /\ file[s] = "open" THEN Append(rows[s], made[s] + 1) ELSE rows[s]
        /\ pending'[s] = IF fed[s] THEN pending[s] ELSE Append(pending[s], made[s] + 1)
        /\ UNCHANGED <<asks, creation, context, entries, file, fed, transfer, closings, callVars>>
    BY DEF RecordRequest, ServiceInv, ServiceTypeOK
  <2>2. Stage(s)' /\ FileInv(s)' /\ TransferInv(s)'
    BY <2>1 DEF ServiceInv, SessionInv, Stage, FileInv, TransferInv, callVars
  <2>3. RowsInv(s)
    BY DEF ServiceInv, SessionInv
  <2>4. RowsInv(s)'
    <3>1. CASE ~fed[s]
      BY <2>1, <2>3, <3>1, CountingIsSeq DEF RowsInv
    <3>2. CASE fed[s] /\ file[s] # "open"
      BY <2>1, <2>3, <3>2 DEF RowsInv
    <3>3. CASE fed[s] /\ file[s] = "open"
      <4>1. rows'[s] = Counting(made[s] + 1)
        BY <2>1, <2>3, <3>3, CountingIsSeq DEF RowsInv
      <4>0. made[s] + 1 \in Nat
        BY <2>1
      <4>2. Len(Counting(made[s] + 1)) = made[s] + 1
        BY <4>0, CountingIsSeq, Zenon
      <4>3. Len(rows'[s]) = made[s] + 1
        BY <4>1, <4>2
      <4> QED BY <2>1, <3>3, <4>1, <4>3 DEF RowsInv
    <3> QED BY <3>1, <3>2, <3>3
  <2> QED BY <2>2, <2>4 DEF SessionInv
<1>4. ASSUME NEW p \in Sessions \ {s} PROVE SessionInv(p)'
  <2>1. /\ p \in Sessions /\ SessionInv(p)
        /\ UNCHANGED <<asks[p], creation[p], context[p], entries[p], file[p], made[p],
                       pending[p], fed[p], rows[p], transfer[p], closeCall[p], crash[p]>>
        /\ p \in closings' <=> p \in closings
    BY DEF RecordRequest, ServiceInv, ServiceTypeOK, Drops, Ends, Discards, Transferable,
       Tracked, InUse, CreationAdmitted, Asks, Creations, StillUp, MayKeep, Flushed,
       BothCurrent, Writable, InTransfer, Tracks, ledgerVars, callVars
  <2>. QED BY <2>1, Untouched
<1> QED BY <1>1, <1>2, <1>3, <1>4 DEF ServiceInv

LEMMA EngineClosesKeeps ==
  ASSUME ServiceInv, NEW s \in Sessions, EngineCloses(s)
  PROVE  ServiceInv'
<1>1. ServiceTypeOK'
  BY DEF EngineCloses, ServiceInv, ServiceTypeOK, Drops, Ends, Discards, Transferable, Tracked,
     InUse, CreationAdmitted, Asks, Creations, StillUp, MayKeep, Flushed, BothCurrent,
     Writable, InTransfer, Tracks, ledgerVars, callVars
<1>2. AnswerInv'
  BY DEF EngineCloses, ServiceInv, ServiceTypeOK, AnswerInv, SessionInv, Stage, FileInv,
     Drops, Ends, Discards, Transferable, Tracked, InUse, CreationAdmitted, Asks, Creations,
     StillUp, MayKeep, Flushed, BothCurrent, Writable, InTransfer, Tracks, ledgerVars, callVars
<1>3. SessionInv(s)'
  BY DEF EngineCloses, ServiceInv, ServiceTypeOK, AnswerInv, SessionInv, RowsInv, Stage, FileInv,
         TransferInv, Drops, Ends, Discards, Transferable, Tracked, InUse, CreationAdmitted,
         Asks, Creations, StillUp, MayKeep, Flushed, BothCurrent, Writable, InTransfer, Tracks,
         ledgerVars, callVars
<1>4. ASSUME NEW p \in Sessions \ {s} PROVE SessionInv(p)'
  <2>1. /\ p \in Sessions /\ SessionInv(p)
        /\ UNCHANGED <<asks[p], creation[p], context[p], entries[p], file[p], made[p],
                       pending[p], fed[p], rows[p], transfer[p], closeCall[p], crash[p]>>
        /\ p \in closings' <=> p \in closings
    BY DEF EngineCloses, ServiceInv, ServiceTypeOK, Drops, Ends, Discards, Transferable,
       Tracked, InUse, CreationAdmitted, Asks, Creations, StillUp, MayKeep, Flushed,
       BothCurrent, Writable, InTransfer, Tracks, ledgerVars, callVars
  <2>. QED BY <2>1, Untouched
<1> QED BY <1>1, <1>2, <1>3, <1>4 DEF ServiceInv

LEMMA EngineCloseFailsKeeps ==
  ASSUME ServiceInv, NEW s \in Sessions, EngineCloseFails(s)
  PROVE  ServiceInv'
<1>1. ServiceTypeOK'
  BY DEF EngineCloseFails, ServiceInv, ServiceTypeOK, Drops, Ends, Discards, Transferable,
     Tracked, InUse, CreationAdmitted, Asks, Creations, StillUp, MayKeep, Flushed, BothCurrent,
     Writable, InTransfer, Tracks, ledgerVars, callVars
<1>2. AnswerInv'
  BY DEF EngineCloseFails, ServiceInv, ServiceTypeOK, AnswerInv, SessionInv, Stage, FileInv,
     Drops, Ends, Discards, Transferable, Tracked, InUse, CreationAdmitted, Asks, Creations,
     StillUp, MayKeep, Flushed, BothCurrent, Writable, InTransfer, Tracks, ledgerVars, callVars
<1>3. SessionInv(s)'
  BY DEF EngineCloseFails, ServiceInv, ServiceTypeOK, AnswerInv, SessionInv, RowsInv, Stage,
     FileInv,
         TransferInv, Drops, Ends, Discards, Transferable, Tracked, InUse, CreationAdmitted,
         Asks, Creations, StillUp, MayKeep, Flushed, BothCurrent, Writable, InTransfer, Tracks,
         ledgerVars, callVars
<1>4. ASSUME NEW p \in Sessions \ {s} PROVE SessionInv(p)'
  <2>1. /\ p \in Sessions /\ SessionInv(p)
        /\ UNCHANGED <<asks[p], creation[p], context[p], entries[p], file[p], made[p],
                       pending[p], fed[p], rows[p], transfer[p], closeCall[p], crash[p]>>
        /\ p \in closings' <=> p \in closings
    BY DEF EngineCloseFails, ServiceInv, ServiceTypeOK, Drops, Ends, Discards, Transferable,
       Tracked, InUse, CreationAdmitted, Asks, Creations, StillUp, MayKeep, Flushed,
       BothCurrent, Writable, InTransfer, Tracks, ledgerVars, callVars
  <2>. QED BY <2>1, Untouched
<1> QED BY <1>1, <1>2, <1>3, <1>4 DEF ServiceInv

LEMMA FileClosesKeeps ==
  ASSUME ServiceInv, NEW s \in Sessions, FileCloses(s)
  PROVE  ServiceInv'
<1>1. ServiceTypeOK'
  BY DEF FileCloses, ServiceInv, ServiceTypeOK, Drops, Ends, Discards, Transferable, Tracked,
     InUse, CreationAdmitted, Asks, Creations, StillUp, MayKeep, Flushed, BothCurrent,
     Writable, InTransfer, Tracks, ledgerVars, callVars
<1>2. AnswerInv'
  BY DEF FileCloses, ServiceInv, ServiceTypeOK, AnswerInv, SessionInv, Stage, FileInv, Drops,
     Ends, Discards, Transferable, Tracked, InUse, CreationAdmitted, Asks, Creations, StillUp,
     MayKeep, Flushed, BothCurrent, Writable, InTransfer, Tracks, ledgerVars, callVars
<1>3. SessionInv(s)'
  BY DEF FileCloses, ServiceInv, ServiceTypeOK, AnswerInv, SessionInv, RowsInv, Stage, FileInv,
         TransferInv, Drops, Ends, Discards, Transferable, Tracked, InUse, CreationAdmitted,
         Asks, Creations, StillUp, MayKeep, Flushed, BothCurrent, Writable, InTransfer, Tracks,
         ledgerVars, callVars
<1>4. ASSUME NEW p \in Sessions \ {s} PROVE SessionInv(p)'
  <2>1. /\ p \in Sessions /\ SessionInv(p)
        /\ UNCHANGED <<asks[p], creation[p], context[p], entries[p], file[p], made[p],
                       pending[p], fed[p], rows[p], transfer[p], closeCall[p], crash[p]>>
        /\ p \in closings' <=> p \in closings
    BY DEF FileCloses, ServiceInv, ServiceTypeOK, ledgerVars, callVars
  <2>. QED BY <2>1, Untouched
<1> QED BY <1>1, <1>2, <1>3, <1>4 DEF ServiceInv

LEMMA CloseSessionKeeps ==
  ASSUME ServiceInv, NEW s \in Sessions, CloseSession(s)
  PROVE  ServiceInv'
<1>1. ServiceTypeOK'
  BY DEF CloseSession, ServiceInv, ServiceTypeOK, Drops, Ends, Discards, Transferable, Tracked,
     InUse, CreationAdmitted, Asks, Creations, StillUp, MayKeep, Flushed, BothCurrent,
     Writable, InTransfer, Tracks, ledgerVars, callVars
<1>2. AnswerInv'
  BY DEF CloseSession, ServiceInv, ServiceTypeOK, AnswerInv, SessionInv, Stage, FileInv,
     Drops, Ends, Discards, Transferable, Tracked, InUse, CreationAdmitted, Asks, Creations,
     StillUp, MayKeep, Flushed, BothCurrent, Writable, InTransfer, Tracks, ledgerVars, callVars
<1>3. SessionInv(s)'
  BY DEF CloseSession, ServiceInv, ServiceTypeOK, AnswerInv, SessionInv, RowsInv, Stage, FileInv,
         TransferInv, Drops, Ends, Discards, Transferable, Tracked, InUse, CreationAdmitted,
         Asks, Creations, StillUp, MayKeep, Flushed, BothCurrent, Writable, InTransfer, Tracks,
         ledgerVars, callVars
<1>4. ASSUME NEW p \in Sessions \ {s} PROVE SessionInv(p)'
  <2>1. /\ p \in Sessions /\ SessionInv(p)
        /\ UNCHANGED <<asks[p], creation[p], context[p], entries[p], file[p], made[p],
                       pending[p], fed[p], rows[p], transfer[p], closeCall[p], crash[p]>>
        /\ p \in closings' <=> p \in closings
    BY DEF CloseSession, ServiceInv, ServiceTypeOK, Drops, Ends, Discards, Transferable,
       Tracked, InUse, CreationAdmitted, Asks, Creations, StillUp, MayKeep, Flushed,
       BothCurrent, Writable, InTransfer, Tracks, ledgerVars, callVars
  <2>. QED BY <2>1, Untouched
<1> QED BY <1>1, <1>2, <1>3, <1>4 DEF ServiceInv

LEMMA CloseReturnsKeeps ==
  ASSUME ServiceInv, NEW s \in Sessions, CloseReturns(s)
  PROVE  ServiceInv'
<1>1. ServiceTypeOK'
  BY DEF CloseReturns, ServiceInv, ServiceTypeOK, Drops, Ends, Discards, Transferable, Tracked,
     InUse, CreationAdmitted, Asks, Creations, StillUp, MayKeep, Flushed, BothCurrent,
     Writable, InTransfer, Tracks, ledgerVars, callVars
<1>2. AnswerInv'
  BY DEF CloseReturns, ServiceInv, ServiceTypeOK, AnswerInv, SessionInv, Stage, FileInv,
     Drops, Ends, Discards, Transferable, Tracked, InUse, CreationAdmitted, Asks, Creations,
     StillUp, MayKeep, Flushed, BothCurrent, Writable, InTransfer, Tracks, ledgerVars, callVars
<1>3. SessionInv(s)'
  BY DEF CloseReturns, ServiceInv, ServiceTypeOK, AnswerInv, SessionInv, RowsInv, Stage, FileInv,
         TransferInv, Drops, Ends, Discards, Transferable, Tracked, InUse, CreationAdmitted,
         Asks, Creations, StillUp, MayKeep, Flushed, BothCurrent, Writable, InTransfer, Tracks,
         ledgerVars, callVars
<1>4. ASSUME NEW p \in Sessions \ {s} PROVE SessionInv(p)'
  <2>1. /\ p \in Sessions /\ SessionInv(p)
        /\ UNCHANGED <<asks[p], creation[p], context[p], entries[p], file[p], made[p],
                       pending[p], fed[p], rows[p], transfer[p], closeCall[p], crash[p]>>
        /\ p \in closings' <=> p \in closings
    BY DEF CloseReturns, ServiceInv, ServiceTypeOK, Drops, Ends, Discards, Transferable,
       Tracked, InUse, CreationAdmitted, Asks, Creations, StillUp, MayKeep, Flushed,
       BothCurrent, Writable, InTransfer, Tracks, ledgerVars, callVars
  <2>. QED BY <2>1, Untouched
<1> QED BY <1>1, <1>2, <1>3, <1>4 DEF ServiceInv

LEMMA CloseAnswersKeeps ==
  ASSUME ServiceInv, NEW s \in Sessions, CloseAnswers(s)
  PROVE  ServiceInv'
<1>1. ServiceTypeOK'
  BY DEF CloseAnswers, ServiceInv, ServiceTypeOK, Drops, Ends, Discards, Transferable, Tracked,
     InUse, CreationAdmitted, Asks, Creations, StillUp, MayKeep, Flushed, BothCurrent,
     Writable, InTransfer, Tracks, ledgerVars, callVars
<1>2. AnswerInv'
  BY DEF CloseAnswers, ServiceInv, ServiceTypeOK, AnswerInv, SessionInv, Stage, FileInv,
     Drops, Ends, Discards, Transferable, Tracked, InUse, CreationAdmitted, Asks, Creations,
     StillUp, MayKeep, Flushed, BothCurrent, Writable, InTransfer, Tracks, ledgerVars, callVars
<1>3. SessionInv(s)'
  BY DEF CloseAnswers, ServiceInv, ServiceTypeOK, AnswerInv, SessionInv, RowsInv, Stage, FileInv,
         TransferInv, Drops, Ends, Discards, Transferable, Tracked, InUse, CreationAdmitted,
         Asks, Creations, StillUp, MayKeep, Flushed, BothCurrent, Writable, InTransfer, Tracks,
         ledgerVars, callVars
<1>4. ASSUME NEW p \in Sessions \ {s} PROVE SessionInv(p)'
  <2>1. /\ p \in Sessions /\ SessionInv(p)
        /\ UNCHANGED <<asks[p], creation[p], context[p], entries[p], file[p], made[p],
                       pending[p], fed[p], rows[p], transfer[p], closeCall[p], crash[p]>>
        /\ p \in closings' <=> p \in closings
    BY DEF CloseAnswers, ServiceInv, ServiceTypeOK, Drops, Ends, Discards, Transferable,
       Tracked, InUse, CreationAdmitted, Asks, Creations, StillUp, MayKeep, Flushed,
       BothCurrent, Writable, InTransfer, Tracks, ledgerVars, callVars
  <2>. QED BY <2>1, Untouched
<1> QED BY <1>1, <1>2, <1>3, <1>4 DEF ServiceInv

LEMMA RecoverFromCrashKeeps ==
  ASSUME ServiceInv, NEW s \in Sessions, RecoverFromCrash(s)
  PROVE  ServiceInv'
<1>1. ServiceTypeOK'
  BY DEF RecoverFromCrash, ServiceInv, ServiceTypeOK, Drops, Ends, Discards, Transferable,
     Tracked, InUse, CreationAdmitted, Asks, Creations, StillUp, MayKeep, Flushed, BothCurrent,
     Writable, InTransfer, Tracks, ledgerVars, callVars
<1>2. AnswerInv'
  BY DEF RecoverFromCrash, ServiceInv, ServiceTypeOK, AnswerInv, SessionInv, Stage, FileInv,
     Drops, Ends, Discards, Transferable, Tracked, InUse, CreationAdmitted, Asks, Creations,
     StillUp, MayKeep, Flushed, BothCurrent, Writable, InTransfer, Tracks, ledgerVars, callVars
<1>3. SessionInv(s)'
  BY DEF RecoverFromCrash, ServiceInv, ServiceTypeOK, AnswerInv, SessionInv, RowsInv, Stage,
     FileInv,
         TransferInv, Drops, Ends, Discards, Transferable, Tracked, InUse, CreationAdmitted,
         Asks, Creations, StillUp, MayKeep, Flushed, BothCurrent, Writable, InTransfer, Tracks,
         ledgerVars, callVars
<1>4. ASSUME NEW p \in Sessions \ {s} PROVE SessionInv(p)'
  <2>1. /\ p \in Sessions /\ SessionInv(p)
        /\ UNCHANGED <<asks[p], creation[p], context[p], entries[p], file[p], made[p],
                       pending[p], fed[p], rows[p], transfer[p], closeCall[p], crash[p]>>
        /\ p \in closings' <=> p \in closings
    BY DEF RecoverFromCrash, ServiceInv, ServiceTypeOK, Drops, Ends, Discards, Transferable,
       Tracked, InUse, CreationAdmitted, Asks, Creations, StillUp, MayKeep, Flushed,
       BothCurrent, Writable, InTransfer, Tracks, ledgerVars, callVars
  <2>. QED BY <2>1, Untouched
<1> QED BY <1>1, <1>2, <1>3, <1>4 DEF ServiceInv

LEMMA CrashSealsKeeps ==
  ASSUME ServiceInv, NEW s \in Sessions, CrashSeals(s)
  PROVE  ServiceInv'
<1>1. ServiceTypeOK'
  BY DEF CrashSeals, ServiceInv, ServiceTypeOK, Drops, Ends, Discards, Transferable, Tracked,
     InUse, CreationAdmitted, Asks, Creations, StillUp, MayKeep, Flushed, BothCurrent,
     Writable, InTransfer, Tracks, ledgerVars, callVars
<1>2. AnswerInv'
  BY DEF CrashSeals, ServiceInv, ServiceTypeOK, AnswerInv, SessionInv, Stage, FileInv, Drops,
     Ends, Discards, Transferable, Tracked, InUse, CreationAdmitted, Asks, Creations, StillUp,
     MayKeep, Flushed, BothCurrent, Writable, InTransfer, Tracks, ledgerVars, callVars
<1>3. SessionInv(s)'
  <2>1. /\ crash[s] = "engine" /\ crash'[s] = "file" /\ file'[s] = "sealed"
        /\ UNCHANGED <<asks, creation, context, entries, ledgerVars, transfer, closings, closeCall>>
    BY DEF CrashSeals, ServiceInv, ServiceTypeOK
  <2>2. RowsInv(s)' /\ Stage(s)' /\ TransferInv(s)'
    BY <2>1 DEF ServiceInv, SessionInv, RowsInv, Stage, FileInv, TransferInv, ledgerVars
  <2>3. FileInv(s)'
    BY <2>1 DEF ServiceInv, SessionInv, Stage, FileInv
  <2> QED BY <2>2, <2>3 DEF SessionInv
<1>4. ASSUME NEW p \in Sessions \ {s} PROVE SessionInv(p)'
  <2>1. /\ p \in Sessions /\ SessionInv(p)
        /\ UNCHANGED <<asks[p], creation[p], context[p], entries[p], file[p], made[p],
                       pending[p], fed[p], rows[p], transfer[p], closeCall[p], crash[p]>>
        /\ p \in closings' <=> p \in closings
    BY DEF CrashSeals, ServiceInv, ServiceTypeOK, Drops, Ends, Discards, Transferable, Tracked,
       InUse, CreationAdmitted, Asks, Creations, StillUp, MayKeep, Flushed, BothCurrent,
       Writable, InTransfer, Tracks, ledgerVars, callVars
  <2>. QED BY <2>1, Untouched
<1> QED BY <1>1, <1>2, <1>3, <1>4 DEF ServiceInv

LEMMA ExpireKeeps ==
  ASSUME ServiceInv, NEW s \in Sessions, Expire(s)
  PROVE  ServiceInv'
<1>1. ServiceTypeOK'
  BY DEF Expire, ServiceInv, ServiceTypeOK, Drops, Ends, Discards, Transferable, Tracked,
     InUse, CreationAdmitted, Asks, Creations, StillUp, MayKeep, Flushed, BothCurrent,
     Writable, InTransfer, Tracks, ledgerVars, callVars
<1>2. AnswerInv'
  BY DEF Expire, ServiceInv, ServiceTypeOK, AnswerInv, SessionInv, Stage, FileInv, Drops,
     Ends, Discards, Transferable, Tracked, InUse, CreationAdmitted, Asks, Creations, StillUp,
     MayKeep, Flushed, BothCurrent, Writable, InTransfer, Tracks, ledgerVars, callVars
<1>3. SessionInv(s)'
  BY DEF Expire, ServiceInv, ServiceTypeOK, AnswerInv, SessionInv, RowsInv, Stage, FileInv,
         TransferInv, Drops, Ends, Discards, Transferable, Tracked, InUse, CreationAdmitted,
         Asks, Creations, StillUp, MayKeep, Flushed, BothCurrent, Writable, InTransfer, Tracks,
         ledgerVars, callVars
<1>4. ASSUME NEW p \in Sessions \ {s} PROVE SessionInv(p)'
  <2>1. /\ p \in Sessions /\ SessionInv(p)
        /\ UNCHANGED <<asks[p], creation[p], context[p], entries[p], file[p], made[p],
                       pending[p], fed[p], rows[p], transfer[p], closeCall[p], crash[p]>>
        /\ p \in closings' <=> p \in closings
    BY DEF Expire, ServiceInv, ServiceTypeOK, Drops, Ends, Discards, Transferable, Tracked,
       InUse, CreationAdmitted, Asks, Creations, StillUp, MayKeep, Flushed, BothCurrent,
       Writable, InTransfer, Tracks, ledgerVars, callVars
  <2>. QED BY <2>1, Untouched
<1> QED BY <1>1, <1>2, <1>3, <1>4 DEF ServiceInv

LEMMA SweepKeeps ==
  ASSUME ServiceInv, NEW s \in Sessions, Sweep(s)
  PROVE  ServiceInv'
<1>1. ServiceTypeOK'
  BY DEF Sweep, ServiceInv, ServiceTypeOK, Drops, Ends, Discards, Transferable, Tracked, InUse,
     CreationAdmitted, Asks, Creations, StillUp, MayKeep, Flushed, BothCurrent, Writable,
     InTransfer, Tracks, ledgerVars, callVars
<1>2. AnswerInv'
  BY DEF Sweep, ServiceInv, ServiceTypeOK, AnswerInv, SessionInv, Stage, FileInv, Drops,
     Ends, Discards, Transferable, Tracked, InUse, CreationAdmitted, Asks, Creations, StillUp,
     MayKeep, Flushed, BothCurrent, Writable, InTransfer, Tracks, ledgerVars, callVars
<1>3. SessionInv(s)'
  BY DEF Sweep, ServiceInv, ServiceTypeOK, AnswerInv, SessionInv, RowsInv, Stage, FileInv,
         TransferInv, Drops, Ends, Discards, Transferable, Tracked, InUse, CreationAdmitted,
         Asks, Creations, StillUp, MayKeep, Flushed, BothCurrent, Writable, InTransfer, Tracks,
         ledgerVars, callVars
<1>4. ASSUME NEW p \in Sessions \ {s} PROVE SessionInv(p)'
  <2>1. /\ p \in Sessions /\ SessionInv(p)
        /\ UNCHANGED <<asks[p], creation[p], context[p], entries[p], file[p], made[p],
                       pending[p], fed[p], rows[p], transfer[p], closeCall[p], crash[p]>>
        /\ p \in closings' <=> p \in closings
    BY DEF Sweep, ServiceInv, ServiceTypeOK, Drops, Ends, Discards, Transferable, Tracked,
       InUse, CreationAdmitted, Asks, Creations, StillUp, MayKeep, Flushed, BothCurrent,
       Writable, InTransfer, Tracks, ledgerVars, callVars
  <2>. QED BY <2>1, Untouched
<1> QED BY <1>1, <1>2, <1>3, <1>4 DEF ServiceInv

-----------------------------------------------------------------------------
LEMMA ShutdownKeeps ==
  ASSUME ServiceInv, BeginShutdown \/ EndSessions \/ DropSessions \/ ShutdownAnswers
  PROVE  ServiceInv'
<1>1. CASE BeginShutdown
  BY <1>1, Untouched
     DEF BeginShutdown, ServiceInv, ServiceTypeOK, AnswerInv, ledgerVars, callVars
<1>2. CASE EndSessions
  <2>1. ServiceTypeOK' /\ AnswerInv'
    BY <1>2 DEF EndSessions, Ends, ServiceInv, ServiceTypeOK, AnswerInv, ledgerVars, callVars
  <2>2. \A p \in Sessions : SessionInv(p)'
    <3> SUFFICES ASSUME NEW p \in Sessions PROVE SessionInv(p)'
      OBVIOUS
    <3>1. /\ \/ context'[p] = context[p]
             \/ (context[p] \in {"live", "failed"} /\ context'[p] = "ended")
          /\ UNCHANGED <<asks, creation, entries, file, ledgerVars, transfer, closings, callVars>>
      BY <1>2 DEF EndSessions, Ends
    <3> QED BY <3>1
         DEF ServiceInv, SessionInv, RowsInv, Stage, FileInv, TransferInv, ledgerVars, callVars
  <2> QED BY <2>1, <2>2 DEF ServiceInv
<1>3. CASE DropSessions
  <2>1. ServiceTypeOK'
    BY <1>3 DEF DropSessions, Drops, ServiceInv, ServiceTypeOK, ledgerVars, callVars
  <2>2. AnswerInv'
    BY <1>3
     DEF DropSessions, Drops, ServiceInv, ServiceTypeOK, AnswerInv, SessionInv, Stage,
         ledgerVars, callVars
  <2>3. \A p \in Sessions : SessionInv(p)'
    <3> SUFFICES ASSUME NEW p \in Sessions PROVE SessionInv(p)'
      OBVIOUS
    <3>1. CASE "policies" \notin entries[p]
      <4>1. /\ UNCHANGED <<asks, creation, context, ledgerVars, transfer, callVars>>
            /\ entries'[p] = entries[p] /\ file'[p] = file[p]
            /\ p \in closings' <=> p \in closings
        BY <1>3, <3>1 DEF DropSessions, Drops
      <4> QED BY <4>1, Untouched DEF ServiceInv, ledgerVars, callVars
    <3>2. CASE "policies" \in entries[p]
      <4>1. /\ UNCHANGED <<asks, creation, context, ledgerVars, transfer, callVars>>
            /\ entries'[p] = {}
            /\ file'[p] = (IF "ledger" \in entries[p] THEN "sealed" ELSE file[p])
            /\ p \in closings' <=> p \in closings \/ "ledger" \in entries[p]
        BY <1>3, <3>2 DEF DropSessions, Drops
      <4>2. context[p] # "live"
        BY <1>3 DEF DropSessions, ServiceInv, AnswerInv
      <4> QED BY <3>2, <4>1, <4>2
              DEF ServiceInv, SessionInv, RowsInv, Stage, FileInv, TransferInv, ledgerVars, callVars
    <3> QED BY <3>1, <3>2
  <2> QED BY <2>1, <2>2, <2>3 DEF ServiceInv
<1>4. CASE ShutdownAnswers
  <2>1. ServiceTypeOK' /\ \A p \in Sessions : SessionInv(p)'
    BY <1>4, Untouched DEF ShutdownAnswers, ServiceInv, ServiceTypeOK, ledgerVars, callVars
  <2>2. AnswerInv'
    BY <1>4
     DEF ShutdownAnswers, LedgersClosed, ServiceInv, ServiceTypeOK, AnswerInv, SessionInv, FileInv
  <2> QED BY <2>1, <2>2 DEF ServiceInv
<1> QED BY <1>1, <1>2, <1>3, <1>4

LEMMA ServiceStepKeeps == ServiceInv /\ [ServiceNext]_serviceVars => ServiceInv'
<1> SUFFICES ASSUME ServiceInv, [ServiceNext]_serviceVars
             PROVE  ServiceInv'
  OBVIOUS
<1>1. CASE UNCHANGED serviceVars
  BY <1>1, Untouched DEF serviceVars, ServiceInv, ServiceTypeOK, AnswerInv
<1>2. ASSUME NEW s \in Sessions,
             \/ \E a \in Asks : CreateSession(s, a)
             \/ CreationFails(s) \/ Allocated(s)
             \/ LedgerRefuses(s) \/ LedgerOpens(s) \/ LedgerTooLate(s)
             \/ TransferStep(s) \/ TransferFails(s)
             \/ RecordRequest(s) \/ EngineCloses(s) \/ EngineCloseFails(s) \/ FileCloses(s)
             \/ CloseSession(s) \/ CloseReturns(s) \/ CloseAnswers(s)
             \/ RecoverFromCrash(s) \/ CrashSeals(s)
             \/ Expire(s) \/ Sweep(s)
      PROVE  ServiceInv'
  BY <1>2, CreateSessionKeeps, CreationFailsKeeps, AllocatedKeeps, LedgerRefusesKeeps,
     LedgerOpensKeeps, LedgerTooLateKeeps, TransferStepKeeps, TransferFailsKeeps,
     RecordRequestKeeps, EngineClosesKeeps, EngineCloseFailsKeeps, FileClosesKeeps,
     CloseSessionKeeps, CloseReturnsKeeps, CloseAnswersKeeps, RecoverFromCrashKeeps,
     CrashSealsKeeps, ExpireKeeps, SweepKeeps
<1> QED BY <1>1, <1>2, ShutdownKeeps DEF ServiceNext

\* Every reachable state of what the service keeps of its sessions.
THEOREM ServiceInvariant == ServiceSpec => []ServiceInv
<1> QED BY ServiceStarts, ServiceStepKeeps, PTL DEF ServiceSpec

LEMMA ServiceInvSealed == ServiceInv => SealedWhenAnswered
<1> SUFFICES ASSUME ServiceInv PROVE SealedWhenAnswered
  OBVIOUS
<1>1. RecordedInOrder
  BY DEF ServiceInv, SessionInv, RowsInv, RecordedInOrder, Counting
<1>2. NothingUnswept
  BY DEF ServiceInv, SessionInv, Stage, NothingUnswept
<1>3. AnsweredIsSealed
  BY DEF ServiceInv, SessionInv, FileInv, AnswerInv, AnsweredIsSealed
<1>4. TransferIsOnRecord
  <2> SUFFICES ASSUME NEW s \in Sessions
               PROVE  LET at(x) == \E i \in DOMAIN transfer[s] : transfer[s][i] = x
                      IN  /\ at("seeded") => transfer[s][1] = "prepared"
                          /\ (asks[s].source # Nobody /\ creation[s] = "answered" /\ Tracked(s)
                              /\ "hidden" \notin entries[s])
                             => at("prepared") /\ at("seeded") /\ at("completed")
    BY DEF TransferIsOnRecord
  <2>1. TransferInv(s)
    BY DEF ServiceInv, SessionInv
  <2>2. CASE transfer[s] = <<>>
    BY <2>1, <2>2 DEF TransferInv
  <2>3. CASE transfer[s] = <<"prepared">>
    BY <2>1, <2>3 DEF TransferInv
  <2>4. CASE transfer[s] = <<"prepared", "seeded">>
    BY <2>1, <2>4 DEF TransferInv
  <2>5. CASE transfer[s] = <<"prepared", "seeded", "completed">>
    <3>1. /\ DOMAIN transfer[s] = 1 .. 3 /\ transfer[s][1] = "prepared" /\ transfer[s][2] = "seeded"
          /\ transfer[s][3] = "completed"
      BY <2>5
    <3>2. 1 \in 1 .. 3 /\ 2 \in 1 .. 3 /\ 3 \in 1 .. 3
      OBVIOUS
    <3> QED BY <3>1, <3>2
  <2> QED BY <2>1, <2>2, <2>3, <2>4, <2>5 DEF TransferInv
<1> QED BY <1>1, <1>2, <1>3, <1>4 DEF ServiceInv, SealedWhenAnswered

\* A close is answered after the ledger is sealed, records are in order, nothing of an
\* ended session is left unswept, and a transfer is on record (closeSession, shutdown).
THEOREM SessionsEndSealed == ServiceSpec => []SealedWhenAnswered
<1> QED BY ServiceInvariant, ServiceInvSealed, PTL

-----------------------------------------------------------------------------
(* The events a reader is handed: SessionEvents.                           *)

\* A ledger keeps the last of what was written to it, numbered without a hole.
Keeps(ledger, log) ==
  LET kept == Len(ledger.entries)
  IN  /\ ledger.sequence = Len(log) /\ kept <= ledger.sequence
      /\ \A i \in 1 .. kept :
           /\ ledger.entries[i].seq = ledger.sequence - kept + i - 1
           /\ ledger.entries[i].type = log[ledger.entries[i].seq + 1]

LedgerInv(s) ==
  IF ledgers[s] = NoLedger THEN written[s] = <<>> ELSE Keeps(ledgers[s], written[s])

\* A reader that began in this life of the ledger is owed nothing, and has not read
\* past its end.
CursorInv(r) ==
  LET cursor == cursors[r]
  IN  /\ cursor.since >= -1 /\ cursor.began <= cursor.life /\ cursor.life <= handbacks
      /\ cursor # NoReader => cursor.stream \in Streams
      /\ cursor # NoReader /\ cursor.began = handbacks =>
           /\ owner # "gone" => cursor.since < Len(written[cursor.stream])
           /\ Owed(r) \subseteq cursor.seen \cup cursor.told

EventsInv ==
  /\ EventsTypeOK /\ LedgerDiesWithSession
  /\ \A s \in Streams : LedgerInv(s)
  /\ \A r \in Readers : CursorInv(r)

-----------------------------------------------------------------------------
Entry == [seq : Nat, type : EventTypes, size : Sizes]
Ledger == [sequence : Int, entries : Seq(Entry)]

LEMMA LeastExists ==
  ASSUME NEW S \in SUBSET Nat, S # {}
  PROVE  \E x \in S : \A y \in S : x =< y
<1> DEFINE T == {0 .. x : x \in S}
<1>0. \A x \in S : 0 .. x \in FiniteSubsetsOf(Nat)
  <2> SUFFICES ASSUME NEW x \in S PROVE 0 .. x \in FiniteSubsetsOf(Nat)
    OBVIOUS
  <2>1. x \in Int /\ 0 .. x \subseteq Nat
    OBVIOUS
  <2>2. IsFiniteSet(0 .. x)
    BY <2>1, FS_Interval
  <2> QED BY <2>1, <2>2 DEF FiniteSubsetsOf
<1>1. T \subseteq FiniteSubsetsOf(Nat) /\ T # {}
  BY <1>0
<1>2. PICK I \in T : \A J \in T : ~(<<J, I>> \in StrictSubsetOrdering(Nat))
  BY <1>1, FS_StrictSubsetOrderingWellFounded, WFMin
<1>3. PICK x \in S : I = 0 .. x
  BY <1>2
<1>4. \A y \in S : x =< y
  <2> SUFFICES ASSUME NEW y \in S, y < x PROVE FALSE
    OBVIOUS
  <2>1. 0 .. y \in T /\ 0 .. y \subseteq 0 .. x /\ x \in 0 .. x /\ x \notin 0 .. y
    OBVIOUS
  <2>2. <<0 .. y, 0 .. x>> \in StrictSubsetOrdering(Nat)
    BY <2>1 DEF StrictSubsetOrdering
  <2> QED BY <1>2, <1>3, <2>1, <2>2
<1> QED BY <1>4

LEMMA MinIsIn == ASSUME NEW S \in SUBSET Nat, S # {} PROVE Min(S) \in S
BY LeastExists DEF Min

LEMMA MaxIsIn == ASSUME NEW n \in Nat, NEW S \in SUBSET (0 .. n), S # {} PROVE Max(S) \in S
<1> DEFINE T == {n - x : x \in S}
<1>0. \A x \in S : x \in 0 .. n /\ n - x \in Nat
  OBVIOUS
<1>1. T # {} /\ T \in SUBSET Nat
  BY <1>0
<1>2. PICK t \in T : \A y \in T : t =< y
  <2> HIDE DEF T
  <2> QED BY <1>1, LeastExists
<1>3. PICK x \in S : t = n - x
  BY <1>2
<1>4. \A y \in S : x >= y
  <2> SUFFICES ASSUME NEW y \in S PROVE x >= y
    OBVIOUS
  <2>1. n - y \in T /\ n - x =< n - y
    BY <1>2, <1>3
  <2> QED BY <1>0, <2>1
<1> QED BY <1>4 DEF Max

LEMMA EvictKeepsTheTail ==
  ASSUME NEW list \in Seq(Entry), NEW size
  PROVE  \E drop \in 0 .. Len(list) :
           Evict(list, size) = SubSeq(list, drop + 1, Len(list))
<1> DEFINE S == {n \in 0 .. Len(list) :
                   \/ n = Len(list)
                   \/ Fits(SubSeq(list, n + 1, Len(list)), size)}
<1>1. S \in SUBSET Nat /\ S # {}
  OBVIOUS
<1>2. Min(S) \in S
  BY <1>1, MinIsIn
<1>3. Min(S) \in 0 .. Len(list)
  BY <1>2
<1>4. Evict(list, size) = SubSeq(list, Min(S) + 1, Len(list))
  BY DEF Evict
<1> QED BY <1>3, <1>4

\* What a ledger that keeps its log has at each place.
LEMMA KeptAt ==
  ASSUME NEW ledger \in Ledger, NEW log \in Seq(EventTypes), Keeps(ledger, log)
  PROVE  /\ ledger.entries \in Seq(Entry) /\ Len(ledger.entries) \in Nat
         /\ ledger.sequence \in Nat /\ ledger.sequence = Len(log)
         /\ Len(ledger.entries) <= ledger.sequence
         /\ \A i \in 1 .. Len(ledger.entries) :
              /\ ledger.entries[i].seq = ledger.sequence - Len(ledger.entries) + i - 1
              /\ ledger.entries[i].type = log[ledger.entries[i].seq + 1]
BY DEF Keeps, Ledger

\* Where an entry stands that is kept when the first of them are dropped.
LEMMA PlaceKept ==
  ASSUME NEW n \in Nat, NEW k \in Nat, k <= n, NEW drop \in 0 .. k,
         NEW i \in 1 .. k - drop, NEW j \in 1 .. k, j = drop + i
  PROVE  /\ n - k + j - 1 + 1 \in 1 .. n
         /\ n - k + j - 1 = (n + 1) - (k - drop + 1) + i - 1
<1>1. j >= 1 /\ j <= k /\ j \in Int /\ i \in Int /\ drop \in Int
  OBVIOUS
<1> QED BY <1>1

\* What is written is kept, and what stays is the last of what was kept.
LEMMA PushKeeps ==
  ASSUME NEW ledger \in Ledger, NEW log \in Seq(EventTypes), Keeps(ledger, log),
         NEW event \in [type : EventTypes, size : Sizes]
  PROVE  push(ledger, event) \in Ledger /\ Keeps(push(ledger, event), Append(log, event.type))
<1> DEFINE new == [seq |-> ledger.sequence, type |-> event.type, size |-> event.size]
<1>1. PICK list \in Seq(Entry), k \in Nat, n \in Nat :
        list = ledger.entries /\ k = Len(list) /\ n = ledger.sequence
  BY KeptAt
<1>2. /\ n = Len(log) /\ k <= n
      /\ \A i \in 1 .. k : /\ list[i].seq = n - k + i - 1
                           /\ list[i].type = log[list[i].seq + 1]
  BY <1>1, KeptAt
<1>3. new \in Entry /\ new.seq = n /\ new.type = event.type /\ event.type \in EventTypes
  BY <1>1 DEF Entry
<1>4. PICK drop \in 0 .. k : Evict(list, event.size) = SubSeq(list, drop + 1, k)
  BY <1>1, EvictKeepsTheTail
<1> DEFINE rest == SubSeq(list, drop + 1, k)
<1>50. /\ rest \in Seq(Entry) /\ Len(rest) = k - (drop + 1) + 1
       /\ \A i \in 1 .. k - (drop + 1) + 1 : rest[i] = list[(drop + 1) + i - 1]
  <2>1. drop + 1 \in 1 .. Len(list) + 1 /\ k \in (drop + 1) - 1 .. Len(list)
    BY <1>1
  <2> QED BY <2>1, SubSeqProperties
<1>5. PICK tail \in Seq(Entry) :
        /\ tail = SubSeq(list, drop + 1, k) /\ Len(tail) = k - drop
        /\ \A i \in 1 .. k - drop : tail[i] = list[drop + i]
  <2>1. k - (drop + 1) + 1 = k - drop /\ \A i \in Int : (drop + 1) + i - 1 = drop + i
    OBVIOUS
  <2>2. Len(rest) = k - drop /\ \A i \in 1 .. k - drop : rest[i] = list[drop + i]
    BY <1>50, <2>1
  <2> QED BY <1>50, <2>2
<1> HIDE DEF rest
<1>6. push(ledger, event) = [sequence |-> n + 1, entries |-> Append(tail, new)]
  BY <1>1, <1>4, <1>5 DEF push
<1> HIDE DEF new
<1>7. PICK next \in Seq(Entry) :
        /\ next = Append(tail, new) /\ Len(next) = k - drop + 1
        /\ \A i \in 1 .. k - drop : next[i] = list[drop + i]
        /\ next[k - drop + 1] = new
  <2>1. /\ Append(tail, new) \in Seq(Entry) /\ Len(Append(tail, new)) = Len(tail) + 1
        /\ \A i \in 1 .. Len(tail) : Append(tail, new)[i] = tail[i]
        /\ Append(tail, new)[Len(tail) + 1] = new
    BY <1>3, AppendProperties
  <2> QED BY <1>5, <2>1
<1>8. PICK longer \in Seq(EventTypes) :
        /\ longer = Append(log, event.type) /\ Len(longer) = n + 1
        /\ longer[n + 1] = event.type /\ \A i \in 1 .. n : longer[i] = log[i]
  <2>1. /\ Append(log, event.type) \in Seq(EventTypes)
        /\ Len(Append(log, event.type)) = Len(log) + 1
        /\ \A i \in 1 .. Len(log) : Append(log, event.type)[i] = log[i]
        /\ Append(log, event.type)[Len(log) + 1] = event.type
    BY <1>3, AppendProperties
  <2> QED BY <1>2, <2>1
<1>9. \A i \in 1 .. k - drop + 1 :
        /\ next[i].seq = (n + 1) - (k - drop + 1) + i - 1
        /\ next[i].type = longer[next[i].seq + 1]
  <2> SUFFICES ASSUME NEW i \in 1 .. k - drop + 1
               PROVE  /\ next[i].seq = (n + 1) - (k - drop + 1) + i - 1
                      /\ next[i].type = longer[next[i].seq + 1]
    OBVIOUS
  <2>1. CASE i = k - drop + 1
    BY <1>3, <1>7, <1>8, <2>1
  <2>2. CASE i # k - drop + 1
    <3>0. i \in 1 .. k - drop /\ drop + i \in 1 .. k
      BY <2>2
    <3>1. i \in 1 .. k - drop /\ drop + i \in 1 .. k /\ next[i] = list[drop + i]
      BY <1>7, <3>0
    <3>2. PICK j \in 1 .. k : j = drop + i
      BY <3>1
    <3>3. /\ list[j].seq = n - k + j - 1 /\ list[j].type = log[list[j].seq + 1]
          /\ next[i] = list[j]
      BY <1>2, <3>1, <3>2
    <3>4. n - k + j - 1 + 1 \in 1 .. n /\ n - k + j - 1 = (n + 1) - (k - drop + 1) + i - 1
      BY <1>2, <3>0, <3>2, PlaceKept
    <3> QED BY <1>8, <3>3, <3>4
  <2> QED BY <2>1, <2>2
<1>10. [sequence |-> n + 1, entries |-> next] \in Ledger
  BY DEF Ledger
<1>11. Keeps([sequence |-> n + 1, entries |-> next], longer)
  <2> DEFINE led == [sequence |-> n + 1, entries |-> next]
  <2>1. led.sequence = n + 1 /\ led.entries = next
    OBVIOUS
  <2>2. n + 1 = Len(longer) /\ Len(next) = k - drop + 1 /\ k - drop + 1 <= n + 1
    BY <1>2, <1>7, <1>8
  <2> HIDE DEF led
  <2>3. Keeps(led, longer)
    BY <1>9, <2>1, <2>2 DEF Keeps
  <2> QED BY <2>3 DEF led
<1> QED BY <1>6, <1>7, <1>8, <1>10, <1>11

LEMMA OldestKept ==
  ASSUME NEW ledger \in Ledger, NEW log \in Seq(EventTypes), Keeps(ledger, log)
  PROVE  oldestSeq(ledger) = ledger.sequence - Len(ledger.entries) /\ oldestSeq(ledger) \in Nat
<1>1. PICK list \in Seq(Entry), k \in Nat, n \in Nat :
        /\ list = ledger.entries /\ k = Len(list) /\ n = ledger.sequence /\ k <= n
        /\ \A i \in 1 .. k : list[i].seq = n - k + i - 1
  BY KeptAt
<1>2. CASE list = <<>>
  BY <1>1, <1>2 DEF oldestSeq
<1>3. CASE list # <<>>
  <2>1. 1 \in 1 .. k
    BY <1>1, <1>3
  <2>2. list[1].seq = n - k
    BY <1>1, <2>1
  <2> QED BY <1>1, <1>3, <2>2 DEF oldestSeq
<1> QED BY <1>2, <1>3

\* A place among the last k of n comes before n.
LEMMA PlaceBelow ==
  ASSUME NEW n \in Nat, NEW k \in Nat, NEW m \in 1 .. k
  PROVE  n - k + m - 1 < n
OBVIOUS

\* A page gives every row of the kinds asked for, from the cursor to what was scanned.
LEMMA ScanCovers ==
  ASSUME NEW ledger \in Ledger, NEW log \in Seq(EventTypes), Keeps(ledger, log),
         NEW since \in Int, since >= -1, NEW types, NEW filtered
  PROVE  LET page == Scan(ledger, since, types, filtered)
         IN  /\ page.lastScanned \in Int /\ page.lastScanned >= since /\ page.rows \subseteq Nat
             /\ since < Len(log) => page.lastScanned < Len(log)
             /\ \A n \in Nat :
                  /\ n > since /\ n <= page.lastScanned /\ n >= oldestSeq(ledger)
                  /\ log[n + 1] \in types
                  => n \in page.rows
<1> DEFINE list == ledger.entries
           RowsIn(n) == {i \in 1 .. n : list[i].seq > since /\ list[i].type \in types}
           Stops(n) == /\ list[n].seq > since
                       /\ \/ Cardinality(RowsIn(n - 1)) >= PageLimit
                          \/ filtered /\ Bytes(list, RowsIn(n)) > ResponseBytes
           S == {n \in 0 .. Len(list) : \A m \in 1 .. n : ~Stops(m)}
           scanned == Max(S)
           page == Scan(ledger, since, types, filtered)
<1>1. /\ list \in Seq(Entry) /\ ledger.sequence \in Nat /\ ledger.sequence = Len(log)
      /\ Len(list) <= ledger.sequence /\ Len(list) \in Nat
  BY KeptAt
<1>2. scanned \in 0 .. Len(list)
  <2> HIDE DEF Stops
  <2>1. S \in SUBSET (0 .. Len(list)) /\ 0 \in S
    BY <1>1
  <2>2. Len(list) \in Nat
    BY <1>1
  <2>3. Max(S) \in S
    <3> HIDE DEF S
    <3> QED BY <2>1, <2>2, MaxIsIn
  <2> QED BY <2>3
<1>3. page = [rows |-> {list[i].seq : i \in RowsIn(scanned)},
              lastScanned |-> IF scanned > 0 /\ list[scanned].seq > since
                              THEN list[scanned].seq ELSE since]
  BY DEF Scan
<1> HIDE DEF scanned, page
<1>4. PICK es \in Seq(Entry), k \in Nat, n \in Nat, m \in Nat :
        /\ es = list /\ k = Len(es) /\ n = ledger.sequence /\ k <= n /\ n = Len(log)
        /\ m = scanned /\ m <= k
  BY <1>1, <1>2
<1>5. \A i \in 1 .. k : es[i].seq = n - k + i - 1 /\ es[i].type = log[es[i].seq + 1]
                        /\ es[i].seq \in Nat
  <2>1. \A i \in 1 .. k : es[i] \in Entry
    BY <1>4
  <2>2. \A i \in 1 .. k : es[i].seq \in Nat
    BY <2>1 DEF Entry
  <2>3. \A i \in 1 .. k : es[i].seq = n - k + i - 1 /\ es[i].type = log[es[i].seq + 1]
    BY <1>4, KeptAt
  <2> QED BY <2>2, <2>3
<1>6. /\ page.rows = {es[i].seq : i \in {i \in 1 .. m : es[i].seq > since /\ es[i].type \in types}}
      /\ page.lastScanned = IF m > 0 /\ es[m].seq > since THEN es[m].seq ELSE since
  BY <1>3, <1>4
<1>60. \A i \in 1 .. m : i \in 1 .. k
  BY <1>4
<1>7. page.rows \subseteq Nat
  BY <1>5, <1>6, <1>60
<1>8. /\ page.lastScanned \in Int /\ page.lastScanned >= since
      /\ since < Len(log) => page.lastScanned < Len(log)
  <2>1. CASE m > 0 /\ es[m].seq > since
    <3>1. m \in 1 .. k
      BY <1>4, <2>1
    <3>2. page.lastScanned = es[m].seq /\ es[m].seq = n - k + m - 1 /\ es[m].seq \in Nat
      BY <1>5, <1>6, <2>1, <3>1
    <3>3. n - k + m - 1 < n
      BY <3>1, PlaceBelow
    <3>4. page.lastScanned \in Int /\ page.lastScanned > since /\ page.lastScanned < n
      <4> HIDE DEF page, list
      <4> QED BY <2>1, <3>2, <3>3
    <3> QED BY <1>4, <3>4
  <2>2. CASE ~(m > 0 /\ es[m].seq > since)
    <3>1. page.lastScanned = since
      BY <1>6, <2>2
    <3> QED BY <3>1
  <2> QED BY <2>1, <2>2
<1>9. oldestSeq(ledger) = n - k
  BY <1>4, OldestKept
<1>10. \A p \in Nat : /\ p > since /\ p <= page.lastScanned /\ p >= oldestSeq(ledger)
                      /\ log[p + 1] \in types
                      => p \in page.rows
  <2> SUFFICES ASSUME NEW p \in Nat, p > since, p <= page.lastScanned, p >= n - k,
                      log[p + 1] \in types
               PROVE  p \in page.rows
    BY <1>9
  <2>1. m > 0 /\ page.lastScanned = es[m].seq /\ m \in 1 .. k
    BY <1>4, <1>6
  <2>2. PICK i \in Int : i = p - (n - k) + 1
    OBVIOUS
  <2>3. i \in 1 .. m /\ i \in 1 .. k /\ es[i].seq = p
    BY <1>5, <2>1, <2>2
  <2>4. es[i].type \in types /\ es[i].seq > since
    BY <1>5, <2>3
  <2> QED BY <1>6, <2>3, <2>4
<1> QED BY <1>7, <1>8, <1>10 DEF page

-----------------------------------------------------------------------------
LEMMA EventsStart == EventsInit => EventsInv
<1> SUFFICES ASSUME EventsInit PROVE EventsInv
  OBVIOUS
<1>1. EventsTypeOK
  BY DEF EventsInit, EventsTypeOK, NoLedger, NoReader, Streams
<1>2. \A s \in Streams : LedgerInv(s)
  BY DEF EventsInit, LedgerInv
<1>3. \A r \in Readers : CursorInv(r)
  BY DEF EventsInit, CursorInv, NoReader
<1>4. LedgerDiesWithSession
  BY DEF EventsInit, LedgerDiesWithSession
<1> QED BY <1>1, <1>2, <1>3, <1>4 DEF EventsInv

LEMMA NewLedgerKeeps == NewLedger \in Ledger /\ Keeps(NewLedger, <<>>)
<1>1. NewLedger.sequence = 0 /\ NewLedger.entries = <<>> /\ NewLedger \in Ledger
  BY DEF NewLedger, Ledger
<1> QED BY <1>1 DEF Keeps

LEMMA RecordKeeps ==
  ASSUME EventsInv, canPublishEvents, NEW type \in EventTypes, NEW size \in Sizes,
         recordEvent([type |-> type, size |-> size]),
         UNCHANGED <<owner, agentActive, cursors, handbacks>>, offered' \in Nat
  PROVE  EventsInv'
<1> DEFINE event == [type |-> type, size |-> size]
           name == StreamOf(type)
           ledger == IF ledgers[name] = NoLedger THEN NewLedger ELSE ledgers[name]
           next == IF Accepts(event) THEN push(ledger, event) ELSE ledger
           log == written[name]
           longer == IF Accepts(event) THEN Append(log, type) ELSE log
<1>1. /\ event \in [type : EventTypes, size : Sizes] /\ event.type = type
      /\ name \in Streams /\ log \in Seq(EventTypes) /\ owner # "gone"
  BY DEF StreamOf, Streams, EventsInv, EventsTypeOK, canPublishEvents
<1>2. ledger \in Ledger /\ Keeps(ledger, log)
  <2>1. CASE ledgers[name] = NoLedger
    BY <1>1, <2>1, NewLedgerKeeps DEF EventsInv, LedgerInv
  <2>2. CASE ledgers[name] # NoLedger
    BY <1>1, <2>2 DEF EventsInv, EventsTypeOK, LedgerInv, Ledger, Entry
  <2> QED BY <2>1, <2>2
<1>3. ledgers' = [ledgers EXCEPT ![name] = next]
  BY <1>1, Zenon DEF recordEvent
<1>4. written' = IF Accepts(event) THEN [written EXCEPT ![name] = Append(@, type)] ELSE written
  BY <1>1, Zenon DEF recordEvent
<1> HIDE DEF ledger, event, name
<1>5. next \in Ledger /\ Keeps(next, longer) /\ longer \in Seq(EventTypes)
  <2>1. CASE Accepts(event)
    BY <1>1, <1>2, <2>1, PushKeeps
  <2>2. CASE ~Accepts(event)
    BY <1>1, <1>2, <2>2
  <2> QED BY <2>1, <2>2
<1>6. written' = [written EXCEPT ![name] = longer]
  <2>1. written \in [Streams -> Seq(EventTypes)]
    BY DEF EventsInv, EventsTypeOK
  <2> QED BY <1>1, <1>4, <2>1
<1>7. /\ Len(log) <= Len(longer)
      /\ \A n \in Nat : n < Len(log) => longer[n + 1] = log[n + 1]
  <2>1. /\ Len(Append(log, type)) = Len(log) + 1
        /\ \A i \in 1 .. Len(log) : Append(log, type)[i] = log[i]
    BY <1>1, AppendProperties
  <2>2. Len(log) \in Nat
    BY <1>1
  <2> QED BY <2>1, <2>2
<1> HIDE DEF next, longer
<1>8. EventsTypeOK'
  BY <1>1, <1>3, <1>5, <1>6 DEF EventsInv, EventsTypeOK, Ledger, Entry
<1>9. \A s \in Streams : LedgerInv(s)'
  <2> SUFFICES ASSUME NEW s \in Streams PROVE LedgerInv(s)'
    OBVIOUS
  <2>1. CASE s = name
    <3>1. ledgers'[s] = next /\ written'[s] = longer /\ next # NoLedger
      <4>1. next.sequence >= 0
        BY <1>5, KeptAt
      <4> QED BY <1>1, <1>3, <1>6, <2>1, <4>1 DEF EventsInv, EventsTypeOK, NoLedger
    <3> QED BY <1>5, <3>1 DEF LedgerInv
  <2>2. CASE s # name
    BY <1>3, <1>6, <2>2 DEF EventsInv, EventsTypeOK, LedgerInv
  <2> QED BY <2>1, <2>2
<1>10. \A r \in Readers : CursorInv(r)'
  <2> SUFFICES ASSUME NEW r \in Readers PROVE CursorInv(r)'
    OBVIOUS
  <2>1. CursorInv(r) /\ cursors'[r] = cursors[r]
    BY DEF EventsInv
  <2>2. CASE cursors[r] # NoReader /\ cursors[r].began = handbacks
    <3> DEFINE s == cursors[r].stream
    <3>1. /\ s \in Streams /\ cursors[r].since < Len(written[s])
          /\ Owed(r) \subseteq cursors[r].seen \cup cursors[r].told
      BY <1>1, <2>1, <2>2 DEF CursorInv
    <3>2. /\ Len(written[s]) <= Len(written'[s]) /\ Len(written[s]) \in Nat
          /\ Len(written'[s]) \in Nat
          /\ \A n \in Nat : n < Len(written[s]) => written'[s][n + 1] = written[s][n + 1]
      BY <1>1, <1>5, <1>6, <1>7, <3>1 DEF EventsInv, EventsTypeOK
    <3>3. cursors[r].since \in Int
      BY DEF EventsInv, EventsTypeOK
    <3>4. Owed(r)' \subseteq Owed(r)
      BY SMTT(30), <2>1, <3>1, <3>2, <3>3 DEF Owed
    <3> HIDE DEF s
    <3>5. cursors[r].since < Len(written'[s])
      BY <3>1, <3>2, <3>3
    <3> QED BY <2>1, <3>1, <3>4, <3>5 DEF CursorInv, s
  <2>3. CASE ~(cursors[r] # NoReader /\ cursors[r].began = handbacks)
    BY <2>1, <2>3 DEF CursorInv
  <2> QED BY <2>2, <2>3
<1>11. LedgerDiesWithSession'
  BY <1>1 DEF LedgerDiesWithSession
<1> QED BY <1>8, <1>9, <1>10, <1>11 DEF EventsInv

LEMMA PumpKeeps ==
  ASSUME EventsInv, NEW type \in EventTypes, NEW size \in Sizes, PumpEvent(type, size)
  PROVE  EventsInv'
<1>1. UNCHANGED <<owner, agentActive, cursors, handbacks>> /\ offered' \in Nat
  BY DEF PumpEvent, EventsInv, EventsTypeOK
<1>2. CASE canPublishEvents
  BY <1>1, <1>2, RecordKeeps DEF PumpEvent
<1>3. CASE ~canPublishEvents
  BY <1>1, <1>3
   DEF PumpEvent, EventsInv, EventsTypeOK, LedgerDiesWithSession, LedgerInv, CursorInv, Owed
<1> QED BY <1>2, <1>3

\* A page that was asked for at a cursor covers what was owed up to the next one.
LEMMA ReadKeeps ==
  ASSUME EventsInv, NEW r \in Readers, NEW name \in Streams, NEW filtered \in BOOLEAN,
         NEW types \in SUBSET EventTypes, ReadEvents(r, name, types, filtered)
  PROVE  EventsInv'
<1> DEFINE ledger == ledgers[name]
           first == cursors[r] = NoReader
           since == cursors[r].since
           page == IF ledger = NoLedger THEN [rows |-> {}, lastScanned |-> since]
                   ELSE Scan(ledger, since, types, filtered)
           missed == IF ledger # NoLedger /\ (first \/ Gap(ledger, since))
                     THEN 0 .. oldestSeq(ledger) - 1 ELSE {}
           Kept(known) == IF cursors[r].life = handbacks THEN known ELSE {}
           seen == Kept(cursors[r].seen)
           told == Kept(cursors[r].told)
           began == IF first THEN handbacks ELSE cursors[r].began
           last == page.lastScanned
           given == page.rows
           next == [stream |-> name, types |-> types, filtered |-> filtered, since |-> last,
                    seen |-> seen \cup given, told |-> told \cup missed, life |-> handbacks,
                    began |-> began]
<1>1. /\ UNCHANGED <<owner, agentActive, ledgers, offered, written, handbacks>>
      /\ owner = "live"
      /\ first \/ (cursors[r].stream = name /\ cursors[r].types = types)
  BY DEF ReadEvents
<1>2. cursors' = [cursors EXCEPT ![r] = next]
  BY Zenon DEF ReadEvents
<1>3. /\ since \in Int /\ since >= -1 /\ cursors[r].life \in Nat /\ cursors[r].began \in Nat
      /\ handbacks \in Nat /\ cursors[r].began <= cursors[r].life
      /\ cursors[r].life <= handbacks
      /\ cursors[r].seen \in SUBSET Nat /\ cursors[r].told \in SUBSET Nat
      /\ CursorInv(r)
  BY DEF EventsInv, EventsTypeOK, CursorInv
<1>4. /\ began \in Nat /\ began <= handbacks /\ seen \subseteq Nat /\ told \subseteq Nat
      /\ first => since = -1
  BY <1>3 DEF NoReader
<1>5. /\ written[name] \in Seq(EventTypes) /\ Len(written[name]) \in Nat
  BY DEF EventsInv, EventsTypeOK
<1>7. ASSUME ledger # NoLedger
      PROVE  /\ last \in Int /\ last >= since /\ given \subseteq Nat
             /\ since < Len(written[name]) => last < Len(written[name])
             /\ \A n \in Nat :
                  /\ n > since /\ n <= last /\ n >= oldestSeq(ledger)
                  /\ written[name][n + 1] \in types
                  => n \in given
             /\ oldestSeq(ledger) \in Nat
             /\ missed = IF first \/ Gap(ledger, since) THEN 0 .. oldestSeq(ledger) - 1 ELSE {}
  <2>1. /\ ledger \in Ledger /\ written[name] \in Seq(EventTypes)
        /\ Keeps(ledger, written[name])
    BY <1>7 DEF EventsInv, EventsTypeOK, LedgerInv, Ledger, Entry
  <2>2. since \in Int /\ since >= -1
    BY <1>3
  <2>3. page = Scan(ledger, since, types, filtered)
    BY <1>7
  <2>4. missed = IF first \/ Gap(ledger, since) THEN 0 .. oldestSeq(ledger) - 1 ELSE {}
    BY <1>7
  <2> HIDE DEF ledger, since, page, missed
  <2>5. oldestSeq(ledger) \in Nat
    BY <2>1, OldestKept, KeptAt
  <2>6. /\ last \in Int /\ last >= since /\ given \subseteq Nat
        /\ since < Len(written[name]) => last < Len(written[name])
        /\ \A n \in Nat :
             /\ n > since /\ n <= last /\ n >= oldestSeq(ledger)
             /\ written[name][n + 1] \in types
             => n \in given
    BY <2>1, <2>2, <2>3, ScanCovers
  <2> QED BY <2>4, <2>5, <2>6
<1>8. ledger = NoLedger => last = since /\ given = {} /\ missed = {}
  OBVIOUS
<1> HIDE DEF page, last, given
<1>9. /\ last \in Int /\ last >= since /\ given \subseteq Nat /\ missed \subseteq Nat
      /\ since < Len(written[name]) => last < Len(written[name])
  <2> HIDE DEF ledger, since, first, missed
  <2>1. CASE ledger = NoLedger
    BY <1>3, <1>8, <2>1
  <2>2. CASE ledger # NoLedger
    BY <1>7, <2>2
  <2> QED BY <2>1, <2>2
<1>10. \A n \in 0 .. last :
         /\ n < Len(written[name]) /\ written[name][n + 1] \in types
         /\ ~first => began = handbacks
         => \/ n <= since
            \/ n \in given \cup missed
  <2> SUFFICES ASSUME NEW n \in 0 .. last, n > since, written[name][n + 1] \in types
               PROVE  n \in given \cup missed
    BY <1>3, <1>9
  <2>1. n \in Nat /\ n <= last
    BY <1>9
  <2>2. ledger # NoLedger
    <3> HIDE DEF ledger, since
    <3> QED BY <1>3, <1>8, <2>1
  <2>3. CASE n >= oldestSeq(ledger)
    <3> HIDE DEF ledger, since
    <3> QED BY <1>7, <2>1, <2>2, <2>3
  <2>4. CASE ~(n >= oldestSeq(ledger))
    <3>1. oldestSeq(ledger) \in Nat
      BY <1>7, <2>2
    <3>2. first \/ Gap(ledger, since)
      <4> HIDE DEF ledger, since
      <4> QED BY <1>3, <1>4, <2>1, <2>4, <3>1 DEF Gap
    <3>3. missed = 0 .. oldestSeq(ledger) - 1
      BY <1>7, <2>2, <3>2
    <3> HIDE DEF ledger, since, missed
    <3> QED BY <2>1, <2>4, <3>1, <3>3
  <2> QED BY <2>3, <2>4
<1> HIDE DEF missed, ledger
<1>11. ~first /\ began = handbacks
         => /\ since < Len(written[name]) /\ seen = cursors[r].seen /\ told = cursors[r].told
            /\ \A n \in 0 .. since :
                 n < Len(written[name]) /\ written[name][n + 1] \in types
                 => n \in seen \cup told
  BY <1>1, <1>3 DEF CursorInv, Owed
<1> HIDE DEF seen, told, first, since
<1>12. began = handbacks
         => /\ last < Len(written[name])
            /\ \A n \in 0 .. last :
                 n < Len(written[name]) /\ written[name][n + 1] \in types
                 => n \in (seen \cup given) \cup (told \cup missed)
  <2> HIDE DEF began
  <2> SUFFICES ASSUME began = handbacks
               PROVE  /\ last < Len(written[name])
                      /\ \A n \in 0 .. last :
                           n < Len(written[name]) /\ written[name][n + 1] \in types
                           => n \in (seen \cup given) \cup (told \cup missed)
    OBVIOUS
  <2>1. since < Len(written[name])
    BY <1>3, <1>4, <1>5, <1>11
  <2>2. ASSUME NEW n \in 0 .. last, n < Len(written[name]), written[name][n + 1] \in types
        PROVE  n \in (seen \cup given) \cup (told \cup missed)
    <3>1. n <= since \/ n \in given \cup missed
      BY <1>10, <2>2
    <3>2. ASSUME n <= since PROVE ~first /\ n \in 0 .. since
      BY <1>3, <1>4, <1>9, <3>2
    <3> QED BY <1>11, <2>2, <3>1, <3>2
  <2> QED BY <1>9, <2>1, <2>2
<1> HIDE DEF began
<1>13. /\ next.stream = name /\ next.types = types /\ next.since = last
       /\ next.seen = seen \cup given /\ next.told = told \cup missed
       /\ next.life = handbacks /\ next.began = began
  OBVIOUS
<1>14. next \in [stream : Streams \cup {"none"}, types : SUBSET EventTypes, filtered : BOOLEAN,
                 since : Int, seen : SUBSET Nat, told : SUBSET Nat, life : Nat, began : Nat]
  BY <1>3, <1>4, <1>9
<1> HIDE DEF next
<1>15. EventsTypeOK'
  BY <1>1, <1>2, <1>14 DEF EventsInv, EventsTypeOK
<1>16. cursors'[r] = next /\ \A q \in Readers \ {r} : cursors'[q] = cursors[q]
  BY <1>2 DEF EventsInv, EventsTypeOK
<1>17. \A q \in Readers \ {r} : CursorInv(q)'
  BY <1>1, <1>16 DEF EventsInv, CursorInv, Owed
<1>18. CursorInv(r)'
  <2>1. last >= -1
    BY <1>3, <1>9
  <2> QED BY <1>1, <1>3, <1>4, <1>12, <1>13, <1>16, <2>1 DEF CursorInv, Owed
<1> QED BY <1>1, <1>15, <1>17, <1>18 DEF EventsInv, LedgerInv, LedgerDiesWithSession

\* A person's turn, the end of a session: the ledgers go with what was written to them.
LEMMA EnvironmentKeepsEvents ==
  ASSUME EventsInv, PersonTakesOver \/ Handback \/ AgentResumes \/ Abort \/ deleteSessionState
  PROVE  EventsInv'
<1>1. CASE PersonTakesOver \/ AgentResumes \/ Abort
  BY <1>1 DEF PersonTakesOver, AgentResumes, Abort, EventsInv, EventsTypeOK, LedgerInv,
              LedgerDiesWithSession, CursorInv, Owed
<1>2. CASE Handback \/ deleteSessionState
  <2>1. /\ ledgers' = [s \in Streams |-> NoLedger] /\ written' = [s \in Streams |-> <<>>]
        /\ UNCHANGED <<agentActive, cursors, offered>> /\ handbacks' \in Nat
        /\ handbacks <= handbacks'
        /\ owner' \in {"live", "gone"} /\ (owner' = "live" => handbacks' = handbacks + 1)
    BY <1>2 DEF Handback, deleteSessionState, EventsInv, EventsTypeOK
  <2>2. EventsTypeOK'
    BY <2>1 DEF EventsInv, EventsTypeOK, NoLedger
  <2>3. \A s \in Streams : LedgerInv(s)'
    BY <2>1 DEF LedgerInv
  <2>4. \A r \in Readers : CursorInv(r)'
    <3> SUFFICES ASSUME NEW r \in Readers PROVE CursorInv(r)'
      OBVIOUS
    <3>1. /\ cursors'[r] = cursors[r] /\ CursorInv(r) /\ cursors[r].began \in Nat
          /\ cursors[r].life \in Nat /\ handbacks \in Nat
      BY <2>1 DEF EventsInv, EventsTypeOK
    <3>2. cursors[r] # NoReader => Owed(r)' = {}
      BY <2>1, <3>1 DEF Owed, CursorInv
    <3> QED BY <2>1, <3>1, <3>2 DEF CursorInv
  <2> QED BY <2>1, <2>2, <2>3, <2>4 DEF EventsInv, LedgerDiesWithSession
<1> QED BY <1>1, <1>2

LEMMA EventsStepKeeps == EventsInv /\ [EventsNext]_eventVars => EventsInv'
<1> SUFFICES ASSUME EventsInv, [EventsNext]_eventVars PROVE EventsInv'
  OBVIOUS
<1>1. CASE UNCHANGED eventVars
  BY <1>1 DEF eventVars, EventsInv, EventsTypeOK, LedgerInv, LedgerDiesWithSession, CursorInv, Owed
<1>2. CASE \E type \in EventTypes, size \in Sizes : PumpEvent(type, size) \/ PumpEnds(type, size)
  BY <1>2, PumpKeeps DEF PumpEnds
<1>3. CASE \E r \in Readers, name \in Streams, filtered \in BOOLEAN :
             \E types \in SUBSET EventTypes \ {{}} :
               /\ filtered \/ Cardinality(types) = 1
               /\ ReadEvents(r, name, types, filtered)
  BY <1>3, ReadKeeps
<1> QED BY <1>1, <1>2, <1>3, EnvironmentKeepsEvents DEF EventsNext

\* Every reachable state of a session's event history and of its readers.
THEOREM EventsInvariant == EventsSpec => []EventsInv
<1> QED BY EventsStart, EventsStepKeeps, PTL DEF EventsSpec

LEMMA EventsInvTells == EventsInv => ReaderIsTold
<1> SUFFICES ASSUME EventsInv PROVE ReaderIsTold
  OBVIOUS
<1>1. ReaderKnows
  BY DEF EventsInv, CursorInv, ReaderKnows, NoReader, Streams
<1> QED BY <1>1 DEF EventsInv, ReaderIsTold

\* A reader that follows its cursor is given every event of its kind or told of the gap,
\* and a ledger dies with its session (page, scanPage, deleteSessionState).
THEOREM ReadersAreTold == EventsSpec => []ReaderIsTold
<1> QED BY EventsInvariant, EventsInvTells, PTL

-----------------------------------------------------------------------------
(* The pages the service registers: popups are counted when their adoption *)
(* starts and added when the engine answers, with awaits in between.       *)

\* One adoption is at its await, and while it is, there is room for its popup; nothing is
\* registered once the session is dropped.
ListedInv ==
  /\ IsFiniteSet(pages) /\ Cardinality(Popups) <= MaxPopups
  /\ \A a, b \in adopting : a = b
  /\ \A a \in adopting : ~a.full => Cardinality(Popups) < MaxPopups
  /\ session = "dropped" => pages = {}

LEMMA PagesInitHolds == PagesInit => ListedInv
<1>. SUFFICES ASSUME PagesInit PROVE ListedInv
  OBVIOUS
<1>1. pages = {} /\ adopting = {} /\ Popups = {}
  BY DEF PagesInit, Popups
<1>. QED BY <1>1, FS_EmptySet, PopupsAssumption DEF ListedInv

LEMMA PopupsCounted ==
  ASSUME IsFiniteSet(pages)
  PROVE  IsFiniteSet(Popups) /\ Cardinality(Popups) \in Nat
<1>1. Popups \subseteq pages
  BY DEF Popups
<1>. QED BY <1>1, FS_Subset, FS_CardinalityType

\* Entries and adoptions go, none comes.
LEMMA EntriesGo ==
  ASSUME ListedInv, pages' \subseteq pages, adopting' \subseteq adopting,
         session' = session \/ (session' = "dropped" /\ pages' = {}) \/ session' = "ended"
  PROVE  ListedInv'
<1>1. IsFiniteSet(pages') /\ Popups' \subseteq Popups
  BY FS_Subset DEF ListedInv, Popups
<1>2. IsFiniteSet(Popups) /\ Cardinality(Popups) \in Nat
  BY PopupsCounted DEF ListedInv
<1>3. Cardinality(Popups') \in Nat /\ Cardinality(Popups') <= Cardinality(Popups)
  BY <1>1, <1>2, FS_Subset, FS_CardinalityType
<1>. QED BY <1>1, <1>2, <1>3, PopupsAssumption DEF ListedInv

LEMMA MakesKeep == ASSUME ListedInv, NEW p \in MadePages, Make(p) PROVE ListedInv'
<1>1. CASE CreatePage(p) \/ MakingFails(p) \/ Navigated(p) \/ NavigationFails(p)
  BY <1>1, EntriesGo DEF CreatePage, MakingFails, Navigated, NavigationFails
<1>2. CASE \E b \in BOOLEAN : UndoCreation(p, b)
  BY <1>2, EntriesGo DEF UndoCreation
<1>3. CASE \E b \in BOOLEAN : PageCreated(p, b)
  <2>1. CASE session # "live"
    BY <1>3, <2>1, EntriesGo DEF PageCreated
  <2>2. CASE session = "live"
    <3> DEFINE e == [id |-> ids + 1, page |-> p, opener |-> 0]
    <3>1. pages' = pages \cup {e} /\ UNCHANGED <<adopting, session>>
      BY <1>3, <2>2 DEF PageCreated, Registers
    <3>2. Popups' = Popups
      BY <3>1 DEF Popups
    <3>3. IsFiniteSet(pages')
      <4> HIDE DEF e
      <4>. QED BY <3>1, FS_AddElement DEF ListedInv
    <3>. QED BY <2>2, <3>1, <3>2, <3>3 DEF ListedInv
  <2>. QED BY <2>1, <2>2
<1>. QED BY <1>1, <1>2, <1>3 DEF Make

LEMMA PumpsKeep ==
  ASSUME ListedInv, NEW id \in EntryIds,
         \/ PumpCreated(id) \/ PumpStarts(id) \/ PumpLeaves(id) \/ ClosePage(id)
         \/ \E a \in adopting : CloseStray(a)
  PROVE  ListedInv'
<1>1. /\ pages' = pages \/ pages' = AllBut(id)
      /\ adopting' \subseteq adopting /\ session' = session
  BY DEF PumpCreated, PumpStarts, PumpLeaves, ClosePage, CloseStray, Settled
<1>2. AllBut(id) \subseteq pages
  BY DEF AllBut
<1>. QED BY <1>1, <1>2, EntriesGo

LEMMA AdoptStartKeeps ==
  ASSUME ListedInv, NEW id \in EntryIds, NEW a, AdoptStart(id, a)
  PROVE  ListedInv'
<1>1. pages' = pages /\ session' = session /\ adopting = {}
  BY DEF AdoptStart, Next1
<1>2. CASE adopting' \subseteq adopting
  BY <1>1, <1>2, EntriesGo
<1>3. ASSUME NEW b, adopting' = adopting \cup {b},
             ~b.full => Cardinality(Popups) < MaxPopups
      PROVE  ListedInv'
  <2>1. Popups' = Popups
    BY <1>1 DEF Popups
  <2>. QED BY <1>1, <1>3, <2>1 DEF ListedInv
<1>4. \/ adopting' \subseteq adopting
      \/ \E b : adopting' = adopting \cup {b} /\ (~b.full => Cardinality(Popups) < MaxPopups)
  <2> DEFINE b == [by |-> id, opener |-> (CHOOSE e \in Of(a.opener) : TRUE).id,
                   popup |-> a.popup, full |-> Cardinality(Popups) >= MaxPopups]
  <2>1. adopting' = adopting \cup {b} \/ Settled(id, pump)
    BY DEF AdoptStart
  <2>2. ~b.full => Cardinality(Popups) < MaxPopups
    <3>1. b.full <=> Cardinality(Popups) >= MaxPopups
      OBVIOUS
    <3>2. Cardinality(Popups) >= MaxPopups \/ Cardinality(Popups) < MaxPopups
      BY PopupsCounted, PopupsAssumption DEF ListedInv
    <3> HIDE DEF b
    <3>. QED BY <3>1, <3>2
  <2>3. Settled(id, pump) => adopting' \subseteq adopting
    BY DEF Settled
  <2> HIDE DEF b
  <2>. QED BY <2>1, <2>2, <2>3
<1>. QED BY <1>2, <1>3, <1>4

LEMMA AdoptFinishKeeps ==
  ASSUME ListedInv, NEW a \in adopting, AdoptFinish(a)
  PROVE  ListedInv'
<1>1. ~a.full /\ adopting' \subseteq adopting /\ session' = session
  BY DEF AdoptFinish, Settled
<1>2. CASE pages' = pages
  BY <1>1, <1>2, EntriesGo
<1>3. CASE session = "live" /\ Registers(a.popup, a.opener)
  <2>1. PICK e : e = [id |-> ids + 1, page |-> a.popup, opener |-> a.opener]
    OBVIOUS
  <2>2. pages' = pages \cup {e}
    BY <1>3, <2>1 DEF Registers
  <2>3. adopting' = {}
    BY <1>1 DEF AdoptFinish, Settled, ListedInv
  <2>4. IsFiniteSet(pages') /\ Popups' \subseteq Popups \cup {e}
    BY <2>2, FS_AddElement DEF ListedInv, Popups
  <2>5. /\ IsFiniteSet(Popups) /\ Cardinality(Popups) \in Nat
        /\ Cardinality(Popups) < MaxPopups
    BY <1>1, PopupsCounted DEF ListedInv
  <2>6. /\ IsFiniteSet(Popups \cup {e})
        /\ Cardinality(Popups \cup {e}) \in Nat
        /\ Cardinality(Popups \cup {e}) <= Cardinality(Popups) + 1
    <3>1. /\ IsFiniteSet(Popups \cup {e})
          /\ Cardinality(Popups \cup {e}) = IF e \in Popups THEN Cardinality(Popups)
                                            ELSE Cardinality(Popups) + 1
      BY <2>5, FS_AddElement
    <3>. QED BY <2>5, <3>1
  <2>7. Cardinality(Popups') \in Nat /\ Cardinality(Popups') <= Cardinality(Popups \cup {e})
    BY <2>4, <2>6, FS_Subset, FS_CardinalityType
  <2>8. Cardinality(Popups') <= MaxPopups
    BY <2>5, <2>6, <2>7, PopupsAssumption
  <2>. QED BY <1>1, <1>3, <2>3, <2>4, <2>8 DEF ListedInv
<1>. QED BY <1>2, <1>3 DEF AdoptFinish

LEMMA PagesStepKeeps == ASSUME ListedInv, [PagesNext]_pagesVars PROVE ListedInv'
<1>1. CASE UNCHANGED pagesVars
  BY <1>1, EntriesGo DEF pagesVars
<1>2. CASE \E p \in MadePages : Make(p)
  BY <1>2, MakesKeep
<1>3. CASE \/ \E p \in EnginePages : PageCloses(p)
           \/ \E p \in EnginePages, popup \in PopupPages : OpensPopup(p, popup)
           \/ LetGo \/ RegistryDrops
  BY <1>3, EntriesGo DEF PageCloses, OpensPopup, LetGo, RegistryDrops
<1>4. ASSUME NEW id \in EntryIds, Pump(id) \/ ClosePage(id) PROVE ListedInv'
  <2>1. CASE \E i \in 1 .. Len(chain) : AdoptStart(id, chain[i])
    BY <2>1, AdoptStartKeeps
  <2>2. CASE \E a \in adopting : AdoptFinish(a)
    BY <2>2, AdoptFinishKeeps
  <2>3. CASE \/ PumpCreated(id) \/ PumpStarts(id) \/ PumpLeaves(id) \/ ClosePage(id)
             \/ \E a \in adopting : CloseStray(a)
    BY <2>3, PumpsKeep
  <2>. QED BY <1>4, <2>1, <2>2, <2>3 DEF Pump
<1>. QED BY <1>1, <1>2, <1>3, <1>4 DEF PagesNext

\* The registry keeps its inductive invariant, for any pages and any cap.
THEOREM ListedInvariant == PagesSpec => []ListedInv
<1>1. PagesInit => ListedInv
  BY PagesInitHolds
<1>2. ListedInv /\ [PagesNext]_pagesVars => ListedInv'
  BY PagesStepKeeps
<1>. QED BY <1>1, <1>2, PTL DEF PagesSpec

\* Popups that several pages announce together never pass the cap, and what was waiting
\* when the session was dropped registers nothing (service.ts, adoptPopup).
THEOREM RegistryBounded == PagesSpec => []RegistryIsBounded
<1>1. ListedInv => RegistryIsBounded
  BY DEF ListedInv, RegistryIsBounded, PopupsWithinCap, DroppedStaysEmpty
<1>. QED BY <1>1, ListedInvariant, PTL
=============================================================================
