-------------------------- MODULE SessionAuthority --------------------------
(***************************************************************************)
(* The composition layer over SessionControl for one textual session id    *)
(* (packages/control/src/session-authority.ts): its registrations, the     *)
(* agent grants, and the runs (scopes) admitted under the control tickets. *)
(* Journaled runs are in JournaledRun.                                     *)
(*                                                                         *)
(* The session id can be registered again after removal.  The variables of *)
(* SessionControl are those of the control object of registration `inc`.   *)
(* A scope keeps the entry it was admitted under.  Once that entry is      *)
(* replaced, its stopped control is reachable from its own scopes only,    *)
(* and what they still do there (finalize, finish) is not observable.      *)
(*                                                                         *)
(* Expiry and abort end a registration whenever the clock or the engine    *)
(* says so: RemoveSession may happen at any time.  Every accessor          *)
(* re-examines both before it reads the entry, as if that came first.      *)
(***************************************************************************)
EXTENDS SessionControl

CONSTANTS
  MaxRegistrations,  \* bound on how often the session id is registered
  MaxPending         \* bound on tracked tasks of one run at a time

ASSUME AuthorityAssumption == MaxRegistrations \in Nat /\ MaxPending \in Nat

VARIABLES
  inc,         \* incarnation of the last registration
  registered,  \* entries has the session id, with incarnation inc
  agent,       \* the entry's delegated principal, or NoAgent
  grants,      \* principals whose token digest is in the grants map
  issued,      \* every principal ever handed out; its holder may keep it
  scopes       \* ticket -> the run admitted with it

authorityVars == <<inc, registered, agent, grants, issued, scopes>>
sessionVars == <<controlVars, authorityVars>>

\* A delegation: its binding generation is unique; inc is which entry made it
\* and is not part of the principal (a caller presents session id and epoch).
Principal == [generation : Nat, epoch : Nat, inc : Nat]
NoAgent == [generation |-> 0, epoch |-> 0, inc |-> 0]

Scope ==
  [inc : Nat, open : BOOLEAN, reads : 0..MaxPending, dispatches : 0..MaxPending,
   publishes : BOOLEAN, status : Terminal,
   phase : {"running", "draining", "publishing", "done"}]

Pending(t) == scopes[t].reads + scopes[t].dispatches

-----------------------------------------------------------------------------
(* Who is let in.                                                          *)

\* authenticate: the token is in the map and the session's control, whichever
\* entry that is now, authorizes the epoch the token was issued for.
Authenticates(p) == p \in grants /\ registered /\ authorizeAgent(p.epoch)

\* admit for an agent: every field of the presented principal agrees with the
\* entry's own, and the control authorizes it.
AdmitsAgent(p) ==
  /\ registered
  /\ agent # NoAgent
  /\ p.epoch = agent.epoch
  /\ p.generation = agent.generation
  /\ authorizeAgent(agent.epoch)

\* checkScopeOwner: the session id still maps to the scope's entry, whose
\* control still accepts the scope's ticket.
ScopeOwner(t) == registered /\ scopes[t].inc = inc /\ check(t)

\* assert, as a scope's own calls use it: a removed session answers with the
\* scope's own entry, whose stopped control then refuses the ticket.
AssertInScope(t) ==
  /\ scopes[t].open
  /\ registered => scopes[t].inc = inc
  /\ check(t)

-----------------------------------------------------------------------------
(* The registration and its control.                                       *)

revoke ==
  /\ grants' = grants \ {agent}
  /\ agent' = NoAgent

\* A new entry has a SessionControl of its own.  Its review versions start over:
\* versions are only ever compared within one registration.
NewControl ==
  /\ state' = "HUMAN_ACTIVE"
  /\ epoch' = 0
  /\ review' = 0
  /\ finalized' = FALSE
  /\ records' = [o \in {} |-> NoFact]

Register ==
  /\ ~registered
  /\ inc < MaxRegistrations
  /\ inc' = inc + 1
  /\ registered' = TRUE
  /\ agent' = NoAgent
  /\ NewControl
  /\ active' = NoTicket
  /\ UNCHANGED <<tickets, grants, issued, scopes>>

RemoveSession ==
  /\ registered
  /\ revoke
  /\ Stop
  /\ registered' = FALSE
  /\ UNCHANGED <<inc, issued, scopes>>

TakeoverSession ==
  /\ registered
  /\ revoke
  /\ Takeover
  /\ UNCHANGED <<inc, registered, issued, scopes>>

PrepareResumeSession ==
  /\ registered
  /\ PrepareResume
  /\ UNCHANGED authorityVars

\* The new token replaces whatever grant the entry still had.
DelegateSession(reviewEpoch) ==
  LET p == [generation |-> Cardinality(issued) + 1, epoch |-> epoch', inc |-> inc] IN
  /\ registered
  /\ Delegate(reviewEpoch)
  /\ agent' = p
  /\ grants' = (grants \ {agent}) \cup {p}
  /\ issued' = issued \cup {p}
  /\ UNCHANGED <<inc, registered, scopes>>

InvalidatePrepared ==
  /\ registered
  /\ InvalidateReview
  /\ UNCHANGED authorityVars

\* configure: idle human control only.  The change is the host's callback; if
\* it throws, the captured owner is revoked all the same, and taken over.
Configure ==
  /\ registered
  /\ active = NoTicket
  /\ state \in {"HUMAN_ACTIVE", "RESUME_REVIEW"}
  /\ revoke
  /\ review + 2 <= MaxReview
  /\ review' = review + 2
  /\ epoch' = IF state = "HUMAN_ACTIVE" THEN epoch ELSE epoch + 1
  /\ state' = "HUMAN_ACTIVE"
  /\ UNCHANGED <<active, finalized, records, tickets, inc, registered, issued, scopes>>

\* configure whose change replaces the session: the captured owner is stopped by
\* then, takeover leaves it stopped, and the replacement is not touched.
ConfigureReplaces ==
  /\ registered
  /\ inc < MaxRegistrations
  /\ active = NoTicket
  /\ state \in {"HUMAN_ACTIVE", "RESUME_REVIEW"}
  /\ revoke
  /\ inc' = inc + 1
  /\ NewControl
  /\ UNCHANGED <<active, tickets, registered, issued, scopes>>

-----------------------------------------------------------------------------
(* One run.                                                                *)

NewScope ==
  [inc |-> inc, open |-> TRUE, reads |-> 0, dispatches |-> 0,
   publishes |-> FALSE, status |-> "failed", phase |-> "running"]

Run(t, actor, p, op, fp) ==
  /\ registered
  /\ actor = "agent" => AdmitsAgent(p)
  /\ Begin(t, actor, agent.epoch, op, fp, FALSE)
  /\ scopes' = [u \in DOMAIN scopes \cup {t} |->
                  IF u = t THEN NewScope ELSE scopes[u]]
  /\ UNCHANGED <<inc, registered, agent, grants, issued>>

\* trackReadInScope: an observation retained until it settles.
TrackReadInScope(t) ==
  /\ AssertInScope(t)
  /\ Pending(t) < MaxPending
  /\ scopes' = [scopes EXCEPT ![t].reads = @ + 1]
  /\ UNCHANGED <<controlVars, inc, registered, agent, grants, issued>>

\* dispatchInScope: the checks, the mark and the effect are one synchronous step.
DispatchInScope(t) ==
  /\ AssertInScope(t)
  /\ Pending(t) < MaxPending
  /\ Dispatched(t)
  /\ scopes' = [scopes EXCEPT ![t].dispatches = @ + 1]
  /\ UNCHANGED <<inc, registered, agent, grants, issued>>

SettleRead(t) ==
  /\ scopes[t].reads > 0
  /\ scopes' = [scopes EXCEPT ![t].reads = @ - 1]
  /\ UNCHANGED <<controlVars, inc, registered, agent, grants, issued>>

SettleDispatch(t) ==
  /\ scopes[t].dispatches > 0
  /\ scopes' = [scopes EXCEPT ![t].dispatches = @ - 1]
  /\ UNCHANGED <<controlVars, inc, registered, agent, grants, issued>>

\* What a run that did not complete may say of its effects.
Unfinished(t) == IF tickets[t].didDispatch THEN "outcome_unknown" ELSE "failed"

\* The status when the work callback ends, before tracked tasks are waited for.
ReturnStatus(t, outcome) ==
  IF scopes[t].dispatches > 0 THEN "outcome_unknown"
  ELSE IF outcome \in {"throws", "failed"} \/ ~ScopeOwner(t) THEN Unfinished(t)
  ELSE IF outcome = "rejected" THEN "failed" ELSE "completed"

\* finalize's own recheck of the owner.
FinalStatus(t, status) == IF ScopeOwner(t) THEN status ELSE Unfinished(t)

\* Control calls of a scope go to the entry it captured: a replacement's control
\* is never finalized or released by an older run.
OnOwnEntry(t, call) == IF scopes[t].inc = inc THEN call ELSE UNCHANGED controlVars

\* The run is over; what only its own steps would still read is forgotten.
Done(sc, final) ==
  [sc EXCEPT !.status = final, !.phase = "done", !.publishes = FALSE]

\* All tracked tasks have settled: freeze the status, and release the ticket
\* unless a publication is still to be made under it.
Conclude(t, sc) ==
  LET final == FinalStatus(t, sc.status) IN
  IF sc.publishes
    THEN /\ OnOwnEntry(t, Finalize(t, final))
         /\ scopes' = [scopes EXCEPT ![t] = [sc EXCEPT !.status = final, !.phase = "publishing"]]
    ELSE /\ OnOwnEntry(t, Finish(t, final))
         /\ scopes' = [scopes EXCEPT ![t] = Done(sc, final)]

\* The work callback ends: no more work is admitted, and with nothing pending
\* the run is concluded in the same step.  Whether the caller asked for a
\* publication is first read here, and only for work that succeeded.
FnEnds(t, outcome, publication) ==
  LET sc == [scopes[t] EXCEPT !.open = FALSE, !.phase = "draining",
                              !.status = ReturnStatus(t, outcome),
                              !.publishes = publication /\ outcome # "throws" /\ ScopeOwner(t)]
  IN
  /\ scopes[t].phase = "running"
  /\ IF Pending(t) = 0
       THEN Conclude(t, sc)
       ELSE scopes' = [scopes EXCEPT ![t] = sc] /\ UNCHANGED controlVars
  /\ UNCHANGED <<inc, registered, agent, grants, issued>>

\* Slip: tracked tasks are not waited for.
DrainedEarly(t) ==
  /\ scopes[t].phase = "draining"
  /\ Conclude(t, scopes[t])
  /\ UNCHANGED <<inc, registered, agent, grants, issued>>

Drained(t) ==
  /\ scopes[t].phase = "draining"
  /\ Pending(t) = 0
  /\ Conclude(t, scopes[t])
  /\ UNCHANGED <<inc, registered, agent, grants, issued>>

\* publish ends, delivered or not (timeout, abort, refusal); either way the
\* status was frozen before and the ticket is released now.
EndPublication(t) ==
  /\ scopes[t].phase = "publishing"
  /\ OnOwnEntry(t, Finish(t, scopes[t].status))
  /\ scopes' = [scopes EXCEPT ![t] = Done(@, @.status)]
  /\ UNCHANGED <<inc, registered, agent, grants, issued>>

-----------------------------------------------------------------------------

AuthorityInit ==
  /\ ControlInit
  /\ inc = 0
  /\ registered = FALSE
  /\ agent = NoAgent
  /\ grants = {}
  /\ issued = {}
  /\ scopes = [t \in {} |-> NoAgent]

\* A ticket is a new object: which of the unused identities it gets is immaterial.
FreshTicket ==
  LET unused == Tickets \ DOMAIN tickets IN
  IF unused = {} THEN {} ELSE {CHOOSE t \in unused : TRUE}

Outcomes == {"returns", "failed", "rejected", "throws"}

AuthorityNext ==
  \/ Register
  \/ RemoveSession
  \/ TakeoverSession
  \/ PrepareResumeSession
  \/ \E e \in 0..MaxReview : DelegateSession(e)
  \/ InvalidatePrepared
  \/ Configure
  \/ ConfigureReplaces
  \/ \E t \in FreshTicket, op \in OpIds \cup {NoOp}, fp \in Fingerprints :
        \/ Run(t, "operator", NoAgent, op, fp)
        \/ \E p \in issued : Run(t, "agent", p, op, fp)
  \/ \E t \in DOMAIN scopes : TrackReadInScope(t)
  \/ \E t \in DOMAIN scopes : DispatchInScope(t)
  \/ \E t \in DOMAIN scopes : SettleRead(t)
  \/ \E t \in DOMAIN scopes : SettleDispatch(t)
  \/ \E t \in DOMAIN scopes, outcome \in Outcomes, publication \in BOOLEAN :
        FnEnds(t, outcome, publication)
  \/ \E t \in DOMAIN scopes : Drained(t)
  \/ \E t \in DOMAIN scopes : EndPublication(t)

\* Work callbacks, tracked engine calls and publications end: every one of them
\* is bounded by a timeout of its own, so once possible they happen.
Settles(t) == t \in DOMAIN scopes /\ (SettleRead(t) \/ SettleDispatch(t))
Continues(t) ==
  /\ t \in DOMAIN scopes
  /\ \/ \E outcome \in Outcomes, publication \in BOOLEAN : FnEnds(t, outcome, publication)
     \/ Drained(t)
     \/ EndPublication(t)

AuthorityFairness == \A t \in Tickets : WF_sessionVars(Settles(t)) /\ WF_sessionVars(Continues(t))

AuthoritySpec == AuthorityInit /\ [][AuthorityNext]_sessionVars /\ AuthorityFairness

-----------------------------------------------------------------------------
(* Properties.                                                             *)

\* Whatever tokens callers kept, one authenticates only if it is the grant of the
\* present delegation of the present registration; authenticate (which looks at
\* the token map) and admit (which looks at the entry) never disagree.
TokenIsCurrentGrant ==
  \A p \in issued :
    /\ Authenticates(p) => p = agent /\ p.inc = inc
    /\ Authenticates(p) <=> AdmitsAgent(p)

\* The session stays busy for exactly as long as a run of the present registration
\* is not over, and a run is not over while anything it tracked is unsettled.
DrainHoldsSession ==
  \A t \in DOMAIN scopes :
    /\ scopes[t].reads + scopes[t].dispatches > 0 => scopes[t].phase \in {"running", "draining"}
    /\ active = t <=> scopes[t].inc = inc /\ scopes[t].phase # "done"

\* A run's publication carries the status and dispatch fact that every later
\* reader of the operation gets: neither publishing nor releasing rewrites them.
PublishedStatusIsRecorded ==
  \A t \in DOMAIN scopes :
    scopes[t].phase \in {"publishing", "done"} /\ scopes[t].inc = inc
      /\ tickets[t].op # NoOp
    => records[tickets[t].op].record = Fact(scopes[t].status, tickets[t].didDispatch)

\* Every effect belongs to the live owner: the registration of its run is the
\* present one, and an agent's effect falls in the lifetime of its own grant.
EffectsByCurrentOwner ==
  [][\A t \in DOMAIN scopes :
       scopes'[t].dispatches > scopes[t].dispatches =>
         /\ registered
         /\ scopes[t].inc = inc
         /\ IF tickets[t].actor = "agent"
              THEN agent # NoAgent /\ agent.epoch = tickets[t].epoch /\ agent \in grants
              ELSE agent = NoAgent]_sessionVars

\* What the authority promises of every state: a token authenticates only the present
\* grant, the drain holds the session, and a published status is the recorded one.
AuthorityHolds == TokenIsCurrentGrant /\ DrainHoldsSession /\ PublishedStatusIsRecorded

\* A takeover of a busy session takes effect: the pause ends, by the drain of the
\* operation it waits for or by the end of the session.
TakeoverDrains == state = "PAUSE_REQUESTED" ~> state # "PAUSE_REQUESTED"
=============================================================================
