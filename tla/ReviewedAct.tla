---------------------------- MODULE ReviewedAct ----------------------------
(***************************************************************************)
(* One session's acts and what pays for them (packages/api/src/service.ts: *)
(* act, prepareApproval, the action lease, reseedSession), composed with   *)
(* the approval gate they spend tokens of.                                 *)
(*                                                                         *)
(* An act is admitted, decided (prepareApproval), may have to wait (the    *)
(* durable marker, or the engine's dispatch boundary for coordinate and    *)
(* probe acts), revalidates, pays (commit) and only then reaches the page. *)
(* An operator's takeover, a lease grant or a reseed of the session's      *)
(* cookies may fall between any two of these steps.                        *)
(*                                                                         *)
(* A delegated session is controlled: one act at a time, under a ticket.   *)
(* Any other session lets acts overlap.  Left out: the page, its revisions *)
(* and targets, plans of several steps, the wording of refusals.           *)
(***************************************************************************)
EXTENDS ApprovalGate

CONSTANTS
  Acts,         \* calls of act that may be under way at once
  Session,
  Requests,     \* [risk, decision, deferred]: what classify and the policy say
  LeaseActions, \* maxActions of a granted lease
  MaxLeases     \* bound on leases granted

ASSUME ReviewAssumption ==
  /\ Session \in Sessions /\ Actions # {} /\ Versions # {} /\ Requests # {}
  /\ LeaseActions \in Nat /\ IsFiniteSet(Acts)

NoToken == "no token"
ASSUME NoTokenAssumption == NoToken \notin TokenIds
Action == CHOOSE action \in Actions : TRUE   \* every act of a run asks for the same one
LeaseTtl == 1

VARIABLES
  controlled,  \* the session is delegated
  marked,      \* it holds operator credentials
  version,     \* review version
  past,        \* review versions of before
  act,         \* act -> its call
  ticketed,    \* acts whose ticket still passes the authority's check
  lease,       \* the action lease
  leased,      \* history: leased actions ever granted and ever spent
  suspended,   \* browser input is suspended
  reseed,      \* where a reseed is
  generation   \* history: reseeds that invalidated prepared authority

sessionVars == <<controlled, marked, version, past, ticketed>>
leaseVars == <<lease, leased>>
reseedVars == <<suspended, reseed, generation>>
reviewVars == <<approvalVars, sessionVars, act, leaseVars, reseedVars>>

NoRequest == CHOOSE r \in Requests : TRUE
NoApproval == "no approval"
IdleCall ==
  [pc |-> "idle", request |-> NoRequest, plan |-> "none", token |-> NoToken,
   approval |-> NoApproval, version |-> NoApproval, generation |-> 0]
NoLease == [remaining |-> 0, expiresAt |-> 0, generation |-> 0]

-----------------------------------------------------------------------------
(* Deciding.                                                               *)

\* leaseCoversAction, for a host the lease covers.
LeaseCovers == lease.remaining > 0 /\ now < lease.expiresAt

usesOperatorReview == marked \/ controlled

\* What an act will have to pay with.
PlanFor(request) ==
  IF request.decision = "deny" THEN "deny"
  ELSE IF marked /\ request.risk = "unknown" /\ LeaseCovers THEN "lease"
  ELSE IF request.decision = "allow" /\ (marked => request.risk = "routine") THEN "free"
  ELSE "token"

\* The approval request of an act decided now: its kind follows the session's
\* review, its version is that of the present review context.
ApprovalRequest ==
  [kind |-> IF usesOperatorReview THEN "reviewed" ELSE "confirmation",
   session |-> Session, action |-> Action,
   version |-> IF usesOperatorReview THEN version ELSE NoContext]

\* validateApprovalToken and validateReviewedApproval: nothing is spent.
Valid(token, request) ==
  /\ token \in DOMAIN tokens
  /\ Authorizes(Expired(tokens[token]), request)

SetAct(a, call) == act' = [act EXCEPT ![a] = call]
Refuse(a) == SetAct(a, IdleCall)

\* A refusal that hands out a fresh token, while the bound and the gate's limit leave one.
RefuseWithToken(a, request) ==
  /\ IF FreshId = {} \/ Full \/ closed THEN UNCHANGED approvalVars
     ELSE \E id \in FreshId : Mint(id, request)
  /\ Refuse(a)

-----------------------------------------------------------------------------
(* The steps of an act.                                                    *)

Underway(a) == act[a].pc \notin {"idle", "done"}

\* act: the entry checks.
StartAct(a, request, token) ==
  /\ act[a].pc = "idle"
  /\ ~suspended
  /\ controlled => \A b \in Acts : ~Underway(b)
  /\ SetAct(a, [IdleCall EXCEPT !.pc = "started", !.request = request, !.token = token])
  /\ ticketed' = IF controlled THEN ticketed \cup {a} ELSE ticketed
  /\ UNCHANGED <<approvalVars, controlled, marked, version, past, leaseVars, reseedVars>>

\* assert: an uncontrolled session has no authority to lose.
Asserted(a) == controlled => a \in ticketed

\* A coordinate or probe act pins its target first; the engine or the scope's
\* preflight may refuse it.
BindTarget(a) ==
  /\ act[a].pc = "started"
  /\ act[a].request.deferred
  /\ \/ Asserted(a) /\ SetAct(a, [act[a] EXCEPT !.pc = "bound"])
     \/ Refuse(a)
  /\ UNCHANGED <<approvalVars, sessionVars, leaseVars, reseedVars>>

\* beforeAction: admitted again, then the page is asked for its URL.
BeforeAction(a) ==
  /\ act[a].pc = IF act[a].request.deferred THEN "bound" ELSE "started"
  /\ IF suspended \/ ~Asserted(a) THEN Refuse(a)
     ELSE SetAct(a, [act[a] EXCEPT !.pc = "admitted"])
  /\ UNCHANGED <<approvalVars, sessionVars, leaseVars, reseedVars>>

\* prepareApproval after that await: the decision.  Nothing is spent yet.
PrepareApproval(a) ==
  LET plan == PlanFor(act[a].request)
      prepared == [act[a] EXCEPT !.pc = "prepared", !.plan = plan, !.version = version,
                                 !.approval = ApprovalRequest, !.generation = generation]
  IN
  /\ act[a].pc = "admitted"
  /\ IF ~Asserted(a) \/ plan = "deny" \/ (plan = "token" /\ marked /\ ~controlled)
     THEN Refuse(a) /\ UNCHANGED approvalVars
     ELSE IF plan = "token" => Valid(act[a].token, ApprovalRequest)
     THEN SetAct(a, prepared) /\ UNCHANGED approvalVars
     ELSE RefuseWithToken(a, ApprovalRequest)
  /\ UNCHANGED <<sessionVars, leaseVars, reseedVars>>

\* revalidate, after the marker's storage wait or at the engine's boundary.
Revalidate(a) ==
  LET request == act[a].approval IN
  /\ act[a].pc = "prepared"
  /\ act[a].request.deferred
  /\ IF ~Asserted(a) \/ (act[a].plan = "lease" /\ ~LeaseCovers)
     THEN Refuse(a) /\ UNCHANGED approvalVars
     ELSE IF act[a].plan = "token" => Valid(act[a].token, request)
     THEN SetAct(a, [act[a] EXCEPT !.pc = "revalidated"]) /\ UNCHANGED approvalVars
     ELSE RefuseWithToken(a, request)
  /\ UNCHANGED <<sessionVars, leaseVars, reseedVars>>

ReadyToPay(a) ==
  act[a].pc = IF act[a].request.deferred THEN "revalidated" ELSE "prepared"

\* consumeLeasedAction: one look and one decrement, without an await.
SpendLease(a) ==
  IF LeaseCovers
    THEN /\ lease' = [lease EXCEPT !.remaining = @ - 1]
         /\ leased' = [leased EXCEPT !.spent = @ + 1]
         /\ SetAct(a, [act[a] EXCEPT !.pc = "paid", !.generation = lease.generation])
    ELSE Refuse(a) /\ UNCHANGED leaseVars

\* consumeApprovalToken or consumeReviewedApproval, in the context captured when
\* the act was decided.
SpendToken(a) ==
  LET request == act[a].approval IN
  IF Valid(act[a].token, request)
    THEN /\ Consume(act[a].token, request)
         /\ SetAct(a, [act[a] EXCEPT !.pc = "paid"])
    ELSE RefuseWithToken(a, request)

\* commit.
Commit(a) ==
  /\ ReadyToPay(a)
  /\ CASE act[a].plan = "free" ->
            SetAct(a, [act[a] EXCEPT !.pc = "paid"]) /\ UNCHANGED <<approvalVars, leaseVars>>
       [] act[a].plan = "lease" -> SpendLease(a) /\ UNCHANGED approvalVars
       [] OTHER -> SpendToken(a) /\ UNCHANGED leaseVars
  /\ UNCHANGED <<sessionVars, reseedVars>>

\* Slip: what was paid for is run.
DispatchUnasserted(a) ==
  /\ act[a].pc = "paid"
  /\ SetAct(a, [act[a] EXCEPT !.pc = "running"])
  /\ UNCHANGED <<approvalVars, sessionVars, leaseVars, reseedVars>>

\* After commit's await: the authority is asserted once more, then the engine's
\* act begins.
Dispatch(a) ==
  /\ act[a].pc = "paid"
  /\ IF Asserted(a) THEN SetAct(a, [act[a] EXCEPT !.pc = "running"]) ELSE Refuse(a)
  /\ UNCHANGED <<approvalVars, sessionVars, leaseVars, reseedVars>>

\* What paid for it is kept.
ActEnds(a) ==
  /\ act[a].pc = "running"
  /\ SetAct(a, [IdleCall EXCEPT !.pc = "done", !.plan = act[a].plan, !.token = act[a].token])
  /\ ticketed' = ticketed \ {a}
  /\ UNCHANGED <<approvalVars, controlled, marked, version, past, leaseVars, reseedVars>>

-----------------------------------------------------------------------------
(* The operator.                                                           *)

\* A takeover and the delegation after it.
OperatorTakes ==
  /\ controlled
  /\ past' = past \cup {version}
  /\ version' \in Versions \ past'
  /\ ticketed' = {}
  /\ UNCHANGED <<approvalVars, controlled, marked, act, leaseVars, reseedVars>>

DecideToken(id, decision) ==
  /\ Decide(id, decision)
  /\ tokens[id].request.version = version   \* assertReviewContext
  /\ UNCHANGED <<sessionVars, act, leaseVars, reseedVars>>

\* grantActionLease: a grant replaces the lease there is.
GrantLease ==
  /\ ~suspended
  /\ marked
  /\ leased.granted < MaxLeases * LeaseActions
  /\ lease' = [remaining |-> LeaseActions, expiresAt |-> now + LeaseTtl, generation |-> generation]
  /\ leased' = [leased EXCEPT !.granted = @ + LeaseActions]
  /\ UNCHANGED <<approvalVars, sessionVars, act, reseedVars>>

-----------------------------------------------------------------------------
(* reseedSession.                                                          *)

\* authority.busy: a session that was never registered is never busy.
Busy == controlled /\ \E a \in Acts : Underway(a)

\* The floors, then the durable authorization.
ReseedAuthorizes ==
  /\ reseed = "none"
  /\ ~controlled
  /\ reseed' = "authorized"
  /\ UNCHANGED <<approvalVars, sessionVars, act, leaseVars, suspended, generation>>

\* Input is suspended and the second gate asked, without an await between.
ReseedSuspends ==
  /\ reseed = "authorized"
  /\ suspended' = ~Busy
  /\ reseed' = IF Busy THEN "none" ELSE "quiescing"
  /\ UNCHANGED <<approvalVars, sessionVars, act, leaseVars, generation>>

\* No quiescence before the deadline: nothing has changed.
ReseedGivesUp ==
  /\ reseed = "quiescing"
  /\ suspended' = FALSE
  /\ reseed' = "none"
  /\ UNCHANGED <<approvalVars, sessionVars, act, leaseVars, generation>>

\* The auth generation, the mark, and the call that replaces the cookies.
\* (A session that can be reseeded has no prepared review to invalidate.)
ReseedReplaces ==
  /\ reseed = "quiescing"
  /\ InvalidateSession(Session)
  /\ lease' = NoLease
  /\ marked' = TRUE
  /\ generation' = generation + 1
  /\ reseed' = "replacing"
  /\ UNCHANGED <<controlled, version, past, ticketed, act, leased, suspended>>

\* Completion, or a failure that stops the scope: input is admitted again.
ReseedEnds ==
  /\ reseed = "replacing"
  /\ suspended' = FALSE
  /\ reseed' = "over"
  /\ UNCHANGED <<approvalVars, sessionVars, act, leaseVars, generation>>

-----------------------------------------------------------------------------

TimePasses(t) ==
  /\ Clock(t)
  /\ UNCHANGED <<sessionVars, act, leaseVars, reseedVars>>

ReviewInit ==
  /\ ApprovalsInit
  /\ controlled \in BOOLEAN
  /\ marked \in BOOLEAN
  /\ version = CHOOSE v \in Versions : TRUE
  /\ past = {}
  /\ act = [a \in Acts |-> IdleCall]
  /\ ticketed = {}
  /\ lease = NoLease
  /\ leased = [granted |-> 0, spent |-> 0]
  /\ suspended = FALSE
  /\ reseed = "none"
  /\ generation = 0

ReviewNext ==
  \/ \E a \in Acts :
       \/ \E request \in Requests, token \in minted \cup {NoToken} : StartAct(a, request, token)
       \/ BindTarget(a)
       \/ BeforeAction(a)
       \/ PrepareApproval(a)
       \/ Revalidate(a)
       \/ Commit(a)
       \/ Dispatch(a)
       \/ ActEnds(a)
  \/ OperatorTakes
  \/ \E id \in DOMAIN tokens, decision \in Decisions : DecideToken(id, decision)
  \/ GrantLease
  \/ ReseedAuthorizes
  \/ ReseedSuspends
  \/ ReseedGivesUp
  \/ ReseedReplaces
  \/ ReseedEnds
  \/ \E t \in 0..MaxTime : TimePasses(t)

ReviewSpec == ReviewInit /\ [][ReviewNext]_reviewVars

-----------------------------------------------------------------------------
(* Properties.                                                             *)

Paid(a) == act[a].pc \in {"paid", "running", "done"}

\* However acts overlap, each one that went ahead on approval spent a token that no
\* other act spent, and leased acts never outnumber the actions granted.
EveryActPays ==
  /\ \A a \in Acts : Paid(a) /\ act[a].plan = "token" =>
       /\ act[a].token \in granted
       /\ \A b \in Acts \ {a} :
            Paid(b) /\ act[b].plan = "token" => act[a].token # act[b].token
  /\ Cardinality({a \in Acts : Paid(a) /\ act[a].plan = "lease"}) <= leased.spent
  /\ leased.spent + lease.remaining <= leased.granted

\* An act decided in one review context never reaches the page in another, though
\* its token is consumed in the context it was decided in.
ReviewedActIsCurrent ==
  [][\A a \in Acts :
       act[a].pc = "paid" /\ act'[a].pc = "running" /\ controlled => act[a].version = version]_reviewVars

\* What was approved or leased before a reseed's auth generation pays for nothing
\* after it: old authority dies before the cookies are written.
OldAuthorityPaysNothing ==
  [][\A a \in Acts :
       /\ ~Paid(a) /\ act[a].plan \in {"token", "lease"}
       /\ act'[a].pc = "paid"
       => act'[a].generation = generation]_reviewVars

\* "No admitted operation may still be draining" when the cookies are replaced.
ReplacementFindsNoAct ==
  reseed = "replacing" =>
    \A a \in Acts : act[a].pc # "running"

\* A reviewed act spends what admitted it, and dispatches what was reviewed in the
\* context it was reviewed in (prepareApproval to the dispatch).
ActIsReviewed == []EveryActPays /\ ReviewedActIsCurrent /\ OldAuthorityPaysNothing
=============================================================================
