------------------------- MODULE ApplicationOutcome -------------------------
(***************************************************************************)
(* Application adapters bound to a controlled session, and the verified    *)
(* outcomes read through them: control/src/application-authority.ts,       *)
(* outcome-runner.ts, application-evidence.ts, verifier-registry.ts.       *)
(*                                                                         *)
(* One operation at a time holds the session's ticket: a "submit" (execute *)
(* of a protected write) or an "outcome" (runVerifiedOutcome with an       *)
(* application read as its evidence source).  The host's policy, a         *)
(* takeover, the removal of the session and its registration again, and a  *)
(* cancellation meet the operation at its awaits.  Callbacks that re-enter *)
(* are the same step as their effect just before the check that follows.   *)
(***************************************************************************)
EXTENDS Naturals

CONSTANTS MaxIncarnation,   \* bound: registrations of the session id
          MaxBinds,         \* bound: binding generations
          MaxReads          \* descriptor.budget.maxReads

ASSUME OutcomeAssumption == MaxIncarnation \in Nat /\ MaxBinds \in Nat /\ MaxReads \in Nat

VARIABLES session,   \* incarnation registered under the id, 0 when there is none
          made,      \* incarnations used so far
          state,     \* "human" (HUMAN_ACTIVE, RESUME_REVIEW), "agent", "pausing"
          binding,   \* generation bound to this incarnation's control, 0 when there is none
          binds,     \* generations used so far
          permits,   \* what the adapter's and the source's policy would answer now
          op         \* the operation that holds the ticket

outcomeVars == <<session, made, state, binding, binds, permits, op>>

NoOperation == [kind |-> "none", phase |-> "idle", inc |-> 0, bind |-> 0, lost |-> FALSE,
         cancelled |-> FALSE, revoked |-> FALSE, dispatched |-> FALSE,
         reads |-> 0, cleaned |-> FALSE, released |-> FALSE,
         availability |-> "available", execution |-> "not_started", verification |-> "unknown"]

Occupied == op.phase # "idle"

\* authority.assert, outputGuard: the run's own entry is registered and was not taken over.
Owns == session # 0 /\ session = op.inc /\ ~op.lost

\* What the host, the binding and the policy say at this moment.
Entitled == Owns /\ binding = op.bind /\ permits

\* applicationAccess, the evidence source's permission and assertAccess: each latches the
\* first refusal, so that a permission that comes back does not.
Access == ~op.revoked /\ Entitled

Environment == <<session, made, state, binding, binds, permits>>

-----------------------------------------------------------------------------
(* The session and its policy.                                             *)

\* ApplicationSessions.create: a fresh control, so no binding, under a fresh incarnation.
Register ==
    /\ session = 0
    /\ made < MaxIncarnation
    /\ session' = made + 1 /\ made' = made + 1
    /\ state' = "human" /\ binding' = 0
    /\ UNCHANGED <<binds, permits, op>>

\* remove, dispose, the timer or a deadline seen by a lookup: the entry leaves the map and
\* its signal aborts, whatever is still running under it.
Unregister ==
    /\ session # 0
    /\ session' = 0 /\ binding' = 0 /\ state' = "human"
    /\ UNCHANGED <<made, binds, permits, op>>

Takeover ==
    /\ session # 0 /\ state = "agent"
    /\ state' = IF Occupied /\ op.inc = session THEN "pausing" ELSE "human"
    /\ op' = [op EXCEPT !.lost = Occupied /\ (@ \/ op.inc = session)]
    /\ UNCHANGED <<session, made, binding, binds, permits>>

Delegate ==
    /\ session # 0 /\ state = "human"
    /\ ~(Occupied /\ op.inc = session)
    /\ state' = "agent"
    /\ UNCHANGED <<session, made, binding, binds, permits, op>>

\* bind: the operator's, on an idle session in human hands, when the adapter permits the
\* scope and nothing moved under its callback; each bind is a generation of its own.
Bind ==
    /\ session # 0 /\ state = "human"
    /\ ~(Occupied /\ op.inc = session)
    /\ permits
    /\ binds < MaxBinds
    /\ binding' = binds + 1 /\ binds' = binds + 1
    /\ UNCHANGED <<session, made, state, permits, op>>

Unbind ==
    /\ session # 0 /\ state = "human"
    /\ ~(Occupied /\ op.inc = session)
    /\ binding # 0 /\ binding' = 0
    /\ UNCHANGED <<session, made, state, binds, permits, op>>

PolicyChanges ==
    /\ permits' = ~permits
    /\ UNCHANGED <<session, made, state, binding, binds, op>>

Cancel ==
    /\ Occupied /\ ~op.cancelled
    /\ op' = [op EXCEPT !.cancelled = TRUE]
    /\ UNCHANGED Environment

-----------------------------------------------------------------------------
(* execute: a protected write.                                             *)

\* captureOperation and the admission of run: what is bound now is what the write is for.
Begin(kind) ==
    /\ ~Occupied
    /\ session # 0 /\ state = "agent" /\ binding # 0
    /\ op' = [NoOperation EXCEPT !.kind = kind, !.phase = "admitted",
                          !.inc = session, !.bind = binding]
    /\ UNCHANGED Environment

RefuseOperation == op' = [op EXCEPT !.phase = "done", !.revoked = TRUE]

\* The work callback: operationReview, the adapter's prepare, the consent policy, each
\* followed by the pins; consume is then awaited.
Prepare ==
    /\ op.kind = "submit" /\ op.phase = "admitted"
    /\ IF Access THEN op' = [op EXCEPT !.phase = "consuming"] ELSE RefuseOperation
    /\ UNCHANGED Environment

\* Slip: a consent that was granted is taken for the right to dispatch, with no assertDispatch.
ConsumedUnasserted(agreed, journaled) ==
    /\ op.kind = "submit" /\ op.phase = "consuming"
    /\ op' = IF agreed THEN [op EXCEPT !.phase = "running", !.dispatched = TRUE]
                        ELSE [op EXCEPT !.phase = "done"]
    /\ UNCHANGED Environment

\* consume settled.  assertDispatch, and dispatchInScope right behind it or, when
\* the write is journaled (by option or as a durable request), behind the marker.
Consumed(agreed, journaled) ==
    /\ op.kind = "submit" /\ op.phase = "consuming"
    /\ op' = CASE ~agreed \/ ~Access -> [op EXCEPT !.phase = "done", !.revoked = ~Access]
               [] agreed /\ Access /\ journaled -> [op EXCEPT !.phase = "marking"]
               [] OTHER -> [op EXCEPT !.phase = "running", !.dispatched = TRUE]
    /\ UNCHANGED Environment

\* captureApplicationDispatchInScope: assertDispatch once more, after the marker's await.
Marked ==
    /\ op.kind = "submit" /\ op.phase = "marking"
    /\ IF Access THEN op' = [op EXCEPT !.phase = "running", !.dispatched = TRUE]
                 ELSE RefuseOperation
    /\ UNCHANGED Environment

Settled ==
    /\ op.kind = "submit" /\ op.phase = "running"
    /\ op' = [op EXCEPT !.phase = "publishing"]
    /\ UNCHANGED Environment

\* publishApplication: the host's publish gets the value between two assertions.
Publish ==
    /\ op.kind = "submit" /\ op.phase = "publishing"
    /\ op' = [op EXCEPT !.phase = "done", !.released = Access, !.revoked = ~Access]
    /\ UNCHANGED Environment

-----------------------------------------------------------------------------
(* runVerifiedOutcome.                                                     *)

\* assertAccess, with its latch.
Latch == op.revoked \/ ~Access

\* Up to execute: the source, cancellation, correlation, the verifier's and the source's
\* preparation, each behind assertAccess.  Only a missing source is known before access is.
Available(source) ==
    /\ op.kind = "outcome" /\ op.phase = "admitted"
    /\ op' = CASE source = "none" ->
                    [op EXCEPT !.availability = "unsupported", !.phase = "cleaning"]
               [] source # "none" /\ (op.cancelled \/ ~Access) ->
                    [op EXCEPT !.availability = "blocked", !.phase = "cleaning",
                               !.revoked = ~op.cancelled]
               [] source = "unmatched" /\ ~op.cancelled /\ Access ->
                    [op EXCEPT !.availability = "unsupported", !.phase = "cleaning"]
               [] OTHER -> [op EXCEPT !.execution = "running", !.phase = "executing"]
    /\ UNCHANGED Environment

\* The executor dispatches its effect, if it gets that far, under the ticket's own check.
Dispatches ==
    /\ op.kind = "outcome" /\ op.phase = "executing" /\ ~op.dispatched
    /\ Owns
    /\ op' = [op EXCEPT !.dispatched = TRUE]
    /\ UNCHANGED Environment

\* wasDispatched decides between a failure and not knowing.
Unfinished == IF op.dispatched THEN "unknown" ELSE "failed"

Executed(how) ==
    /\ op.kind = "outcome" /\ op.phase = "executing"
    /\ op' = [op EXCEPT
                !.execution = IF how = "returned" /\ Access THEN "completed" ELSE Unfinished,
                !.released = how # "threw" /\ Access,
                !.revoked = IF how = "threw" THEN @ ELSE Latch,
                !.phase = IF how = "returned" /\ Access THEN "polling" ELSE "cleaning"]
    /\ UNCHANGED Environment

\* The read loop: another read while reads and time remain and access stands.
Poll(timeLeft) ==
    /\ op.kind = "outcome" /\ op.phase = "polling"
    /\ op' = IF op.reads = MaxReads \/ ~timeLeft \/ op.cancelled
               THEN [op EXCEPT !.phase = "cleaning"]
             ELSE IF Access THEN [op EXCEPT !.phase = "reading", !.reads = @ + 1]
             ELSE [op EXCEPT !.phase = "cleaning", !.revoked = TRUE]
    /\ UNCHANGED Environment

\* The prepared application read, tracked by the session: access is asserted around the
\* adapter's call, and a value that arrives without it is dropped.
Fetched(returned) ==
    /\ op.kind = "outcome" /\ op.phase = "reading"
    /\ op' = IF returned /\ Access THEN [op EXCEPT !.phase = "inspecting"]
             ELSE [op EXCEPT !.phase = "cleaning", !.revoked = Latch]
    /\ UNCHANGED Environment

\* The evidence source behind it: nothing there yet, or evidence with its references, unless
\* the callbacks that look at it lost the access.
Inspected(found) ==
    /\ op.kind = "outcome" /\ op.phase = "inspecting"
    /\ op' = CASE found = "nothing" /\ Access -> [op EXCEPT !.phase = "polling"]
               [] found = "evidence" /\ Access -> [op EXCEPT !.phase = "evaluating"]
               [] OTHER -> [op EXCEPT !.phase = "cleaning", !.revoked = Latch]
    /\ UNCHANGED Environment

\* within: the budget ends whatever the read was waiting for; it may go on, unheard.
ReadTimesOut ==
    /\ op.kind = "outcome" /\ op.phase \in {"reading", "inspecting", "evaluating"}
    /\ op' = [op EXCEPT !.phase = "cleaning"]
    /\ UNCHANGED Environment

\* The verifier's predicate, or its refusal of the evidence, decides; access is asserted after it.
Evaluated(verdict) ==
    /\ op.kind = "outcome" /\ op.phase = "evaluating"
    /\ op' = [op EXCEPT !.phase = "cleaning", !.revoked = Latch,
                        !.verification = IF op.cancelled THEN "unknown" ELSE verdict]
    /\ UNCHANGED Environment

\* The finally block: every cleanup is attempted, cancelled or not, under a deadline of its own.
CleansUp ==
    /\ op.kind = "outcome" /\ op.phase = "cleaning" /\ ~op.cleaned
    /\ op' = [op EXCEPT !.cleaned = TRUE]
    /\ UNCHANGED Environment

\* The final fence.
Fence ==
    IF op.cancelled \/ ~Access
    THEN [op EXCEPT !.availability = "blocked", !.verification = "unknown",
                    !.released = FALSE, !.revoked = IF op.cancelled THEN Latch ELSE TRUE,
                    !.execution = IF @ = "not_started" THEN @ ELSE Unfinished]
    ELSE op

Project ==
    /\ op.kind = "outcome" /\ op.phase = "cleaning" /\ op.cleaned
    /\ op' = [Fence EXCEPT !.phase = "done"]
    /\ UNCHANGED Environment

-----------------------------------------------------------------------------
\* The run releases its ticket; a pause that waited for it takes effect.
Release ==
    /\ op.phase = "done"
    /\ op' = NoOperation
    /\ state' = IF session = op.inc /\ state = "pausing" THEN "human" ELSE state
    /\ UNCHANGED <<session, made, binding, binds, permits>>

OutcomeInit ==
    /\ session = 1 /\ made = 1
    /\ state = "human" /\ binding = 0 /\ binds = 0
    /\ permits = TRUE
    /\ op = NoOperation

OutcomeNext ==
    \/ Register \/ Unregister \/ Takeover \/ Delegate \/ Bind \/ Unbind \/ PolicyChanges \/ Cancel
    \/ \E kind \in {"submit", "outcome"} : Begin(kind)
    \/ Prepare \/ Marked \/ Settled \/ Publish
    \/ \E agreed, journaled \in BOOLEAN : Consumed(agreed, journaled)
    \/ \E source \in {"none", "unmatched", "matched"} : Available(source)
    \/ Dispatches
    \/ \E how \in {"returned", "reported", "threw"} : Executed(how)
    \/ \E timeLeft \in BOOLEAN : Poll(timeLeft)
    \/ \E returned \in BOOLEAN : Fetched(returned)
    \/ \E found \in {"nothing", "evidence", "malformed"} : Inspected(found)
    \/ \E verdict \in {"passed", "failed", "unknown"} : Evaluated(verdict)
    \/ ReadTimesOut
    \/ CleansUp \/ Project \/ Release

OutcomeSpec == OutcomeInit /\ [][OutcomeNext]_outcomeVars
-----------------------------------------------------------------------------
(* Properties.                                                             *)

Operation ==
    [kind : {"none", "submit", "outcome"},
     phase : {"idle", "admitted", "consuming", "marking", "running", "publishing",
              "executing", "polling", "reading", "inspecting", "evaluating", "cleaning", "done"},
     inc : Nat, bind : Nat, lost : BOOLEAN, cancelled : BOOLEAN, revoked : BOOLEAN,
     dispatched : BOOLEAN, reads : 0 .. MaxReads, cleaned : BOOLEAN, released : BOOLEAN,
     availability : {"available", "unsupported", "blocked"},
     execution : {"not_started", "running", "completed", "failed", "unknown"},
     verification : {"unknown", "passed", "failed"}]

OutcomeTypeOK ==
    /\ made \in Nat /\ session \in 0 .. made
    /\ state \in {"human", "agent", "pausing"}
    /\ binds \in Nat /\ binding \in 0 .. binds
    /\ permits \in BOOLEAN
    /\ op \in Operation

\* A protected write leaves, and a result or a verification is handed out, only in a state
\* where the session is still this run's, the binding is the one the run captured, the
\* policy permits it and, for an outcome, nobody cancelled: whatever came and went during
\* the journal's, the consent's, the executor's, the reads' and the cleanups' awaits
\* (execute, runVerifiedOutcome).
EntitledStep ==
    /\ op.kind = "submit" /\ ~op.dispatched /\ op'.dispatched => Entitled
    /\ op.phase # "done" /\ op'.phase = "done" /\ (op'.released \/ op'.verification # "unknown")
         => Entitled /\ ~(op.kind = "outcome" /\ op.cancelled)
ActsWhileEntitled == [][EntitledStep]_outcomeVars

\* A finished outcome attempted its cleanup, never calls an effect that left a failure or
\* not started, and once it saw its access lost it shows no result and no verification,
\* even if the permission came back (runVerifiedOutcome's finally block and final fence).
FinishedIsHonest ==
    op.kind = "outcome" /\ op.phase = "done" =>
        /\ op.cleaned
        /\ op.dispatched => op.execution \in {"completed", "unknown"}
        /\ op.verification # "unknown" => op.execution = "completed"
        /\ op.revoked => op.availability # "available" /\ op.verification = "unknown"
                        /\ ~op.released

\* What an application is asked is done and told only while it is entitled to be, and a
\* finished outcome says no more than was seen (application-authority.ts:630-830,
\* outcome-runner.ts:368-571).
OutcomeIsHonest == [](OutcomeTypeOK /\ FinishedIsHonest) /\ ActsWhileEntitled
=============================================================================
