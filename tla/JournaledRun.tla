---------------------------- MODULE JournaledRun ----------------------------
(***************************************************************************)
(* One journaled run of SessionAuthority (control/src/session-authority.ts)*)
(* : the durable intent, the dispatch marker, the browser guard, the       *)
(* effects, the durable terminal, and the release of the control ticket.   *)
(* The rest of the session (takeover, review, delegation, removal) goes on *)
(* around it by the actions of SessionControl.                             *)
(*                                                                         *)
(* The journal is seen through its port: a call is answered in bounded     *)
(* time, but the raw I/O behind it may take longer, apply late, or never   *)
(* settle.  `durable` is what the store holds.  A continuation after an    *)
(* await is an action of its own; what runs without an await is one action.*)
(***************************************************************************)
EXTENDS SessionControl

CONSTANTS
  Dispatches,   \* the effects the work callback may attempt
  RunTicket,    \* the ticket and the operation id of this run
  RunOp

ASSUME RunAssumption == RunTicket \in Tickets /\ RunOp \in OpIds

RunCalls == {"intent", "dispatch", "terminal"}

VARIABLES
  browser,    \* a durable browser operation, not an application write
  health,     \* the journal's: "open", or "unusable" (quarantined, poisoned, closed)
  durable,    \* the store's record of the operation
  raw,        \* raw I/O of each journal call: idle, outstanding, applied, settled
  answer,     \* what the bounded call answered: none, acknowledged, refused; taken
  dispatch,   \* each effect: idle, waiting, effect, settled, refused
  guard,      \* what stands between marker and effects: idle, running, passed, refused
  open,       \* the scope still admits work
  failed,     \* the scope's journal is sealed
  phase,      \* where the run is
  status,     \* the terminal status, once the work callback ended
  succeeded,  \* the work callback's result may be returned
  outcome     \* what the caller got: none, result, error

runVars == <<browser, health, durable, raw, answer, dispatch, guard, open, failed,
             phase, status, succeeded, outcome>>
journaledVars == <<controlVars, runVars>>

Intent == Fact("in_flight", FALSE)
Marker == Fact("in_flight", TRUE)

-----------------------------------------------------------------------------
(* What the scope knows.                                                   *)

\* scope.journal.record: acknowledge publishes it in the step that stores it.
journalRecord == records[RunOp].acknowledgment

didDispatch == tickets[RunTicket].didDispatch

\* checkJournalScope, and with it checkScopeOwner: a removed session is stopped.
JournalScope == open /\ ~failed /\ health = "open" /\ check(RunTicket)

\* scope.pending: dispatch tasks not settled, and journal I/O not settled.
Pending ==
  \/ \E d \in Dispatches : dispatch[d] \in {"waiting", "effect"}
  \/ \E c \in RunCalls : raw[c] \in {"outstanding", "applied"}

EffectPending == \E d \in Dispatches : dispatch[d] = "effect"

\* The marker promise has settled, or was never created.
MarkerSettled == raw["dispatch"] = "idle" \/ answer["dispatch"] = "taken"

\* Slip: effects begin as soon as the marker was asked for.
ReadyWhenAsked == guard = "passed" \/ raw["dispatch"] = "outstanding"

\* Effects may begin: the marker was acknowledged and, in a browser operation,
\* the owner's recheck passed.
Ready == guard = "passed"

Unfinished == IF didDispatch THEN "outcome_unknown" ELSE "failed"

-----------------------------------------------------------------------------
(* The journal port: what this run's calls can come to.                    *)

\* The record each call asks for.
Written(c) ==
  CASE c = "intent" -> Intent
    [] c = "dispatch" -> Marker
    [] c = "terminal" -> Fact(status, journalRecord.dispatched)

\* The store's compare-and-set, as the records layer enforces it.
Accepts(c) ==
  CASE c = "intent" -> durable = NoFact
    [] c = "dispatch" -> durable = Intent
    [] c = "terminal" -> durable = journalRecord
                         /\ (durable = Intent => status = "failed")

StoreApplies(c) ==
  /\ raw[c] = "outstanding"
  /\ Accepts(c)
  /\ durable' = Written(c)
  /\ raw' = [raw EXCEPT ![c] = "applied"]
  /\ UNCHANGED <<controlVars, browser, health, answer, dispatch, guard, open, failed,
                 phase, status, succeeded, outcome>>

\* The raw call settles.  A caller still waiting is answered: with the record if
\* it was applied and reported as such, with a refusal otherwise.
CallSettles(c) ==
  /\ raw[c] \in {"outstanding", "applied"}
  /\ raw' = [raw EXCEPT ![c] = "settled"]
  /\ IF answer[c] # "none" THEN UNCHANGED <<answer, health>>
     ELSE \/ /\ raw[c] = "applied"
             /\ answer' = [answer EXCEPT ![c] = "acknowledged"]
             /\ UNCHANGED health
          \/ /\ answer' = [answer EXCEPT ![c] = "refused"]
             /\ health' = IF raw[c] = "applied" THEN "unusable" ELSE health
  /\ UNCHANGED <<controlVars, browser, durable, dispatch, guard, open, failed,
                 phase, status, succeeded, outcome>>

\* The bounded wait ends first: uncertain, and the journal is quarantined.
CallExpires(c) ==
  /\ raw[c] \in {"outstanding", "applied"}
  /\ answer[c] = "none"
  /\ answer' = [answer EXCEPT ![c] = "refused"]
  /\ health' = "unusable"
  /\ UNCHANGED <<controlVars, browser, durable, raw, dispatch, guard, open, failed,
                 phase, status, succeeded, outcome>>

\* Another operation's call, or shutdown, makes the journal unusable.
JournalFaults ==
  /\ health = "open"
  /\ health' = "unusable"
  /\ UNCHANGED <<controlVars, browser, durable, raw, answer, dispatch, guard, open, failed,
                 phase, status, succeeded, outcome>>

\* acknowledgeJournal up to its await: without an open journal it is refused at
\* once, and nothing is asked of the store.
Ask(c, allowed) ==
  IF allowed
    THEN raw' = [raw EXCEPT ![c] = "outstanding"] /\ UNCHANGED answer
    ELSE answer' = [answer EXCEPT ![c] = "refused"] /\ UNCHANGED raw

\* acknowledgeJournal after its await, for the facts readers may see.
TakeAnswer(c) ==
  /\ answer[c] \in {"acknowledged", "refused"}
  /\ answer' = [answer EXCEPT ![c] = "taken"]
  /\ IF answer[c] = "acknowledged"
       THEN Acknowledge(RunTicket, Written(c))
       ELSE UNCHANGED controlVars

-----------------------------------------------------------------------------
(* Admission and the work callback.                                        *)

Admit(actor, isBrowser) ==
  /\ phase = "none"
  /\ \E fp \in Fingerprints : Begin(RunTicket, actor, epoch, RunOp, fp, TRUE)
  /\ browser' = isBrowser
  /\ open' = TRUE
  /\ Ask("intent", health = "open")
  /\ phase' = "intent"
  /\ UNCHANGED <<health, durable, dispatch, guard, failed, status, succeeded, outcome>>

\* The work callback, or what replaced it, is over: status as the run sees it.
Returned(newStatus, ok) ==
  /\ open' = FALSE
  /\ status' = IF EffectPending THEN "outcome_unknown" ELSE newStatus
  /\ succeeded' = ok
  /\ phase' = "ended"

IntentContinues ==
  /\ phase = "intent"
  /\ TakeAnswer("intent")
  /\ IF answer["intent"] = "acknowledged" /\ JournalScope
       THEN phase' = "running" /\ UNCHANGED <<open, failed, status, succeeded>>
       ELSE failed' = TRUE /\ Returned("failed", FALSE)
  /\ UNCHANGED <<browser, health, durable, raw, dispatch, guard, outcome>>

\* dispatchInScope up to its wait: the first dispatch asks for the marker.
StartDispatch(d) ==
  /\ phase = "running"
  /\ dispatch[d] = "idle"
  /\ JournalScope
  /\ dispatch' = [dispatch EXCEPT ![d] = "waiting"]
  /\ IF raw["dispatch"] = "idle" /\ answer["dispatch"] = "none"
       THEN Ask("dispatch", TRUE)
       ELSE UNCHANGED <<raw, answer>>
  /\ UNCHANGED <<controlVars, browser, health, durable, guard, open, failed,
                 phase, status, succeeded, outcome>>

\* Dispatches that wait for a marker or a guard that failed are refused.
RefuseWaiting ==
  /\ dispatch' = [d \in Dispatches |->
                    IF dispatch[d] = "waiting" THEN "refused" ELSE dispatch[d]]
  /\ failed' = TRUE

\* The marker's answer: an application's effects may begin, a browser operation's
\* recheck starts.
MarkerContinues ==
  /\ TakeAnswer("dispatch")
  /\ IF answer["dispatch"] = "acknowledged" /\ JournalScope
       THEN /\ guard' = IF browser THEN "running" ELSE "passed"
            /\ UNCHANGED <<dispatch, failed>>
       ELSE RefuseWaiting /\ UNCHANGED guard
  /\ UNCHANGED <<browser, health, durable, raw, open, phase, status, succeeded, outcome>>

GuardPasses ==
  /\ guard = "running"
  /\ guard' = "passed"
  /\ UNCHANGED <<controlVars, browser, health, durable, raw, answer, dispatch, open, failed,
                 phase, status, succeeded, outcome>>

GuardRefuses ==
  /\ guard = "running"
  /\ guard' = "refused"
  /\ RefuseWaiting
  /\ UNCHANGED <<controlVars, browser, health, durable, raw, answer, open,
                 phase, status, succeeded, outcome>>

\* invoke: everything is checked again after the wait; the operation is marked as
\* dispatched and the effect begins in the same step.
Invoke(d) ==
  /\ dispatch[d] = "waiting"
  /\ Ready
  /\ JournalScope
  /\ Dispatched(RunTicket)
  /\ dispatch' = [dispatch EXCEPT ![d] = "effect"]
  /\ UNCHANGED <<browser, health, durable, raw, answer, guard, open, failed,
                 phase, status, succeeded, outcome>>

\* invoke refuses: the checks fail, or an application's qualification does.
InvokeRefuses(d) ==
  /\ dispatch[d] = "waiting"
  /\ Ready
  /\ browser => ~JournalScope
  /\ dispatch' = [dispatch EXCEPT ![d] = "refused"]
  /\ failed' = TRUE
  /\ UNCHANGED <<controlVars, browser, health, durable, raw, answer, guard, open,
                 phase, status, succeeded, outcome>>

EffectSettles(d) ==
  /\ dispatch[d] = "effect"
  /\ dispatch' = [dispatch EXCEPT ![d] = "settled"]
  /\ UNCHANGED <<controlVars, browser, health, durable, raw, answer, guard, open, failed,
                 phase, status, succeeded, outcome>>

Outcomes == {"returns", "failed", "rejected", "throws"}

\* The work callback ends; it need not have waited for its dispatches.
FnEnds(result) ==
  LET refusedBeforeEffect == browser /\ guard = "refused" /\ ~didDispatch
      ok == /\ result # "throws"
            /\ check(RunTicket)
            /\ refusedBeforeEffect \/ JournalScope
  IN
  /\ phase = "running"
  /\ Returned(CASE ~ok -> Unfinished
                [] ok /\ (refusedBeforeEffect \/ result = "rejected") -> "failed"
                [] ok /\ ~refusedBeforeEffect /\ result = "failed" -> Unfinished
                [] OTHER -> "completed", ok)
  /\ UNCHANGED <<controlVars, browser, health, durable, raw, answer, dispatch, guard,
                 failed, outcome>>

-----------------------------------------------------------------------------
(* The end of the run.                                                     *)

\* Freeze the live facts and ask for the durable terminal.
Terminalize ==
  LET noEffect == status = "completed" /\ ~didDispatch
      final == IF ~check(RunTicket) \/ failed THEN Unfinished
               ELSE IF noEffect THEN "failed" ELSE status
  IN
  /\ status' = final
  /\ succeeded' = (succeeded /\ (noEffect => browser))
  /\ Finalize(RunTicket, final)
  /\ Ask("terminal", health = "open" /\ journalRecord # NoFact)
  /\ phase' = "terminal"

\* Slip: tracked work is waited for also when the journal is unusable.
MarkerAwaitedDrains ==
  /\ phase = "ended"
  /\ MarkerSettled
  /\ IF Pending
       THEN phase' = "draining" /\ UNCHANGED <<controlVars, raw, answer, status, succeeded>>
       ELSE Terminalize
  /\ UNCHANGED <<browser, health, durable, dispatch, guard, open, failed, outcome>>

\* The marker's bounded answer is waited for; tracked work only while the journal
\* is open, so that abandoned I/O never holds up the refusal.
MarkerAwaited ==
  /\ phase = "ended"
  /\ MarkerSettled
  /\ IF health = "open" /\ Pending
       THEN phase' = "draining" /\ UNCHANGED <<controlVars, raw, answer, status, succeeded>>
       ELSE Terminalize
  /\ UNCHANGED <<browser, health, durable, dispatch, guard, open, failed, outcome>>

Drained ==
  /\ phase = "draining"
  /\ ~Pending
  /\ Terminalize
  /\ UNCHANGED <<browser, health, durable, dispatch, guard, open, failed, outcome>>

TerminalContinues ==
  /\ phase = "terminal"
  /\ TakeAnswer("terminal")
  /\ failed' = (failed \/ answer["terminal"] = "refused")
  /\ phase' = "closing"
  /\ UNCHANGED <<browser, health, durable, raw, dispatch, guard, open, status, succeeded, outcome>>

\* A result may be given out: the terminal is durable, the operation succeeded,
\* an application's outcome is not in doubt, and the owner is still the owner.
Publishable ==
  /\ journalRecord.status \in Terminal
  /\ succeeded
  /\ status = "outcome_unknown" => browser
  /\ check(RunTicket)

\* The caller is answered.  The ticket is released once nothing is pending: a
\* terminal that timed out cannot free the store's transaction.
AnswerCaller(result) ==
  /\ outcome' = result
  /\ IF Pending THEN phase' = "releasing" /\ UNCHANGED controlVars
                ELSE phase' = "done" /\ Finish(RunTicket, status)
  /\ UNCHANGED <<browser, health, durable, raw, answer, dispatch, guard, open, failed,
                 status, succeeded>>

CloseRun ==
  /\ phase = "closing"
  /\ AnswerCaller(IF Publishable THEN "result" ELSE "error")

StartPublication ==
  /\ phase = "closing"
  /\ Publishable
  /\ phase' = "publishing"
  /\ UNCHANGED <<controlVars, browser, health, durable, raw, answer, dispatch, guard, open,
                 failed, status, succeeded, outcome>>

\* The publication is delivered under a last check of the owner, or refused: by
\* that check, by its own bound, or by the publisher.
EndPublication ==
  /\ phase = "publishing"
  /\ \/ check(RunTicket) /\ AnswerCaller("result")
     \/ AnswerCaller("error")

Release ==
  /\ phase = "releasing"
  /\ ~Pending
  /\ phase' = "done"
  /\ Finish(RunTicket, status)
  /\ UNCHANGED <<browser, health, durable, raw, answer, dispatch, guard, open, failed,
                 status, succeeded, outcome>>

-----------------------------------------------------------------------------

RunInit ==
  /\ ControlInit
  /\ browser = FALSE
  /\ health = "open"
  /\ durable = NoFact
  /\ raw = [c \in RunCalls |-> "idle"]
  /\ answer = [c \in RunCalls |-> "none"]
  /\ dispatch = [d \in Dispatches |-> "idle"]
  /\ guard = "idle"
  /\ open = FALSE
  /\ failed = FALSE
  /\ phase = "none"
  /\ status = "failed"
  /\ succeeded = FALSE
  /\ outcome = "none"

\* What the rest of the session does to its control meanwhile.
Session ==
  /\ \/ Takeover
     \/ PrepareResume
     \/ \E e \in 0..MaxReview : Delegate(e)
     \/ Stop
  /\ UNCHANGED runVars

\* The journal and the callbacks, as the run meets them.
Port ==
  \/ \E c \in RunCalls : StoreApplies(c) \/ CallSettles(c) \/ CallExpires(c)
  \/ JournalFaults

Continuations ==
  \/ IntentContinues
  \/ MarkerContinues
  \/ GuardPasses \/ GuardRefuses
  \/ \E d \in Dispatches : Invoke(d) \/ InvokeRefuses(d) \/ EffectSettles(d)
  \/ \E result \in Outcomes : FnEnds(result)
  \/ MarkerAwaited \/ Drained
  \/ TerminalContinues
  \/ CloseRun \/ EndPublication \/ Release

RunNext ==
  \/ Session
  \/ \E actor \in Actors, isBrowser \in BOOLEAN : Admit(actor, isBrowser)
  \/ \E d \in Dispatches : StartDispatch(d)
  \/ Port
  \/ Continuations
  \/ StartPublication

\* Promise continuations run; work callbacks, rechecks and effects are bounded by
\* their own timeouts; and the journal port answers in bounded time.  Nothing is
\* assumed of raw journal I/O: it may stay outstanding forever.
RunFairness ==
  /\ \A c \in RunCalls : WF_journaledVars(CallExpires(c))
  /\ WF_journaledVars(Continuations)

RunSpec == RunInit /\ [][RunNext]_journaledVars /\ RunFairness

-----------------------------------------------------------------------------
(* Properties.                                                             *)

Durable == INSTANCE DurableOperation WITH
  Effects <- Dispatches,
  fact <- durable,
  told <- IF RunOp \in DOMAIN records THEN journalRecord ELSE NoFact,
  started <- {d \in Dispatches : dispatch[d] \in {"effect", "settled"}},
  settled <- {d \in Dispatches : dispatch[d] = "settled"}

\* The run keeps the promise of a durable operation: no effect before its durable
\* marker, a closing record that tells the truth about effects, and readers never
\* ahead of the store - under late, lost and timed out journal calls, takeover
\* and removal at any await.
KeepsDurablePromise == Durable!DurableSpec

\* The control ticket outlives everything the run left behind: effects, waiting
\* dispatches and raw journal I/O, also after the caller has been refused.
ReleasedOnlyWhenQuiet ==
  RunTicket \in DOMAIN tickets /\ active # RunTicket => ~Pending /\ phase = "done"

\* A caller that got a result holds an operation whose terminal is durable with
\* the status of the live record, and whose outcome is in doubt only for a
\* browser operation, which reports it.
ResultIsDurable ==
  outcome = "result" =>
    /\ durable.status = records[RunOp].record.status
    /\ durable.status \in Terminal
    /\ durable.status = "outcome_unknown" => browser
    /\ records[RunOp].record.dispatched => durable.dispatched

\* A journaled run implements DurableOperation, keeps its ticket until everything
\* it left behind is quiet, and gives its caller a result only when the journal
\* holds it.
RunIsDurable ==
  /\ KeepsDurablePromise
  /\ [](ReleasedOnlyWhenQuiet /\ ResultIsDurable)

\* Every admitted run answers its caller, even when raw journal I/O never settles.
CallerAlwaysAnswered == phase = "intent" ~> outcome # "none"
=============================================================================
