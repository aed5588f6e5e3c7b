-------------------------- MODULE OperationJournal --------------------------
(***************************************************************************)
(* The bounded port in front of a raw journal adapter                      *)
(* (packages/control/src/operation-journal.ts): opening with a late        *)
(* handle, reads and writes with a slot each, health, and close.           *)
(*                                                                         *)
(* A caller waits a bounded time; the raw call it started may settle later *)
(* or never.  Between a request and the raw call lie two microtasks at     *)
(* which cancellation and health are looked at again, so a call passes     *)
(* through "reserved" and "queued" before "raw".                           *)
(*                                                                         *)
(* Record contents, identities and digests are left out: a raw answer is   *)
(* valid, a negative one, or not a valid answer.                           *)
(***************************************************************************)
EXTENDS Naturals, FiniteSets

CONSTANTS
  Calls,         \* call identities: bounds the number of requests
  MaxInFlight    \* the namespace's bound on slots

ASSUME PortAssumption == MaxInFlight \in Nat \ {0} /\ IsFiniteSet(Calls)

VARIABLES
  opening,      \* idle, asked, raw (adapter called), acquired, over
  openAnswer,   \* none, opened, not_opened, uncertain
  abandoned,    \* the opener no longer waits
  handle,       \* the raw handle: none, held, delivered, released, or unrecognised: in an
                \* answer the port could not take apart
  quarantined, poisoned, closed,
  slots,        \* reservations
  call,         \* call -> [stage, write, aborted, answer]
  closing,      \* close: idle, waiting (for raw calls), raw, done
  closeWaits,   \* the raw calls close waits for: those pending when it was asked
  closeAnswer   \* none, closed, uncertain

openVars == <<opening, openAnswer, abandoned, handle>>
closeVars == <<closing, closeWaits, closeAnswer>>
healthVars == <<quarantined, poisoned, closed>>
vars == <<openVars, healthVars, slots, call, closeVars>>

Stages == {"new", "reserved", "queued", "raw", "settled"}
Answers == {"none", "refused", "negative", "uncertain", "acknowledged"}
CallRecord == [stage : Stages, write : BOOLEAN, aborted : BOOLEAN, answer : Answers]

-----------------------------------------------------------------------------
(* Opening.                                                                *)

Open ==
  /\ opening = "idle"
  /\ opening' = "asked"
  /\ UNCHANGED <<openAnswer, abandoned, handle, healthVars, slots, call, closeVars>>

OpenStarts ==
  /\ opening = "asked"
  /\ IF abandoned THEN opening' = "over" ELSE opening' = "raw"
  /\ UNCHANGED <<openAnswer, abandoned, handle, healthVars, slots, call, closeVars>>

\* releaseAbandoned: close a handle nobody will receive, once.
Released(h) == IF h = "held" THEN "released" ELSE h

\* The adapter hands over a valid handle.  Late, it is closed at once.
RawOpens ==
  /\ opening = "raw"
  /\ IF abandoned
       THEN opening' = "over" /\ handle' = Released("held")
       ELSE opening' = "acquired" /\ handle' = "held"
  /\ UNCHANGED <<openAnswer, abandoned, healthVars, slots, call, closeVars>>

\* The adapter hands over a handle with anything invalid beside it, or in an answer of
\* another shape: there the port does not look for it, and nobody closes it.
RawOpensInvalid ==
  /\ opening = "raw"
  /\ opening' = "over"
  /\ abandoned' = TRUE
  /\ handle' \in {Released("held"), "unrecognised"}
  /\ openAnswer' = IF openAnswer = "none" THEN "uncertain" ELSE openAnswer
  /\ UNCHANGED <<healthVars, slots, call, closeVars>>

\* No handle: a definite refusal, an uncertain answer, or a rejection.
RawOpenFails ==
  /\ opening = "raw"
  /\ opening' = "over"
  /\ openAnswer' \in IF openAnswer = "none" THEN {"not_opened", "uncertain"} ELSE {openAnswer}
  /\ UNCHANGED <<abandoned, handle, healthVars, slots, call, closeVars>>

OpenDelivers ==
  /\ opening = "acquired"
  /\ ~abandoned
  /\ opening' = "over"
  /\ openAnswer' = "opened"
  /\ handle' = "delivered"
  /\ UNCHANGED <<abandoned, healthVars, slots, call, closeVars>>

\* The wait for the handle ends, by its bound or the caller's signal; perhaps in
\* the microtasks between the adapter's answer and its delivery.
OpenExpires ==
  /\ opening \in {"asked", "raw", "acquired"}
  /\ ~abandoned
  /\ abandoned' = TRUE
  /\ openAnswer' = IF opening = "asked" THEN "not_opened" ELSE "uncertain"
  /\ handle' = Released(handle)
  /\ opening' = IF opening = "acquired" THEN "over" ELSE opening
  /\ UNCHANGED <<healthVars, slots, call, closeVars>>

-----------------------------------------------------------------------------
(* Reads and writes.                                                       *)

\* stateRefusal: what stops a call of this kind now.
stateRefusal(write, aborted) == closed \/ poisoned \/ (write /\ quarantined) \/ aborted

SetCall(c, r) == call' = [call EXCEPT ![c] = r]

\* A call settles: its slot is free again, and the caller, if it still waits, is
\* answered.
Settle(c, result) ==
  /\ SetCall(c, [call[c] EXCEPT !.stage = "settled",
                                !.answer = IF @ = "none" THEN result ELSE @])
  /\ slots' = slots - 1

\* io up to its first microtask: refused at once, or a slot is reserved.
Request(c, write, aborted) ==
  /\ openAnswer = "opened"
  /\ call[c].stage = "new"
  /\ IF stateRefusal(write, aborted) \/ slots >= MaxInFlight
       THEN /\ SetCall(c, [stage |-> "settled", write |-> write, aborted |-> aborted,
                           answer |-> "refused"])
            /\ UNCHANGED slots
       ELSE /\ SetCall(c, [stage |-> "reserved", write |-> write, aborted |-> FALSE,
                           answer |-> "none"])
            /\ slots' = slots + 1
  /\ UNCHANGED <<openVars, healthVars, closeVars>>

Enqueue(c) ==
  /\ call[c].stage = "reserved"
  /\ IF stateRefusal(call[c].write, call[c].aborted)
       THEN Settle(c, "refused")
       ELSE SetCall(c, [call[c] EXCEPT !.stage = "queued"]) /\ UNCHANGED slots
  /\ UNCHANGED <<openVars, healthVars, closeVars>>

\* No await between the last look at cancellation and health and the adapter.
StartRaw(c) ==
  /\ call[c].stage = "queued"
  /\ IF stateRefusal(call[c].write, call[c].aborted)
       THEN Settle(c, "refused")
       ELSE SetCall(c, [call[c] EXCEPT !.stage = "raw"]) /\ UNCHANGED slots
  /\ UNCHANGED <<openVars, healthVars, closeVars>>

\* The raw call ends.  Its answer is validated also when nobody waits any more:
\* a late answer still tells about the journal.
RawAnswers(c) ==
  /\ call[c].stage = "raw"
  /\ \/ Settle(c, "acknowledged") /\ UNCHANGED healthVars
     \/ Settle(c, "negative") /\ UNCHANGED healthVars
     \/ Settle(c, "negative") /\ poisoned' = TRUE /\ UNCHANGED <<quarantined, closed>>
     \/ Settle(c, "uncertain") /\ quarantined' = TRUE /\ UNCHANGED <<poisoned, closed>>
     \/ Settle(c, "uncertain") /\ quarantined' = TRUE /\ poisoned' = TRUE /\ UNCHANGED closed
  /\ UNCHANGED <<openVars, closeVars>>

\* Slip: a timeout leaves the journal in health.
WaitExpiresQuietly(c) ==
  /\ call[c].stage \in {"reserved", "queued", "raw"}
  /\ call[c].answer = "none"
  /\ SetCall(c, [call[c] EXCEPT !.aborted = TRUE,
                                !.answer = IF call[c].stage = "raw" THEN "uncertain"
                                           ELSE "refused"])
  /\ UNCHANGED <<openVars, healthVars, slots, closeVars>>

\* The bounded wait ends first.  Before the raw call the answer is definite, and
\* the cancellation seen by Enqueue and StartRaw keeps it so; after it, uncertain.
WaitExpires(c) ==
  /\ call[c].stage \in {"reserved", "queued", "raw"}
  /\ call[c].answer = "none"
  /\ SetCall(c, [call[c] EXCEPT !.aborted = TRUE,
                                !.answer = IF call[c].stage = "raw" THEN "uncertain"
                                           ELSE "refused"])
  /\ quarantined' = (quarantined \/ call[c].stage = "raw")
  /\ UNCHANGED <<openVars, poisoned, closed, slots, closeVars>>

-----------------------------------------------------------------------------
(* Close.                                                                  *)

Close ==
  /\ openAnswer = "opened"
  /\ closing = "idle"
  /\ closed' = TRUE
  /\ closing' = "waiting"
  /\ closeWaits' = {c \in Calls : call[c].stage \in {"queued", "raw"}}
  /\ UNCHANGED <<openVars, quarantined, poisoned, slots, call, closeAnswer>>

RawClose ==
  /\ closing = "waiting"
  /\ \A c \in closeWaits : call[c].stage = "settled"
  /\ closing' = "raw"
  /\ UNCHANGED <<openVars, healthVars, slots, call, closeWaits, closeAnswer>>

RawCloses ==
  /\ closing = "raw"
  /\ closing' = "done"
  /\ closeAnswer' \in IF closeAnswer = "none" THEN {"closed", "uncertain"} ELSE {closeAnswer}
  /\ UNCHANGED <<openVars, healthVars, slots, call, closeWaits>>

CloseExpires ==
  /\ closing \in {"waiting", "raw"}
  /\ closeAnswer = "none"
  /\ closeAnswer' = "uncertain"
  /\ UNCHANGED <<openVars, healthVars, slots, call, closing, closeWaits>>

-----------------------------------------------------------------------------

Init ==
  /\ opening = "idle"
  /\ openAnswer = "none"
  /\ abandoned = FALSE
  /\ handle = "none"
  /\ quarantined = FALSE
  /\ poisoned = FALSE
  /\ closed = FALSE
  /\ slots = 0
  /\ call = [c \in Calls |->
               [stage |-> "new", write |-> FALSE, aborted |-> FALSE, answer |-> "none"]]
  /\ closing = "idle"
  /\ closeWaits = {}
  /\ closeAnswer = "none"

Next ==
  \/ Open \/ OpenStarts \/ RawOpens \/ RawOpensInvalid \/ RawOpenFails
  \/ OpenDelivers \/ OpenExpires
  \/ \E c \in Calls, write, aborted \in BOOLEAN : Request(c, write, aborted)
  \/ \E c \in Calls : Enqueue(c)
  \/ \E c \in Calls : StartRaw(c)
  \/ \E c \in Calls : RawAnswers(c)
  \/ \E c \in Calls : WaitExpires(c)
  \/ Close \/ RawClose \/ RawCloses \/ CloseExpires

\* Timers fire and microtasks run; of the raw adapter nothing is assumed.
Fairness ==
  /\ WF_vars(OpenExpires) /\ WF_vars(OpenDelivers) /\ WF_vars(OpenStarts)
  /\ \A c \in Calls : WF_vars(Enqueue(c)) /\ WF_vars(StartRaw(c)) /\ WF_vars(WaitExpires(c))
  /\ WF_vars(RawClose) /\ WF_vars(CloseExpires)

Spec == Init /\ [][Next]_vars /\ Fairness

-----------------------------------------------------------------------------
(* Properties.                                                             *)

TypeOK ==
  /\ opening \in {"idle", "asked", "raw", "acquired", "over"}
  /\ openAnswer \in {"none", "opened", "not_opened", "uncertain"}
  /\ abandoned \in BOOLEAN
  /\ handle \in {"none", "held", "delivered", "released", "unrecognised"}
  /\ quarantined \in BOOLEAN /\ poisoned \in BOOLEAN /\ closed \in BOOLEAN
  /\ slots \in Nat
  /\ call \in [Calls -> CallRecord]
  /\ closing \in {"idle", "waiting", "raw", "done"}
  /\ closeWaits \subseteq Calls
  /\ closeAnswer \in {"none", "closed", "uncertain"}

\* Every raw handle the port recognised has one owner: the caller that was answered
\* "opened", or the port, which closes it; one that arrives late is never left open.
HandleOwnedOrReleased ==
  /\ handle = "delivered" <=> openAnswer = "opened"
  /\ opening = "over" => handle # "held"
  /\ abandoned => handle # "held"

InFlight == {c \in Calls : call[c].stage \in {"reserved", "queued", "raw"}}

\* A slot is held exactly by the calls that may still reach the adapter or are in
\* it, however early their callers were answered; never more than the bound.
SlotsAreOutstanding == slots = Cardinality(InFlight) /\ slots <= MaxInFlight

\* "Cleanup waits for actual outstanding transactions": the adapter's close never
\* meets a raw call, and no raw call begins once close was asked for.
CloseMeetsNoRawCall ==
  closing \in {"raw", "done"} => \A c \in Calls : call[c].stage # "raw"

\* "definitely_not_written" stays true: a call refused by the port never reaches
\* the adapter afterwards.
RefusalIsDefinite == \A c \in Calls : call[c].answer = "refused" => call[c].stage # "raw"

\* Once some caller was left uncertain about a call, no write starts any more.
NoWriteAfterUncertainty ==
  [][\A c, u \in Calls :
       call[u].answer = "uncertain" /\ call[c].write /\ call[c].stage = "queued"
         => call'[c].stage # "raw"]_vars

\* Every call and the close are answered, whatever the adapter does.
CallersAnswered ==
  /\ \A c \in Calls : call[c].stage = "reserved" ~> call[c].answer # "none"
  /\ closing = "waiting" ~> closeAnswer # "none"
  /\ opening = "asked" ~> openAnswer # "none"

\* What the port promises of handles, slots, refusals, uncertainty and close.
PortKeepsOrder ==
  /\ [](HandleOwnedOrReleased /\ SlotsAreOutstanding /\ CloseMeetsNoRawCall /\ RefusalIsDefinite)
  /\ NoWriteAfterUncertainty
=============================================================================
