------------------------- MODULE JournaledRunProofs -------------------------
(***************************************************************************)
(* What one journaled run guarantees for every set of effects, tickets and *)
(* operation ids: it implements DurableOperation, it keeps its ticket      *)
(* until all is quiet, and its caller's result is a durable one.  The      *)
(* inductive invariant adds, to what SessionControl keeps of tickets and   *)
(* records, how far each of the three journal calls has come when the run  *)
(* is where it is, and what the store then holds.                          *)
(***************************************************************************)
EXTENDS JournaledRun, SessionControlProofs

Phases == {"none", "intent", "running", "ended", "draining", "terminal",
           "closing", "publishing", "releasing", "done"}

\* The live facts are frozen.
Late == phase \in {"terminal", "closing", "publishing", "releasing", "done"}

\* What c asks for is not yet told to readers, and may still become durable.
Untold(c) == raw[c] \in {"outstanding", "applied"} \/ answer[c] = "acknowledged"

\* What c asks for is durable and not yet told.
Held(c) == raw[c] = "applied" \/ answer[c] = "acknowledged"

RunTypeOK ==
  /\ browser \in BOOLEAN
  /\ health \in {"open", "unusable"}
  /\ durable \in Facts \cup {NoFact}
  /\ raw \in [RunCalls -> {"idle", "outstanding", "applied", "settled"}]
  /\ answer \in [RunCalls -> {"none", "acknowledged", "refused", "taken"}]
  /\ dispatch \in [Dispatches -> {"idle", "waiting", "effect", "settled", "refused"}]
  /\ guard \in {"idle", "running", "passed", "refused"}
  /\ open \in BOOLEAN
  /\ failed \in BOOLEAN
  /\ phase \in Phases
  /\ status \in Terminal
  /\ succeeded \in BOOLEAN
  /\ outcome \in {"none", "result", "error"}

\* Before it is admitted the run has left no trace.
IdleInv ==
  phase = "none" =>
    /\ DOMAIN tickets = {} /\ DOMAIN records = {}
    /\ \A c \in RunCalls : raw[c] = "idle" /\ answer[c] = "none"
    /\ \A d \in Dispatches : dispatch[d] = "idle"
    /\ guard = "idle" /\ outcome = "none"

\* Then the one ticket and the one record are its own, the ticket is active until
\* the run is done, and the live facts are frozen from its end.
OwnerInv ==
  /\ phase # "none" => DOMAIN tickets = {RunTicket} /\ DOMAIN records = {RunOp}
  /\ active = RunTicket <=> phase \notin {"none", "done"}
  /\ Late => finalized /\ records[RunOp].record.status = status
  /\ open => phase \in {"intent", "running"}
  /\ phase = "done" => ~Pending

\* How far the calls are.  The marker is asked for under a told intent, and the
\* terminal when nothing else is pending.
CallInv ==
  /\ \A c \in RunCalls : answer[c] = "acknowledged" => raw[c] = "settled"
  /\ raw["terminal"] # "idle" =>
       /\ Late
       /\ \A d \in Dispatches : dispatch[d] \notin {"waiting", "effect"}
  /\ phase = "draining" => MarkerSettled
  /\ phase # "none" =>
       /\ Untold("intent") => journalRecord = NoFact
       /\ Untold("dispatch") => journalRecord = Intent /\ raw["terminal"] = "idle"
       /\ Untold("terminal") => journalRecord \in {Intent, Marker}
       /\ journalRecord = NoFact => raw["dispatch"] = "idle" /\ raw["terminal"] = "idle"
       /\ journalRecord.dispatched => raw["dispatch"] = "settled"

\* What readers are told against what the store holds.
ToldInv ==
  phase # "none" =>
    /\ phase = "running" => journalRecord \in {Intent, Marker}
    /\ \A c \in RunCalls : Held(c) => durable = Written(c)
    /\ journalRecord \in {NoFact, Intent, Marker} \/ journalRecord.status \in Terminal
    /\ journalRecord.status \in Terminal =>
         durable = journalRecord /\ journalRecord.status = status /\ Late
    /\ guard \in {"running", "passed"} /\ raw["terminal"] = "idle" =>
         journalRecord = Marker /\ durable = Marker

\* The ticket is marked exactly when an effect has begun, and that is told.
EffectInv ==
  phase # "none" =>
    /\ didDispatch <=> \E d \in Dispatches : dispatch[d] \in {"effect", "settled"}
    /\ didDispatch => journalRecord.dispatched
    /\ Late /\ status = "completed" => didDispatch

\* What a result was given for.
ResultInv ==
  /\ outcome = "result" => phase \in {"releasing", "done"}
  /\ outcome = "result" \/ phase = "publishing" =>
       journalRecord.status \in Terminal /\ (status = "outcome_unknown" => browser)

RunInv ==
  /\ ControlInv
  /\ RunTypeOK
  /\ IdleInv
  /\ OwnerInv
  /\ CallInv
  /\ ToldInv
  /\ EffectInv
  /\ ResultInv

-----------------------------------------------------------------------------
(* Lemmas about the record and the ticket.                                 *)

LEMMA CallNames == RunCalls = {"intent", "dispatch", "terminal"}
BY DEF RunCalls

LEMMA FactFields ==
  /\ \A s, d : Fact(s, d).status = s /\ Fact(s, d).dispatched = d
  /\ \A s \in Statuses, d \in BOOLEAN : Fact(s, d) \in Facts
  /\ Intent \in Facts /\ Marker \in Facts /\ Intent # Marker
  /\ Intent # NoFact /\ Marker # NoFact
  /\ Intent.status = "in_flight" /\ Marker.status = "in_flight" /\ NoFact.status = "none"
  /\ ~Intent.dispatched /\ Marker.dispatched /\ ~NoFact.dispatched
  /\ "in_flight" \notin Terminal /\ "none" \notin Terminal
  /\ Terminal \subseteq Statuses
BY DEF Fact, Facts, NoFact, Intent, Marker, Statuses, Terminal

\* The one ticket is of the one operation, and the one record is the ticket's.
LEMMA OwnFacts ==
  ASSUME RunInv, phase # "none"
  PROVE  /\ RunTicket \in DOMAIN tickets /\ RunOp \in DOMAIN records
         /\ tickets[RunTicket].op = RunOp
         /\ tickets[RunTicket] \in Ticket /\ records[RunOp] \in StoredOperation
         /\ records[RunOp].record.dispatched = didDispatch
         /\ didDispatch \in BOOLEAN
         /\ journalRecord \in Facts \cup {NoFact}
         /\ journalRecord.dispatched \in BOOLEAN
         /\ active \in {RunTicket, NoTicket}
         /\ RunTicket # NoTicket
<1>1. DOMAIN tickets = {RunTicket} /\ DOMAIN records = {RunOp}
  BY DEF RunInv, OwnerInv
<1>2. records[RunOp].ticket = RunTicket
  BY <1>1 DEF RunInv, ControlInv, RecordsMatchTickets
<1>3. tickets[RunTicket].op = RunOp /\ records[RunOp].record.dispatched = didDispatch
  BY <1>1, <1>2 DEF RunInv, ControlInv, IdentitySpentOnce, didDispatch
<1>4. tickets[RunTicket] \in Ticket /\ records[RunOp] \in StoredOperation
      /\ active \in {RunTicket, NoTicket}
  BY <1>1 DEF RunInv, ControlInv, ControlTypeOK
<1>5. journalRecord \in Facts \cup {NoFact} /\ didDispatch \in BOOLEAN
  BY <1>4 DEF journalRecord, didDispatch, StoredOperation, Ticket
<1>6. journalRecord.dispatched \in BOOLEAN
  BY <1>5, FactTypes
<1> QED
  BY <1>1, <1>3, <1>4, <1>5, <1>6, RunAssumption, ControlAssumption

LEMMA WrittenIsFact ==
  ASSUME RunInv, phase # "none", NEW c \in RunCalls
  PROVE  Written(c) \in Facts
BY OwnFacts, FactFields, CallNames DEF Written, RunInv, RunTypeOK

\* acknowledgeJournal after its await: readers are told what c wrote, or nothing.
LEMMA TakeEffect ==
  ASSUME RunInv, phase # "none", NEW c \in RunCalls, TakeAnswer(c)
  PROVE  /\ ControlInv'
         /\ answer' = [answer EXCEPT ![c] = "taken"]
         /\ UNCHANGED <<state, epoch, review, active, finalized, tickets>>
         /\ DOMAIN records' = DOMAIN records
         /\ records'[RunOp].record = records[RunOp].record
         /\ answer[c] = "acknowledged" =>
              journalRecord' = Written(c) /\ ValidAcknowledgment(journalRecord, Written(c))
         /\ answer[c] # "acknowledged" => journalRecord' = journalRecord
<1>1. CASE answer[c] = "acknowledged"
  <2> DEFINE next == Written(c)
             r == [records[RunOp] EXCEPT !.acknowledgment = next]
  <2>1. Acknowledge(RunTicket, next) /\ next \in Facts
    BY <1>1, WrittenIsFact DEF TakeAnswer
  <2>2. ControlInv'
    BY <2>1, OwnFacts, AcknowledgeInv DEF RunInv
  <2>3. r.acknowledgment = next /\ r.record = records[RunOp].record
    BY OwnFacts DEF StoredOperation
  <2>4. records' = [records EXCEPT ![RunOp] = r]
    BY <2>1, OwnFacts DEF Acknowledge
  <2>5. ValidAcknowledgment(journalRecord, next)
    BY <2>1, OwnFacts DEF Acknowledge, journalRecord
  <2>6. UNCHANGED <<state, epoch, review, active, finalized, tickets>>
    BY <2>1 DEF Acknowledge
  <2> HIDE DEF next, r
  <2> QED
    BY <1>1, <2>2, <2>3, <2>4, <2>5, <2>6, OwnFacts DEF TakeAnswer, journalRecord, next
<1>2. CASE answer[c] # "acknowledged"
  <2>1. UNCHANGED controlVars
    BY <1>2 DEF TakeAnswer
  <2>2. ControlInv'
    BY <2>1 DEF RunInv, ControlInv, controlVars, ControlTypeOK, InFlightIsActive,
                IdentitySpentOnce, RecordsMatchTickets, PauseHasOwner, ValidTicketIsOwners
  <2> QED
    BY <1>2, <2>1, <2>2 DEF TakeAnswer, controlVars, journalRecord
<1> QED BY <1>1, <1>2

LEMMA ControlStays == ControlInv /\ UNCHANGED controlVars => ControlInv'
BY DEF ControlInv, controlVars, ControlTypeOK, InFlightIsActive,
       IdentitySpentOnce, RecordsMatchTickets, PauseHasOwner, ValidTicketIsOwners

\* What a step keeps that leaves the control's records and ticket alone.
LEMMA FactsStay ==
  ASSUME UNCHANGED <<records, tickets>>
  PROVE  journalRecord' = journalRecord /\ didDispatch' = didDispatch
BY DEF journalRecord, didDispatch

-----------------------------------------------------------------------------
(* The invariant, action by action.                                        *)

LEMMA RunInitInv == RunInit => RunInv
<1> SUFFICES ASSUME RunInit PROVE RunInv
  OBVIOUS
<1>1. ControlInv
  BY InitInv DEF RunInit
<1>2. RunTypeOK
  BY DEF RunInit, RunTypeOK, Phases, Terminal, RunCalls
<1>3. phase = "none" /\ active = NoTicket /\ DOMAIN tickets = {} /\ DOMAIN records = {}
  BY DEF RunInit, ControlInit
<1>4. IdleInv
  BY <1>3 DEF RunInit, IdleInv
<1>5. OwnerInv
  BY <1>3, RunAssumption, ControlAssumption DEF RunInit, OwnerInv, Late
<1>6. CallInv /\ ToldInv /\ EffectInv /\ ResultInv
  BY <1>3 DEF RunInit, CallInv, ToldInv, EffectInv, ResultInv, RunCalls
<1> QED BY <1>1, <1>2, <1>4, <1>5, <1>6 DEF RunInv

\* The parts of the invariant that speak of neither the owner's state nor the
\* journal survive a step of the session around the run, and a stutter.
LEMMA SessionInv ==
  ASSUME RunInv, Session \/ UNCHANGED journaledVars
  PROVE  RunInv'
<1>1. UNCHANGED runVars /\ UNCHANGED <<active, finalized, records, tickets>>
  BY DEF Session, Takeover, PrepareResume, startReview, Delegate, Stop, journaledVars, controlVars
<1>2. ControlInv'
  BY TransitionInv, ControlStays DEF Session, RunInv, journaledVars
<1>3. /\ RunTypeOK' /\ IdleInv' /\ OwnerInv' /\ ResultInv'
  BY <1>1, FactsStay DEF RunInv, RunTypeOK, IdleInv, OwnerInv, ResultInv, runVars, Late, Pending
<1>4. CallInv' /\ EffectInv'
  BY <1>1, FactsStay DEF RunInv, CallInv, EffectInv, runVars, Late, Untold, MarkerSettled
<1>5. \A c \in RunCalls : Held(c)' = Held(c) /\ Written(c)' = Written(c)
  BY <1>1, FactsStay DEF runVars, Held, Written
<1>6. ToldInv'
  BY <1>1, <1>5, FactsStay DEF RunInv, ToldInv, runVars, Late
<1> QED BY <1>2, <1>3, <1>4, <1>6 DEF RunInv

LEMMA StoreAppliesInv ==
  ASSUME RunInv, NEW c \in RunCalls, StoreApplies(c)
  PROVE  RunInv'
<1>1. UNCHANGED <<controlVars, browser, health, answer, dispatch, guard, open, failed,
                 phase, status, succeeded, outcome>>
  BY DEF StoreApplies
<1>2. /\ raw[c] = "outstanding" /\ Accepts(c) /\ durable' = Written(c)
      /\ raw' = [raw EXCEPT ![c] = "applied"]
  BY DEF StoreApplies
<1>3. phase # "none" /\ answer[c] # "acknowledged"
  BY <1>2 DEF RunInv, IdleInv, CallInv
<1>4. ControlInv' /\ journalRecord' = journalRecord /\ didDispatch' = didDispatch
  BY <1>1, ControlStays, FactsStay DEF RunInv, controlVars
<1>5. RunTypeOK'
  BY <1>1, <1>2, <1>3, WrittenIsFact DEF RunInv, RunTypeOK
<1>6. IdleInv' /\ OwnerInv' /\ EffectInv' /\ ResultInv'
  BY <1>1, <1>2, <1>3, <1>4, CallNames DEF RunInv, RunTypeOK, IdleInv, OwnerInv, EffectInv, ResultInv, Late,
     Pending, controlVars
<1>7. CallInv'
  BY <1>1, <1>2, <1>3, <1>4, CallNames DEF RunInv, RunTypeOK, CallInv, Untold, Late, MarkerSettled, controlVars
<1>8. ToldInv'
  <2>1. \A d \in RunCalls : d # c => ~Held(d)
    BY <1>2, <1>3, CallNames, FactFields, OwnFacts DEF RunInv, RunTypeOK, CallInv, Untold, Held, Accepts, ToldInv, Written
  <2> QED
  BY <1>1, <1>2, <1>3, <1>4, <2>1, CallNames, FactFields DEF RunInv, RunTypeOK, CallInv, ToldInv, Untold, Held, Late,
     Written, controlVars, Accepts
<1> QED BY <1>4, <1>5, <1>6, <1>7, <1>8 DEF RunInv

LEMMA CallSettlesInv ==
  ASSUME RunInv, NEW c \in RunCalls, CallSettles(c) \/ CallExpires(c)
  PROVE  RunInv'
<1>1. UNCHANGED <<controlVars, browser, durable, dispatch, guard, open, failed,
                 phase, status, succeeded, outcome>>
  BY DEF CallSettles, CallExpires
<1>2. raw[c] \in {"outstanding", "applied"}
  BY DEF CallSettles, CallExpires
<1>3. phase # "none"
  BY <1>2 DEF RunInv, IdleInv
<1>4. ControlInv' /\ journalRecord' = journalRecord /\ didDispatch' = didDispatch
  BY <1>1, ControlStays, FactsStay DEF RunInv, controlVars
<1>5. RunTypeOK'
  BY <1>1 DEF RunInv, RunTypeOK, CallSettles, CallExpires
<1>6. /\ \A d \in RunCalls : d # c => raw'[d] = raw[d] /\ answer'[d] = answer[d]
      /\ raw'[c] \in {"outstanding", "applied", "settled"}
      /\ answer'[c] = "acknowledged" => raw'[c] = "settled" /\ Held(c)
      /\ raw'[c] # raw[c] => raw'[c] = "settled"
      /\ answer[c] = "taken" => answer'[c] = "taken"
  BY <1>2 DEF RunInv, RunTypeOK, CallInv, CallSettles, CallExpires, Held
<1>7. IdleInv' /\ OwnerInv' /\ EffectInv' /\ ResultInv'
  BY <1>1, <1>2, <1>3, <1>4, <1>6 DEF RunInv, IdleInv, OwnerInv, EffectInv, ResultInv, Late,
     Pending, controlVars
<1>8. CallInv'
  BY <1>1, <1>2, <1>3, <1>4, <1>6, CallNames, FactFields DEF RunInv, CallInv, Untold, Held, Late, MarkerSettled, controlVars
<1>9. ToldInv'
  BY <1>1, <1>2, <1>3, <1>4, <1>6, CallNames, FactFields DEF RunInv, ToldInv, Held, Late,
     Written, controlVars
<1> QED BY <1>4, <1>5, <1>7, <1>8, <1>9 DEF RunInv

LEMMA AdmitInv ==
  ASSUME RunInv, NEW actor \in Actors, NEW isBrowser \in BOOLEAN, Admit(actor, isBrowser)
  PROVE  RunInv'
<1>1. PICK fp \in Fingerprints : Begin(RunTicket, actor, epoch, RunOp, fp, TRUE)
  BY DEF Admit
<1>2. phase = "none" /\ phase' = "intent" /\ open' = TRUE
      /\ UNCHANGED <<durable, dispatch, guard, status, outcome>>
  BY DEF Admit
<1>3. /\ \A c \in RunCalls : raw[c] = "idle" /\ answer[c] = "none"
      /\ \A d \in Dispatches : dispatch[d] = "idle"
      /\ guard = "idle" /\ outcome = "none"
  BY <1>2 DEF RunInv, IdleInv
<1>4. /\ raw'["intent"] \in {"idle", "outstanding"} /\ answer'["intent"] \in {"none", "refused"}
      /\ \A c \in RunCalls : c # "intent" => raw'[c] = "idle" /\ answer'[c] = "none"
  BY <1>3, CallNames DEF Admit, Ask, RunInv, RunTypeOK
<1>5. ControlInv'
  BY <1>1, BeginInv, RunAssumption DEF RunInv, ControlInv, ControlTypeOK
<1>6. /\ DOMAIN tickets' = {RunTicket} /\ DOMAIN records' = {RunOp}
      /\ didDispatch' = FALSE /\ journalRecord' = NoFact
      /\ active' = RunTicket
  <2>1. DOMAIN tickets = {} /\ DOMAIN records = {} /\ RunOp # NoOp
    BY <1>2, RunAssumption, ControlAssumption DEF RunInv, IdleInv
  <2> QED
    BY <1>1, <2>1 DEF Begin, IssueTicket, WithOperation, didDispatch, journalRecord
<1>7. RunTypeOK'
  BY CallNames DEF Admit, Ask, RunInv, RunTypeOK, Phases
<1>8. IdleInv' /\ OwnerInv' /\ CallInv'
  BY <1>2, <1>3, <1>4, <1>6, CallNames, FactFields
     DEF IdleInv, OwnerInv, CallInv, Late, Untold, MarkerSettled
<1>9. ToldInv' /\ EffectInv' /\ ResultInv'
  BY <1>2, <1>3, <1>4, <1>6, CallNames, FactFields
     DEF ToldInv, EffectInv, ResultInv, Late, Held
<1> QED BY <1>5, <1>7, <1>8, <1>9 DEF RunInv

LEMMA IntentContinuesInv == RunInv /\ IntentContinues => RunInv'
<1> SUFFICES ASSUME RunInv, IntentContinues PROVE RunInv'
  OBVIOUS
<1>1. /\ phase = "intent" /\ TakeAnswer("intent")
      /\ UNCHANGED <<browser, health, durable, raw, dispatch, guard, outcome>>
  BY DEF IntentContinues
<1>2. /\ phase' \in {"running", "ended"} /\ status' \in Terminal
      /\ phase' = "running" => answer["intent"] = "acknowledged" /\ open' = open
      /\ phase' = "ended" => open' = FALSE
  BY DEF IntentContinues, Returned, Terminal, RunInv, RunTypeOK
<1>3. /\ ControlInv'
      /\ answer' = [answer EXCEPT !["intent"] = "taken"]
      /\ UNCHANGED <<active, finalized, tickets>>
      /\ DOMAIN records' = DOMAIN records
      /\ records'[RunOp].record = records[RunOp].record
      /\ answer["intent"] = "acknowledged" => journalRecord' = Intent
      /\ answer["intent"] # "acknowledged" => journalRecord' = journalRecord
      /\ didDispatch' = didDispatch
  BY <1>1, TakeEffect, CallNames DEF Written, didDispatch
<1>4. answer["intent"] = "acknowledged" => journalRecord = NoFact /\ durable = Intent
  BY <1>1, CallNames DEF RunInv, CallInv, ToldInv, Untold, Held, Written
<1>5. raw["terminal"] = "idle" /\ answer["terminal"] # "acknowledged"
  BY <1>1, CallNames DEF RunInv, CallInv, Late
<1>6. RunTypeOK'
  <2>1. open' \in BOOLEAN /\ failed' \in BOOLEAN /\ succeeded' \in BOOLEAN
    BY DEF IntentContinues, Returned, RunInv, RunTypeOK
  <2> QED
    BY <1>1, <1>2, <1>3, <2>1, CallNames DEF RunInv, RunTypeOK, Phases
<1>7. IdleInv' /\ OwnerInv' /\ EffectInv' /\ ResultInv'
  BY <1>1, <1>2, <1>3, <1>4, FactFields
     DEF RunInv, IdleInv, OwnerInv, EffectInv, ResultInv, Late, Pending
<1>8. CallInv'
  BY <1>1, <1>2, <1>3, <1>4, <1>5, CallNames, FactFields
     DEF RunInv, RunTypeOK, CallInv, Late, Untold, MarkerSettled
<1>9. ToldInv'
  BY <1>1, <1>2, <1>3, <1>4, <1>5, CallNames, FactFields
     DEF RunInv, RunTypeOK, CallInv, ToldInv, Late, Untold, Held, Written
<1> QED BY <1>3, <1>6, <1>7, <1>8, <1>9 DEF RunInv

LEMMA MarkerContinuesInv == RunInv /\ MarkerContinues => RunInv'
<1> SUFFICES ASSUME RunInv, MarkerContinues PROVE RunInv'
  OBVIOUS
<1>1. /\ TakeAnswer("dispatch")
      /\ UNCHANGED <<browser, health, durable, raw, open, phase, status, succeeded, outcome>>
  BY DEF MarkerContinues
<1>2. phase # "none"
  BY <1>1, CallNames DEF RunInv, IdleInv, TakeAnswer
<1>3. /\ ControlInv'
      /\ answer' = [answer EXCEPT !["dispatch"] = "taken"]
      /\ UNCHANGED <<active, finalized, tickets>>
      /\ DOMAIN records' = DOMAIN records
      /\ records'[RunOp].record = records[RunOp].record
      /\ answer["dispatch"] = "acknowledged" => journalRecord' = Marker
      /\ answer["dispatch"] # "acknowledged" => journalRecord' = journalRecord
      /\ didDispatch' = didDispatch
  BY <1>1, <1>2, TakeEffect, CallNames DEF Written, didDispatch
<1>4. answer["dispatch"] = "acknowledged" =>
        /\ journalRecord = Intent /\ durable = Marker
        /\ raw["terminal"] = "idle" /\ raw["dispatch"] = "settled"
  BY <1>2, CallNames DEF RunInv, CallInv, ToldInv, Untold, Held, Written
<1>5. /\ guard' \in {"idle", "running", "passed", "refused"}
      /\ guard' \in {"running", "passed"} => answer["dispatch"] = "acknowledged" \/ guard' = guard
      /\ failed' \in BOOLEAN
  BY DEF MarkerContinues, RefuseWaiting, RunInv, RunTypeOK
<1>6. dispatch' = dispatch \/ RefuseWaiting
  BY DEF MarkerContinues
<1>7. /\ \A d \in Dispatches :
            \/ dispatch'[d] = dispatch[d]
            \/ dispatch[d] = "waiting" /\ dispatch'[d] = "refused"
      /\ dispatch' \in [Dispatches -> {"idle", "waiting", "effect", "settled", "refused"}]
  <2>1. dispatch \in [Dispatches -> {"idle", "waiting", "effect", "settled", "refused"}]
    BY DEF RunInv, RunTypeOK
  <2>2. CASE dispatch' = dispatch
    BY <2>1, <2>2
  <2>3. CASE RefuseWaiting
    BY <2>1, <2>3 DEF RefuseWaiting
  <2> QED BY <1>6, <2>2, <2>3
<1>8. RunTypeOK'
  BY <1>1, <1>3, <1>5, <1>7, CallNames DEF RunInv, RunTypeOK
<1>9. IdleInv' /\ OwnerInv' /\ EffectInv' /\ ResultInv'
  BY <1>1, <1>2, <1>3, <1>4, <1>5, <1>7, FactFields
     DEF RunInv, IdleInv, OwnerInv, EffectInv, ResultInv, Late, Pending
<1>10. CallInv'
  BY <1>1, <1>2, <1>3, <1>4, <1>5, <1>7, CallNames, FactFields
     DEF RunInv, RunTypeOK, CallInv, Late, Untold, MarkerSettled
<1>11. ToldInv'
  <2>1. \A c \in RunCalls : Held(c)' => Held(c)
    BY <1>1, <1>2, <1>3, <1>4, CallNames, FactFields
       DEF RunInv, RunTypeOK, CallInv, Held, Untold
  <2>2. \A c \in RunCalls : Held(c)' => Written(c)' = Written(c)
    BY <1>1, <1>2, <1>3, <1>4, <2>1, CallNames, FactFields
       DEF RunInv, RunTypeOK, CallInv, Held, Untold, Written
  <2> QED
    BY <1>1, <1>2, <1>3, <1>4, <1>5, <1>7, <2>1, <2>2, CallNames, FactFields
       DEF RunInv, ToldInv, Late
<1> QED BY <1>3, <1>8, <1>9, <1>10, <1>11 DEF RunInv

\* Steps of one effect that leave the control and the journal alone.
LEMMA EffectStepInv ==
  ASSUME RunInv,
         \/ GuardPasses \/ GuardRefuses
         \/ \E d \in Dispatches : InvokeRefuses(d) \/ EffectSettles(d)
         \/ JournalFaults
  PROVE  RunInv'
<1>1. UNCHANGED <<controlVars, browser, durable, raw, answer, open, phase, status, succeeded,
                  outcome>>
  BY DEF GuardPasses, GuardRefuses, InvokeRefuses, EffectSettles, JournalFaults
<1>2. ControlInv' /\ journalRecord' = journalRecord /\ didDispatch' = didDispatch
  BY <1>1, ControlStays, FactsStay DEF RunInv, controlVars
<1>3. /\ guard' \in {"idle", "running", "passed", "refused"}
      /\ guard' \in {"running", "passed"} => guard \in {"running", "passed"}
      /\ guard = "idle" => guard' = "idle"
      /\ failed' \in BOOLEAN /\ health' \in {"open", "unusable"}
      /\ \A d \in Dispatches :
           \/ dispatch'[d] = dispatch[d]
           \/ dispatch[d] = "waiting" /\ dispatch'[d] = "refused"
           \/ dispatch[d] = "effect" /\ dispatch'[d] = "settled"
      /\ dispatch' \in [Dispatches -> {"idle", "waiting", "effect", "settled", "refused"}]
  BY DEF GuardPasses, GuardRefuses, InvokeRefuses, EffectSettles, JournalFaults, RefuseWaiting,
         RunInv, RunTypeOK
<1>4. RunTypeOK'
  BY <1>1, <1>3 DEF RunInv, RunTypeOK
<1>5. IdleInv' /\ OwnerInv' /\ ResultInv'
  BY <1>1, <1>2, <1>3 DEF RunInv, IdleInv, OwnerInv, ResultInv, Late, Pending, controlVars
<1>6. CallInv' /\ EffectInv'
  BY <1>1, <1>2, <1>3 DEF RunInv, CallInv, EffectInv, Late, Untold, MarkerSettled
<1>7. \A c \in RunCalls : Held(c)' = Held(c) /\ Written(c)' = Written(c)
  BY <1>1, <1>2 DEF Held, Written
<1>8. ToldInv'
  BY <1>1, <1>2, <1>3, <1>7 DEF RunInv, ToldInv, Late
<1> QED BY <1>2, <1>4, <1>5, <1>6, <1>8 DEF RunInv

LEMMA StartDispatchInv ==
  ASSUME RunInv, NEW d \in Dispatches, StartDispatch(d)
  PROVE  RunInv'
<1>1. /\ UNCHANGED <<controlVars, browser, health, durable, guard, open, failed,
                 phase, status, succeeded, outcome>>
      /\ phase = "running" /\ dispatch[d] = "idle"
      /\ dispatch' = [dispatch EXCEPT ![d] = "waiting"]
  BY DEF StartDispatch
<1>2. ControlInv' /\ journalRecord' = journalRecord /\ didDispatch' = didDispatch
  BY <1>1, ControlStays, FactsStay DEF RunInv, controlVars
<1>3. /\ UNCHANGED answer
      /\ \/ UNCHANGED raw
         \/ raw["dispatch"] = "idle" /\ raw' = [raw EXCEPT !["dispatch"] = "outstanding"]
  BY DEF StartDispatch, Ask
<1>4. raw["terminal"] = "idle" /\ journalRecord \in {Intent, Marker}
  BY <1>1 DEF RunInv, CallInv, ToldInv, Late
<1>5. RunTypeOK'
  BY <1>1, <1>3, CallNames DEF RunInv, RunTypeOK
<1>6. IdleInv' /\ OwnerInv' /\ EffectInv' /\ ResultInv'
  BY <1>1, <1>2 DEF RunInv, RunTypeOK, IdleInv, OwnerInv, EffectInv, ResultInv, Late, controlVars
<1>7. CallInv'
  BY <1>1, <1>2, <1>3, <1>4, CallNames, FactFields
     DEF RunInv, RunTypeOK, CallInv, Late, Untold, MarkerSettled
<1>8. \A c \in RunCalls : (Held(c)' => Held(c)) /\ Written(c)' = Written(c)
  BY <1>1, <1>2, <1>3, CallNames DEF Held, Written, RunInv, RunTypeOK
<1>9. ToldInv'
  BY <1>1, <1>2, <1>3, <1>4, <1>8, CallNames DEF RunInv, RunTypeOK, ToldInv, Late
<1> QED BY <1>2, <1>5, <1>6, <1>7, <1>9 DEF RunInv

\* invoke: the ticket, its record and the effect are marked together.
LEMMA InvokeInv ==
  ASSUME RunInv, NEW d \in Dispatches, Invoke(d)
  PROVE  RunInv'
<1>1. /\ UNCHANGED <<browser, health, durable, raw, answer, guard, open, failed,
                 phase, status, succeeded, outcome>>
      /\ dispatch[d] = "waiting" /\ guard = "passed" /\ open
      /\ dispatch' = [dispatch EXCEPT ![d] = "effect"]
      /\ Dispatched(RunTicket)
  BY DEF Invoke, Ready, JournalScope
<1>2. phase \in {"intent", "running"} /\ phase # "none" /\ ~Late
  BY <1>1 DEF RunInv, OwnerInv, Late
<1>3. ControlInv'
  BY <1>1, <1>2, OwnFacts, DispatchedInv DEF RunInv
<1>4. /\ DOMAIN tickets' = DOMAIN tickets /\ DOMAIN records' = DOMAIN records
      /\ UNCHANGED <<active, finalized>>
      /\ didDispatch'
      /\ journalRecord' = journalRecord
  <2> DEFINE ticket == [tickets[RunTicket] EXCEPT !.didDispatch = TRUE]
             r == [records[RunOp] EXCEPT !.record.dispatched = TRUE]
  <2>1. ticket.didDispatch /\ r.acknowledgment = records[RunOp].acknowledgment
    BY <1>2, OwnFacts DEF Ticket, StoredOperation
  <2>2. /\ tickets' = [tickets EXCEPT ![RunTicket] = ticket]
        /\ records' = [records EXCEPT ![RunOp] = r]
        /\ UNCHANGED <<active, finalized>>
    BY <1>1, <1>2, OwnFacts DEF Dispatched
  <2> HIDE DEF ticket, r
  <2> QED
    BY <1>2, <2>1, <2>2, OwnFacts DEF didDispatch, journalRecord
<1>5. raw["terminal"] = "idle" /\ journalRecord = Marker /\ durable = Marker
  BY <1>1, <1>2 DEF RunInv, CallInv, ToldInv
<1>6. RunTypeOK'
  BY <1>1 DEF RunInv, RunTypeOK
<1>7. IdleInv' /\ OwnerInv' /\ ResultInv'
  BY <1>1, <1>2, <1>4 DEF RunInv, IdleInv, OwnerInv, ResultInv, Late
<1>8. CallInv' /\ EffectInv'
  BY <1>1, <1>2, <1>4, <1>5, FactFields
     DEF RunInv, RunTypeOK, CallInv, EffectInv, Late, Untold, MarkerSettled
<1>9. \A c \in RunCalls : Held(c)' = Held(c) /\ Written(c)' = Written(c)
  BY <1>1, <1>4 DEF Held, Written
<1>10. ToldInv'
  BY <1>1, <1>4, <1>5, <1>9 DEF RunInv, ToldInv, Late
<1> QED BY <1>3, <1>6, <1>7, <1>8, <1>10 DEF RunInv

LEMMA FnEndsInv ==
  ASSUME RunInv, NEW result \in Outcomes, FnEnds(result)
  PROVE  RunInv'
<1>1. /\ UNCHANGED <<controlVars, browser, health, durable, raw, answer, dispatch, guard,
                 failed, outcome>>
      /\ phase = "running" /\ phase' = "ended" /\ open' = FALSE
  BY DEF FnEnds, Returned
<1>2. ControlInv' /\ journalRecord' = journalRecord /\ didDispatch' = didDispatch
  BY <1>1, ControlStays, FactsStay DEF RunInv, controlVars
<1>3. status' \in Terminal /\ succeeded' \in BOOLEAN
  BY DEF FnEnds, Returned, Unfinished, Terminal, check, JournalScope, RunInv, RunTypeOK
<1>4. raw["terminal"] = "idle" /\ ~Held("terminal")
  BY <1>1, CallNames DEF RunInv, CallInv, Late, Held
<1>5. RunTypeOK'
  BY <1>1, <1>3 DEF RunInv, RunTypeOK, Phases
<1>6. IdleInv' /\ OwnerInv' /\ EffectInv' /\ ResultInv'
  BY <1>1, <1>2 DEF RunInv, IdleInv, OwnerInv, EffectInv, ResultInv, Late, controlVars
<1>7. CallInv'
  BY <1>1, <1>2, <1>4 DEF RunInv, CallInv, Late, Untold
<1>8. \A c \in RunCalls : Held(c)' = Held(c) /\ (Held(c) => Written(c)' = Written(c))
  BY <1>1, <1>2, <1>4, CallNames DEF Held, Written
<1>9. ToldInv'
  BY <1>1, <1>2, <1>4, <1>8, FactFields DEF RunInv, ToldInv, Late
<1> QED BY <1>2, <1>5, <1>6, <1>7, <1>9 DEF RunInv

\* finalize and finish by the run: nothing but the status of its own record.
LEMMA FreezeEffect ==
  ASSUME RunInv, phase # "none", NEW s \in Terminal,
         Finalize(RunTicket, s) \/ Finish(RunTicket, s)
  PROVE  /\ ControlInv'
         /\ DOMAIN records' = DOMAIN records /\ UNCHANGED tickets
         /\ journalRecord' = journalRecord /\ didDispatch' = didDispatch
         /\ finalized' = TRUE
         /\ Finalize(RunTicket, s) => active' = active /\ records'[RunOp].record.status = s
         /\ Finish(RunTicket, s) /\ finalized =>
              active' = NoTicket /\ records'[RunOp].record.status = records[RunOp].record.status
<1>1. ControlInv'
  BY OwnFacts, FinalizedInv DEF RunInv
<1>2. /\ records' = FinalizedRecords(RunTicket, s) /\ finalized' = TRUE /\ UNCHANGED tickets
      /\ Finalize(RunTicket, s) => active' = active /\ ~finalized
      /\ Finish(RunTicket, s) => active' = NoTicket
  BY DEF Finalize, Finish
<1>3. /\ DOMAIN records' = DOMAIN records
      /\ records'[RunOp].acknowledgment = records[RunOp].acknowledgment
      /\ finalized => records'[RunOp].record.status = records[RunOp].record.status
      /\ ~finalized => records'[RunOp].record.status = s
  BY <1>2, OwnFacts, FinalizedRecordsEffect DEF RunInv
<1> QED
  BY <1>1, <1>2, <1>3 DEF journalRecord, didDispatch

\* The live facts are frozen, and the terminal is asked for if the journal is open
\* and nothing is pending.
LEMMA TerminalizeInv ==
  ASSUME RunInv, phase \in {"ended", "draining"}, MarkerSettled, Terminalize,
         health = "open" => ~Pending,
         UNCHANGED <<browser, health, durable, dispatch, guard, open, failed, outcome>>
  PROVE  RunInv'
<1>1. phase # "none" /\ ~Late /\ raw["terminal"] = "idle" /\ ~Held("terminal")
  BY CallNames DEF Late, RunInv, CallInv, Held
<1>2. /\ phase' = "terminal" /\ status' \in Terminal /\ succeeded' \in BOOLEAN
      /\ status' = "completed" => didDispatch
      /\ Finalize(RunTicket, status')
  BY DEF Terminalize, Unfinished, Terminal, RunInv, RunTypeOK
<1>3. /\ ControlInv'
      /\ DOMAIN records' = DOMAIN records /\ UNCHANGED tickets
      /\ journalRecord' = journalRecord /\ didDispatch' = didDispatch
      /\ finalized' = TRUE /\ active' = active /\ records'[RunOp].record.status = status'
  BY <1>1, <1>2, FreezeEffect
<1>4. \/ /\ raw' = [raw EXCEPT !["terminal"] = "outstanding"] /\ UNCHANGED answer
         /\ health = "open" /\ journalRecord # NoFact
      \/ answer' = [answer EXCEPT !["terminal"] = "refused"] /\ UNCHANGED raw
  BY DEF Terminalize, Ask
<1>5. journalRecord \in {NoFact, Intent, Marker}
  BY <1>1 DEF RunInv, ToldInv
<1>6. RunTypeOK'
  BY <1>2, <1>4, CallNames DEF RunInv, RunTypeOK, Phases
<1>7. IdleInv' /\ OwnerInv' /\ EffectInv' /\ ResultInv'
  BY <1>1, <1>2, <1>3 DEF RunInv, IdleInv, OwnerInv, EffectInv, ResultInv, Late
<1>8. CallInv'
  <2>1. CASE raw' = raw
    BY <1>1, <1>2, <1>3, <1>4, <2>1, CallNames DEF RunInv, RunTypeOK, CallInv, Untold, Late
  <2>2. CASE raw' # raw
    <3>1. /\ \A d \in Dispatches : dispatch[d] \notin {"waiting", "effect"}
          /\ raw["dispatch"] \in {"idle", "settled"} /\ answer["dispatch"] # "acknowledged"
          /\ answer["terminal"] # "acknowledged"
      BY <1>1, <1>4, <2>2, CallNames
         DEF Pending, MarkerSettled, RunInv, RunTypeOK, CallInv
    <3> QED
      BY <1>1, <1>2, <1>3, <1>4, <1>5, <2>2, <3>1, CallNames
         DEF RunInv, RunTypeOK, CallInv, Untold, Late
  <2> QED BY <2>1, <2>2
<1>9. \A c \in RunCalls : (Held(c)' => Held(c)) /\ (Held(c) => Written(c)' = Written(c))
  BY <1>1, <1>3, <1>4, CallNames DEF Held, Written, RunInv, RunTypeOK
<1>10. ToldInv'
  BY <1>1, <1>2, <1>3, <1>4, <1>5, <1>9, CallNames, FactFields DEF RunInv, RunTypeOK, ToldInv, Late
<1> QED BY <1>3, <1>6, <1>7, <1>8, <1>10 DEF RunInv

LEMMA MarkerAwaitedInv == RunInv /\ MarkerAwaited => RunInv'
<1> SUFFICES ASSUME RunInv, MarkerAwaited PROVE RunInv'
  OBVIOUS
<1>1. /\ phase = "ended" /\ MarkerSettled
      /\ UNCHANGED <<browser, health, durable, dispatch, guard, open, failed, outcome>>
  BY DEF MarkerAwaited
<1>2. CASE health = "open" /\ Pending
  <2>1. phase' = "draining" /\ UNCHANGED <<controlVars, raw, answer, status, succeeded>>
    BY <1>2 DEF MarkerAwaited
  <2>2. ControlInv' /\ journalRecord' = journalRecord /\ didDispatch' = didDispatch
    BY <2>1, ControlStays, FactsStay DEF RunInv, controlVars
  <2>3. RunTypeOK' /\ IdleInv' /\ OwnerInv' /\ EffectInv' /\ ResultInv'
    BY <1>1, <2>1, <2>2
       DEF RunInv, RunTypeOK, IdleInv, OwnerInv, EffectInv, ResultInv, Late, Phases, controlVars
  <2>4. CallInv'
    BY <1>1, <2>1, <2>2 DEF RunInv, CallInv, Late, Untold, MarkerSettled
  <2>5. \A c \in RunCalls : Held(c)' = Held(c) /\ Written(c)' = Written(c)
    BY <2>1, <2>2 DEF Held, Written
  <2>6. ToldInv'
    BY <1>1, <2>1, <2>2, <2>5 DEF RunInv, ToldInv, Late
  <2> QED BY <2>2, <2>3, <2>4, <2>6 DEF RunInv
<1>3. CASE ~(health = "open" /\ Pending)
  <2>1. Terminalize
    BY <1>3 DEF MarkerAwaited
  <2> QED
    BY <1>1, <1>3, <2>1, TerminalizeInv
<1> QED BY <1>2, <1>3

LEMMA DrainedInv == RunInv /\ Drained => RunInv'
BY TerminalizeInv DEF Drained, RunInv, CallInv

LEMMA TerminalContinuesInv == RunInv /\ TerminalContinues => RunInv'
<1> SUFFICES ASSUME RunInv, TerminalContinues PROVE RunInv'
  OBVIOUS
<1>1. /\ phase = "terminal" /\ phase' = "closing" /\ TakeAnswer("terminal")
      /\ UNCHANGED <<browser, health, durable, raw, dispatch, guard, open, status, succeeded,
                     outcome>>
      /\ failed' \in BOOLEAN
  BY DEF TerminalContinues, RunInv, RunTypeOK
<1>2. /\ ControlInv'
      /\ answer' = [answer EXCEPT !["terminal"] = "taken"]
      /\ UNCHANGED <<active, finalized, tickets>>
      /\ DOMAIN records' = DOMAIN records
      /\ records'[RunOp].record = records[RunOp].record
      /\ answer["terminal"] = "acknowledged" =>
           journalRecord' = Fact(status, journalRecord.dispatched)
      /\ answer["terminal"] # "acknowledged" => journalRecord' = journalRecord
      /\ didDispatch' = didDispatch
  BY <1>1, TakeEffect, CallNames DEF Written, didDispatch
<1>3. answer["terminal"] = "acknowledged" =>
        /\ journalRecord \in {Intent, Marker} /\ raw["terminal"] = "settled"
        /\ durable = Fact(status, journalRecord.dispatched)
        /\ ~Untold("intent") /\ ~Untold("dispatch")
  BY <1>1, CallNames, FactFields DEF RunInv, CallInv, ToldInv, Untold, Held, Written
<1>4. RunTypeOK'
  BY <1>1, <1>2, CallNames DEF RunInv, RunTypeOK, Phases
<1>5. /\ journalRecord'.dispatched = journalRecord.dispatched
      /\ journalRecord' = NoFact => journalRecord = NoFact
      /\ journalRecord' # journalRecord =>
           journalRecord'.status = status /\ status \in Terminal
  BY <1>2, FactFields DEF RunInv, RunTypeOK
<1>6. IdleInv' /\ OwnerInv' /\ EffectInv' /\ ResultInv'
  BY <1>1, <1>2, <1>3, <1>5, FactFields
     DEF RunInv, IdleInv, OwnerInv, EffectInv, ResultInv, Late, Pending
<1>7. CallInv'
  BY <1>1, <1>2, <1>3, <1>5, CallNames, FactFields
     DEF RunInv, RunTypeOK, CallInv, Late, Untold, MarkerSettled
<1>8. ToldInv'
  <2>1. \A c \in RunCalls : Held(c)' => Held(c) /\ Written(c)' = Written(c)
    BY <1>1, <1>2, <1>3, <1>5, CallNames DEF RunInv, RunTypeOK, CallInv, Held, Untold, Written
  <2> QED
    BY <1>1, <1>2, <1>3, <1>5, <2>1, CallNames, FactFields DEF RunInv, RunTypeOK, ToldInv, Late
<1> QED BY <1>2, <1>4, <1>6, <1>7, <1>8 DEF RunInv

\* The caller is answered, and the ticket released when nothing is pending.
LEMMA ReleaseInv ==
  ASSUME RunInv, CloseRun \/ StartPublication \/ EndPublication \/ Release
  PROVE  RunInv'
<1>1. /\ phase \in {"closing", "publishing", "releasing"}
      /\ UNCHANGED <<browser, health, durable, raw, answer, dispatch, guard, open, failed,
                 status, succeeded>>
  BY DEF CloseRun, StartPublication, EndPublication, Release, AnswerCaller
<1>2. \/ phase' \in {"publishing", "releasing"} /\ UNCHANGED controlVars
      \/ phase' = "done" /\ ~Pending /\ Finish(RunTicket, status)
  BY DEF CloseRun, StartPublication, EndPublication, Release, AnswerCaller
<1>3. /\ outcome' \in {"none", "result", "error"}
      /\ outcome' = "result" => phase' \in {"releasing", "done"}
      /\ outcome' = "result" \/ phase' = "publishing" =>
           journalRecord.status \in Terminal /\ (status = "outcome_unknown" => browser)
  BY DEF CloseRun, StartPublication, EndPublication, Release, AnswerCaller, Publishable,
         RunInv, RunTypeOK, ResultInv
<1>4. phase # "none" /\ Late /\ finalized /\ status \in Terminal /\ RunTicket # NoTicket
  BY <1>1, OwnFacts DEF RunInv, RunTypeOK, OwnerInv, Late
<1>5. /\ ControlInv' /\ DOMAIN records' = DOMAIN records /\ UNCHANGED tickets
      /\ journalRecord' = journalRecord /\ didDispatch' = didDispatch
      /\ finalized'
      /\ active' = IF phase' = "done" THEN NoTicket ELSE active
      /\ records'[RunOp].record.status = records[RunOp].record.status
  <2>1. CASE UNCHANGED controlVars /\ phase' # "done"
    BY <1>4, <2>1, ControlStays, FactsStay DEF RunInv, controlVars
  <2>2. CASE phase' = "done" /\ Finish(RunTicket, status)
    BY <1>4, <2>2, FreezeEffect
  <2> QED BY <1>2, <2>1, <2>2
<1>6. RunTypeOK'
  BY <1>1, <1>2, <1>3 DEF RunInv, RunTypeOK, Phases
<1>7. IdleInv' /\ OwnerInv' /\ EffectInv' /\ ResultInv'
  <2>1. Pending' = Pending
    BY <1>1 DEF Pending
  <2> QED
  BY <1>1, <1>2, <1>3, <1>4, <1>5, <2>1 DEF RunInv, IdleInv, OwnerInv, EffectInv, ResultInv, Late
<1>8. CallInv'
  BY <1>1, <1>2, <1>4, <1>5 DEF RunInv, CallInv, Late, Untold
<1>9. \A c \in RunCalls : Held(c)' = Held(c) /\ Written(c)' = Written(c)
  BY <1>1, <1>5 DEF Held, Written
<1>10. ToldInv'
  BY <1>1, <1>2, <1>4, <1>5, <1>9 DEF RunInv, ToldInv, Late
<1> QED BY <1>5, <1>6, <1>7, <1>8, <1>10 DEF RunInv

LEMMA RunNextInv == RunInv /\ [RunNext]_journaledVars => RunInv'
<1> SUFFICES ASSUME RunInv, [RunNext]_journaledVars PROVE RunInv'
  OBVIOUS
<1>1. CASE Session \/ UNCHANGED journaledVars
  BY <1>1, SessionInv
<1>2. CASE \E actor \in Actors, isBrowser \in BOOLEAN : Admit(actor, isBrowser)
  BY <1>2, AdmitInv
<1>3. CASE \E d \in Dispatches : StartDispatch(d)
  BY <1>3, StartDispatchInv
<1>4. CASE Port
  BY <1>4, StoreAppliesInv, CallSettlesInv, EffectStepInv DEF Port
<1>5. CASE Continuations
  BY <1>5, IntentContinuesInv, MarkerContinuesInv, EffectStepInv, InvokeInv, FnEndsInv,
     MarkerAwaitedInv, DrainedInv, TerminalContinuesInv, ReleaseInv DEF Continuations
<1>6. CASE StartPublication
  BY <1>6, ReleaseInv
<1> QED BY <1>1, <1>2, <1>3, <1>4, <1>5, <1>6 DEF RunNext

\* The run is where its calls, its effects and its record say, whatever the
\* session, the journal and the callbacks do meanwhile (session-authority.ts,
\* runAdmitted).
THEOREM RunInvariant == RunSpec => []RunInv
<1>1. RunSpec => RunInit /\ [][RunNext]_journaledVars
  BY DEF RunSpec
<1> QED BY <1>1, RunInitInv, RunNextInv, PTL

-----------------------------------------------------------------------------
(* The run implements DurableOperation.                                    *)

Told == IF RunOp \in DOMAIN records THEN journalRecord ELSE NoFact
Started == {d \in Dispatches : dispatch[d] \in {"effect", "settled"}}
Settled == {d \in Dispatches : dispatch[d] = "settled"}

\* Most steps tell nothing and begin or end no effect.
LEMMA Hidden ==
  ASSUME UNCHANGED durable, Told' = Told, Started' = Started, Settled' = Settled
  PROVE  UNCHANGED Durable!durableVars
BY DEF Durable!durableVars, Told, Started, Settled

\* A step that leaves the record and the effects alone, or only refuses waiting ones.
LEMMA SameEffects ==
  ASSUME RunInv, RunInv',
         \A d \in Dispatches :
           \/ dispatch'[d] = dispatch[d]
           \/ dispatch[d] \in {"idle", "waiting"} /\ dispatch'[d] \in {"waiting", "refused"}
  PROVE  Started' = Started /\ Settled' = Settled
BY DEF Started, Settled

\* The store applies a call: the record is reserved, marked or closed.
LEMMA AppliedIsAbstract ==
  ASSUME RunInv, NEW c \in RunCalls, StoreApplies(c)
  PROVE  Durable!Reserve \/ Durable!Mark \/ Durable!Close
<1>1. /\ raw[c] = "outstanding" /\ Accepts(c) /\ durable' = Written(c)
      /\ UNCHANGED <<records, tickets, dispatch>>
  BY DEF StoreApplies, controlVars
<1>2. phase # "none"
  BY <1>1 DEF RunInv, IdleInv
<1>3. Told' = Told /\ Started' = Started /\ Settled' = Settled
  BY <1>1 DEF Told, Started, Settled, journalRecord
<1>4. CASE c = "intent"
  <2>1. durable = NoFact /\ durable' = Intent
    BY <1>1, <1>4 DEF Accepts, Written
  <2> QED
    BY <1>3, <2>1 DEF Durable!Reserve, Durable!NoRecord, Durable!Intent, Durable!Entry, NoFact,
       Intent, Fact, Told, Started, Settled
<1>5. CASE c = "dispatch"
  <2>1. durable = Intent /\ durable' = Marker
    BY <1>1, <1>5 DEF Accepts, Written
  <2> QED
    BY <1>3, <2>1 DEF Durable!Mark, Durable!Marker, Durable!Intent, Durable!Entry,
       Marker, Intent, Fact, Told, Started, Settled
<1>6. CASE c = "terminal"
  <2>1. /\ durable = journalRecord /\ journalRecord \in {Intent, Marker}
        /\ durable = Intent => status = "failed"
        /\ durable' = Fact(status, journalRecord.dispatched)
        /\ status \in Terminal
    BY <1>1, <1>2, <1>6 DEF Accepts, Written, RunInv, CallInv, Untold, RunTypeOK
  <2>2. status = "completed" => Started # {} /\ Settled = Started
    <3>1. status = "completed" => didDispatch
      BY <1>1, <1>2, <1>6 DEF RunInv, CallInv, EffectInv
    <3>2. \A d \in Dispatches : dispatch[d] # "effect"
      BY <1>1, <1>6 DEF RunInv, CallInv
    <3> QED
      BY <1>2, <3>1, <3>2 DEF RunInv, EffectInv, Started, Settled
  <2>3. CASE durable = Intent
    BY <1>3, <2>1, <2>3, FactFields DEF Durable!Close, Durable!Closing, Durable!Intent, Durable!Marker, Durable!Entry,
       Intent, Marker, Fact, Told, Started, Settled
  <2>4. CASE durable = Marker
    <3>1. durable' \in {Fact("failed", TRUE), Fact("outcome_unknown", TRUE)}
                      \cup (IF Started # {} /\ Settled = Started THEN {Fact("completed", TRUE)} ELSE {})
      BY <2>1, <2>2, <2>4, FactFields DEF Terminal
    <3> QED
    BY <1>3, <2>4, <3>1, FactFields DEF Durable!Close, Durable!Closing, Durable!Intent, Durable!Marker, Durable!Entry,
       Intent, Marker, Fact, Told, Started, Settled
  <2> QED BY <2>1, <2>3, <2>4
<1> QED BY <1>4, <1>5, <1>6, CallNames

\* A journal answer is taken: readers are told what is durable now, or nothing.
LEMMA TakenIsAbstract ==
  ASSUME RunInv, phase # "none", NEW c \in RunCalls, TakeAnswer(c), UNCHANGED durable,
         Started' = Started, Settled' = Settled
  PROVE  Durable!Tell \/ UNCHANGED Durable!durableVars
<1>1. RunOp \in DOMAIN records /\ RunOp \in DOMAIN records'
  BY OwnFacts, TakeEffect
<1>2. CASE answer[c] = "acknowledged"
  <2>1. journalRecord' = durable /\ ValidAcknowledgment(journalRecord, durable)
    BY <1>2, TakeEffect DEF RunInv, ToldInv, Held
  <2>2. journalRecord # durable
    BY <2>1, FactFields DEF ValidAcknowledgment, Fact, NoFact
  <2> QED
    BY <1>1, <2>1, <2>2 DEF Durable!Tell, Told, Started, Settled
<1>3. CASE answer[c] # "acknowledged"
  BY <1>1, <1>3, TakeEffect, Hidden DEF Told
<1> QED BY <1>2, <1>3

LEMMA EffectIsAbstract ==
  ASSUME RunInv, NEW d \in Dispatches, Invoke(d) \/ EffectSettles(d)
  PROVE  Durable!Start(d) \/ Durable!Settle(d)
<1>1. CASE Invoke(d)
  <2>1. /\ dispatch[d] = "waiting" /\ dispatch' = [dispatch EXCEPT ![d] = "effect"]
        /\ guard = "passed" /\ open /\ UNCHANGED durable /\ Dispatched(RunTicket)
    BY <1>1 DEF Invoke, Ready, JournalScope
  <2>2. phase # "none" /\ ~Late
    BY <2>1 DEF RunInv, OwnerInv, Late
  <2>3. journalRecord = Marker /\ durable = Marker
    BY <2>1, <2>2 DEF RunInv, CallInv, ToldInv
  <2>4. RunOp \in DOMAIN records /\ RunOp \in DOMAIN records' /\ journalRecord' = journalRecord
    <3> DEFINE r == [records[RunOp] EXCEPT !.record.dispatched = TRUE]
    <3>1. r.acknowledgment = records[RunOp].acknowledgment
      BY <2>2, OwnFacts DEF StoredOperation
    <3>2. records' = [records EXCEPT ![RunOp] = r]
      BY <2>1, <2>2, OwnFacts DEF Dispatched
    <3> HIDE DEF r
    <3> QED
      BY <2>2, <3>1, <3>2, OwnFacts DEF journalRecord
  <2>5. Started' = Started \cup {d} /\ d \notin Started /\ Settled' = Settled
    BY <2>1 DEF Started, Settled, RunInv, RunTypeOK
  <2>6. Told = Marker /\ Told' = Marker
    BY <2>3, <2>4 DEF Told
  <2>7. Marker = Durable!Marker
    BY DEF Marker, Fact, Durable!Marker, Durable!Entry
  <2> QED
    BY <2>1, <2>3, <2>5, <2>6, <2>7 DEF Durable!Start, Told, Started, Settled
<1>2. CASE EffectSettles(d)
  <2>1. /\ dispatch[d] = "effect" /\ dispatch' = [dispatch EXCEPT ![d] = "settled"]
        /\ UNCHANGED <<durable, records>>
    BY <1>2 DEF EffectSettles, controlVars
  <2>2. Settled' = Settled \cup {d} /\ d \in Started \ Settled /\ Started' = Started
    BY <2>1 DEF Started, Settled, RunInv, RunTypeOK
  <2>3. Told' = Told
    BY <2>1 DEF Told, journalRecord
  <2> QED
    BY <2>1, <2>2, <2>3 DEF Durable!Settle, Told, Started, Settled
<1> QED BY <1>1, <1>2

LEMMA StepIsAbstract ==
  ASSUME RunInv, RunInv', [RunNext]_journaledVars
  PROVE  [Durable!DurableNext]_(Durable!durableVars)
<1>1. ASSUME UNCHANGED <<durable, records>>,
             \A d \in Dispatches :
               \/ dispatch'[d] = dispatch[d]
               \/ dispatch[d] \in {"idle", "waiting"} /\ dispatch'[d] \in {"waiting", "refused"}
      PROVE  UNCHANGED Durable!durableVars
  BY <1>1, SameEffects, Hidden DEF Told, journalRecord
<1>2. CASE Session \/ UNCHANGED journaledVars
  BY <1>1, <1>2 DEF Session, Takeover, PrepareResume, startReview, Delegate, Stop, journaledVars, runVars, controlVars
<1>3. CASE \E actor \in Actors, isBrowser \in BOOLEAN : Admit(actor, isBrowser)
  <2>1. phase = "none" /\ phase' = "intent" /\ UNCHANGED <<durable, dispatch>>
    BY <1>3 DEF Admit
  <2>2. DOMAIN records = {} /\ RunOp \in DOMAIN records'
    BY <2>1 DEF RunInv, IdleInv, OwnerInv
  <2>3. journalRecord' = NoFact
    <3>1. PICK actor \in Actors, fp \in Fingerprints : Begin(RunTicket, actor, epoch, RunOp, fp, TRUE)
      BY <1>3 DEF Admit
    <3>2. RunOp # NoOp
      BY RunAssumption, ControlAssumption
    <3> QED
      BY <2>2, <3>1, <3>2 DEF Begin, IssueTicket, WithOperation, journalRecord
  <2> QED
    BY <2>1, <2>2, <2>3, SameEffects, Hidden DEF Told
<1>4. CASE \E d \in Dispatches : StartDispatch(d)
  BY <1>1, <1>4 DEF StartDispatch, controlVars, RunInv, RunTypeOK
<1>5. CASE Port
  <2>1. CASE \E c \in RunCalls : StoreApplies(c)
    BY <2>1, AppliedIsAbstract DEF Durable!DurableNext
  <2>2. CASE (\E c \in RunCalls : CallSettles(c) \/ CallExpires(c)) \/ JournalFaults
    BY <1>1, <2>2 DEF CallSettles, CallExpires, JournalFaults, controlVars
  <2> QED BY <1>5, <2>1, <2>2 DEF Port
<1>6. CASE Continuations
  <2>1. CASE IntentContinues
    <3>1. phase # "none" /\ TakeAnswer("intent") /\ UNCHANGED <<durable, dispatch>>
      BY <2>1 DEF IntentContinues
    <3> QED
      BY <3>1, SameEffects, TakenIsAbstract, CallNames DEF Durable!DurableNext
  <2>2. CASE MarkerContinues
    <3>1. TakeAnswer("dispatch") /\ UNCHANGED durable
      BY <2>2 DEF MarkerContinues
    <3>2. phase # "none"
      BY <3>1, CallNames DEF RunInv, IdleInv, TakeAnswer
    <3>3. dispatch' = dispatch \/ RefuseWaiting
      BY <2>2 DEF MarkerContinues
    <3>4. \A d \in Dispatches :
            \/ dispatch'[d] = dispatch[d]
            \/ dispatch[d] \in {"idle", "waiting"} /\ dispatch'[d] \in {"waiting", "refused"}
      BY <3>3 DEF RefuseWaiting, RunInv, RunTypeOK
    <3> QED
      BY <3>1, <3>2, <3>4, SameEffects, TakenIsAbstract, CallNames DEF Durable!DurableNext
  <2>3. CASE TerminalContinues
    <3>1. phase # "none" /\ TakeAnswer("terminal") /\ UNCHANGED <<durable, dispatch>>
      BY <2>3 DEF TerminalContinues
    <3> QED
      BY <3>1, SameEffects, TakenIsAbstract, CallNames DEF Durable!DurableNext
  <2>4. CASE GuardPasses \/ GuardRefuses \/ \E d \in Dispatches : InvokeRefuses(d)
    <3>1. UNCHANGED <<durable, records>>
      BY <2>4 DEF GuardPasses, GuardRefuses, InvokeRefuses, controlVars
    <3>2. \A d \in Dispatches :
            \/ dispatch'[d] = dispatch[d]
            \/ dispatch[d] = "waiting" /\ dispatch'[d] = "refused"
      BY <2>4 DEF GuardPasses, GuardRefuses, InvokeRefuses, RefuseWaiting, RunInv, RunTypeOK
    <3> QED BY <1>1, <3>1, <3>2
  <2>5. CASE \E d \in Dispatches : Invoke(d) \/ EffectSettles(d)
    BY <2>5, EffectIsAbstract DEF Durable!DurableNext
  <2>6. CASE (\E result \in Outcomes : FnEnds(result)) \/ CloseRun \/ EndPublication \/ Release
             \/ MarkerAwaited \/ Drained
    <3>1. UNCHANGED <<durable, dispatch>>
      BY <2>6 DEF FnEnds, CloseRun, EndPublication, Release, AnswerCaller, MarkerAwaited, Drained
    <3>2. phase # "none"
      BY <2>6 DEF FnEnds, CloseRun, EndPublication, Release, MarkerAwaited, Drained
    <3>3. \/ UNCHANGED controlVars
          \/ \E s \in Terminal : Finalize(RunTicket, s) \/ Finish(RunTicket, s)
      BY <2>6 DEF FnEnds, CloseRun, EndPublication, Release, AnswerCaller, MarkerAwaited, Drained,
                  Terminalize, Unfinished, Terminal, RunInv, RunTypeOK
    <3>4. journalRecord' = journalRecord /\ DOMAIN records' = DOMAIN records
      BY <3>2, <3>3, FreezeEffect, FactsStay DEF controlVars
    <3> QED BY <3>1, <3>4, SameEffects, Hidden DEF Told
  <2> QED BY <1>6, <2>1, <2>2, <2>3, <2>4, <2>5, <2>6 DEF Continuations
<1>7. CASE StartPublication
  BY <1>1, <1>7 DEF StartPublication, controlVars
<1> QED BY <1>2, <1>3, <1>4, <1>5, <1>6, <1>7 DEF RunNext

\* The run keeps the promise of a durable operation: no effect before its durable
\* marker, a closing record that tells the truth about effects, and readers never
\* ahead of the store.
THEOREM RunKeepsPromise == RunSpec => KeepsDurablePromise
<1>1. RunSpec => RunInit /\ [][RunNext]_journaledVars
  BY DEF RunSpec
<1>2. RunInit => Durable!DurableInit
  BY DEF RunInit, ControlInit, Durable!DurableInit, Durable!NoRecord, Durable!Entry, NoFact, Fact
<1>3. RunSpec => []RunInv
  BY RunInvariant
<1>4. RunInv /\ RunInv' /\ [RunNext]_journaledVars => [Durable!DurableNext]_(Durable!durableVars)
  BY StepIsAbstract
<1> QED BY <1>1, <1>2, <1>3, <1>4, PTL DEF KeepsDurablePromise, Durable!DurableSpec

\* The ticket outlives everything the run left behind.
THEOREM RunReleasesWhenQuiet == RunSpec => []ReleasedOnlyWhenQuiet
<1>1. RunInv => ReleasedOnlyWhenQuiet
  BY DEF RunInv, ReleasedOnlyWhenQuiet, OwnerInv, IdleInv
<1> QED BY <1>1, RunInvariant, PTL

\* A result is given only for an operation whose terminal is durable and says what
\* the live record says.
THEOREM RunResultIsDurable == RunSpec => []ResultIsDurable
<1>1. RunInv => ResultIsDurable
  <2> SUFFICES ASSUME RunInv, outcome = "result" PROVE ResultIsDurable
    BY DEF ResultIsDurable
  <2>1. /\ phase # "none" /\ Late
        /\ journalRecord.status \in Terminal /\ (status = "outcome_unknown" => browser)
    BY DEF RunInv, ResultInv, Late
  <2>2. durable = journalRecord /\ journalRecord.status = status
    BY <2>1 DEF RunInv, ToldInv
  <2>3. records[RunOp].record.status = status
    BY <2>1 DEF RunInv, OwnerInv
  <2>4. records[RunOp].record.dispatched => durable.dispatched
    BY <2>1, <2>2, OwnFacts DEF RunInv, EffectInv
  <2> QED BY <2>1, <2>2, <2>3, <2>4 DEF ResultIsDurable
<1> QED BY <1>1, RunInvariant, PTL

\* A journaled run is durable, quiet when released, and truthful to its caller
\* (session-authority.ts, runAdmitted to its end), for any effects and any bound.
THEOREM RunDurable == RunSpec => RunIsDurable
BY RunKeepsPromise, RunReleasesWhenQuiet, RunResultIsDurable, PTL DEF RunIsDurable

=============================================================================
