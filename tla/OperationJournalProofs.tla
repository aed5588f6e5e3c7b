----------------------- MODULE OperationJournalProofs -----------------------
(***************************************************************************)
(* What the journal port guarantees for every number of calls and slots,   *)
(* whatever the raw adapter answers and whenever the timers fire.          *)
(*                                                                         *)
(* The invariants the run checks are not inductive.  OpeningInv adds where *)
(* the raw handle is in each phase of an opening, HealthInv that a call    *)
(* answered early was also cancelled and that uncertainty is remembered,   *)
(* and CloseInv which calls may still reach the adapter during a close.    *)
(***************************************************************************)
EXTENDS OperationJournal, FiniteSetTheorems, TLAPS

\* A handle is the port's own only between the adapter's answer and delivery.
OpeningInv ==
  /\ opening \in {"idle", "asked", "raw"} =>
       handle = "none" /\ openAnswer # "opened" /\ (~abandoned => openAnswer = "none")
  /\ opening = "acquired" => handle = "held" /\ openAnswer = "none" /\ ~abandoned
  /\ opening = "over" => handle # "held"
  /\ handle = "delivered" <=> openAnswer = "opened"

\* A caller that was answered before the adapter was reached has cancelled its
\* call, one in the adapter can only be left uncertain, and uncertainty lasts.
HealthInv ==
  /\ \A c \in Calls :
       call[c].stage \in {"reserved", "queued"} /\ call[c].answer # "none"
         => call[c].aborted /\ call[c].answer = "refused"
  /\ \A c \in Calls : call[c].stage = "raw" => call[c].answer \in {"none", "uncertain"}
  /\ \A c \in Calls : call[c].answer = "uncertain" => quarantined

\* Once close was asked for, only calls it waits for can be in the adapter or on
\* their way; when the adapter is closed they have settled.
CloseInv ==
  /\ closing # "idle" =>
       /\ closed
       /\ \A c \in Calls : call[c].stage \in {"queued", "raw"} => c \in closeWaits
  /\ closing \in {"raw", "done"} => \A c \in closeWaits : call[c].stage = "settled"

PortInv == TypeOK /\ OpeningInv /\ HealthInv /\ CloseInv /\ SlotsAreOutstanding

-----------------------------------------------------------------------------
(* Slots and the calls that hold them.                                     *)

\* The calls in flight are finitely many.
LEMMA InFlightFinite == IsFiniteSet(InFlight)
BY PortAssumption, FS_Subset DEF InFlight

\* A call that leaves flight frees exactly the slot it held.
LEMMA SlotFreed ==
  ASSUME TypeOK, SlotsAreOutstanding, NEW c \in InFlight,
         InFlight' = InFlight \ {c}, slots' = slots - 1
  PROVE  SlotsAreOutstanding' /\ slots' \in Nat
<1>1. IsFiniteSet(InFlight) /\ Cardinality(InFlight) \in Nat
  BY InFlightFinite, FS_CardinalityType
<1>2. Cardinality(InFlight \ {c}) = Cardinality(InFlight) - 1
  BY <1>1, FS_RemoveElement
<1>3. Cardinality(InFlight) # 0
  BY <1>1, FS_EmptySet
<1> QED
  BY <1>1, <1>2, <1>3, PortAssumption DEF SlotsAreOutstanding, TypeOK

\* A call that enters flight takes one slot.
LEMMA SlotTaken ==
  ASSUME TypeOK, SlotsAreOutstanding, NEW c \in Calls, c \notin InFlight,
         slots < MaxInFlight, InFlight' = InFlight \cup {c}, slots' = slots + 1
  PROVE  SlotsAreOutstanding' /\ slots' \in Nat
<1>1. IsFiniteSet(InFlight)
  BY InFlightFinite
<1>2. Cardinality(InFlight \cup {c}) = Cardinality(InFlight) + 1
  BY <1>1, FS_AddElement
<1> QED
  BY <1>2, PortAssumption DEF SlotsAreOutstanding, TypeOK

\* A step that moves no call in or out of flight leaves the slots exact.
LEMMA SlotsKept ==
  ASSUME SlotsAreOutstanding, InFlight' = InFlight, UNCHANGED slots
  PROVE  SlotsAreOutstanding'
BY DEF SlotsAreOutstanding

\* What SetCall does to the calls.
LEMMA SetCallEffect ==
  ASSUME TypeOK, NEW c \in Calls, NEW r \in CallRecord, SetCall(c, r)
  PROVE  /\ call' \in [Calls -> CallRecord]
         /\ call'[c] = r
         /\ \A d \in Calls : d # c => call'[d] = call[d]
BY DEF TypeOK, SetCall

\* A settled call is out of flight, its slot is free, and its caller was answered.
LEMMA SettleEffect ==
  ASSUME TypeOK, SlotsAreOutstanding, NEW c \in InFlight,
         NEW result \in Answers \ {"none"}, Settle(c, result)
  PROVE  /\ call' \in [Calls -> CallRecord]
         /\ slots' \in Nat
         /\ SlotsAreOutstanding'
         /\ call'[c].stage = "settled"
         /\ call'[c].answer = IF call[c].answer = "none" THEN result ELSE call[c].answer
         /\ \A d \in Calls : d # c => call'[d] = call[d]
<1> DEFINE r == [call[c] EXCEPT !.stage = "settled",
                                !.answer = IF @ = "none" THEN result ELSE @]
<1>1. c \in Calls /\ call[c] \in CallRecord
  BY DEF TypeOK, InFlight
<1>2. r \in CallRecord /\ r.stage = "settled"
      /\ r.answer = IF call[c].answer = "none" THEN result ELSE call[c].answer
  BY <1>1 DEF CallRecord, Stages
<1>3. SetCall(c, r) /\ slots' = slots - 1
  BY DEF Settle
<1>4. /\ call' \in [Calls -> CallRecord]
      /\ call'[c] = r
      /\ \A d \in Calls : d # c => call'[d] = call[d]
  BY <1>1, <1>2, <1>3, SetCallEffect
<1>5. InFlight' = InFlight \ {c}
  BY <1>1, <1>2, <1>4 DEF InFlight
<1> QED
  BY <1>2, <1>3, <1>4, <1>5, SlotFreed

\* A step that moves one call keeps what the invariant says of calls, provided
\* that it does for that call, which enters the queue only while the port is open.
LEMMA OneCallMoves ==
  ASSUME PortInv, NEW c \in Calls,
         \A d \in Calls : d # c => call'[d] = call[d],
         UNCHANGED <<closed, closeVars>>,
         quarantined => quarantined',
         call'[c].stage \in {"reserved", "queued"} /\ call'[c].answer # "none"
           => call'[c].aborted /\ call'[c].answer = "refused",
         call'[c].stage = "raw" => call'[c].answer \in {"none", "uncertain"},
         call'[c].answer = "uncertain" => quarantined',
         call'[c].stage \in {"queued", "raw"} => call[c].stage \in {"queued", "raw"} \/ ~closed,
         call[c].stage = "settled" => call'[c].stage = "settled"
  PROVE  HealthInv' /\ CloseInv'
<1>1. HealthInv'
  BY DEF PortInv, HealthInv
<1>2. CloseInv'
  <2>1. \A d \in Calls : call[d].stage = "settled" => call'[d].stage = "settled"
    OBVIOUS
  <2>2. \A d \in Calls : call'[d].stage \in {"queued", "raw"}
                          => call[d].stage \in {"queued", "raw"} \/ ~closed
    OBVIOUS
  <2> QED
    BY <2>1, <2>2 DEF PortInv, TypeOK, CloseInv, closeVars
<1> QED
  BY <1>1, <1>2

-----------------------------------------------------------------------------
(* The invariant.                                                          *)

LEMMA PortInit == Init => PortInv
<1> SUFFICES ASSUME Init PROVE PortInv
  OBVIOUS
<1>1. TypeOK
  BY DEF Init, TypeOK, CallRecord, Stages, Answers
<1>2. OpeningInv /\ CloseInv
  BY DEF Init, OpeningInv, CloseInv
<1>3. HealthInv
  BY DEF Init, HealthInv
<1>4. InFlight = {}
  BY DEF Init, InFlight
<1>5. SlotsAreOutstanding
  BY <1>4, FS_EmptySet, PortAssumption DEF Init, SlotsAreOutstanding
<1> QED
  BY <1>1, <1>2, <1>3, <1>5 DEF PortInv

\* The actions of an opening.
OpenStep ==
  \/ Open \/ OpenStarts \/ RawOpens \/ RawOpensInvalid \/ RawOpenFails
  \/ OpenDelivers \/ OpenExpires

\* An opening moves the handle and answers the opener, and touches no call.
LEMMA OpeningPreserves ==
  ASSUME PortInv, OpenStep
  PROVE  PortInv'
<1>1. UNCHANGED <<healthVars, slots, call, closeVars>>
  BY DEF OpenStep, Open, OpenStarts, RawOpens, RawOpensInvalid, RawOpenFails,
         OpenDelivers, OpenExpires
<1>2. /\ opening' \in {"asked", "raw", "acquired", "over"}
      /\ openAnswer' \in {"none", "opened", "not_opened", "uncertain"}
      /\ abandoned' \in BOOLEAN
      /\ handle' \in {"none", "held", "delivered", "released", "unrecognised"}
  BY DEF PortInv, TypeOK, OpeningInv, OpenStep, Open, OpenStarts, RawOpens, RawOpensInvalid,
         RawOpenFails, OpenDelivers, OpenExpires, Released
<1>3. TypeOK'
  BY <1>1, <1>2 DEF PortInv, TypeOK, healthVars, closeVars
<1>4. OpeningInv'
  BY DEF PortInv, TypeOK, OpeningInv, OpenStep, Open, OpenStarts, RawOpens, RawOpensInvalid,
         RawOpenFails, OpenDelivers, OpenExpires, Released
<1>5. HealthInv' /\ CloseInv'
  BY <1>1 DEF PortInv, HealthInv, CloseInv, healthVars, closeVars
<1>6. SlotsAreOutstanding'
  BY <1>1, SlotsKept DEF PortInv, InFlight
<1> QED
  BY <1>3, <1>4, <1>5, <1>6 DEF PortInv

\* io: a refusal is an answer of its own, a reservation takes a slot.
LEMMA RequestPreserves ==
  ASSUME PortInv, NEW c \in Calls, NEW write \in BOOLEAN, NEW aborted \in BOOLEAN,
         Request(c, write, aborted)
  PROVE  PortInv'
<1>1. call[c] \in CallRecord /\ call[c].stage = "new"
      /\ UNCHANGED <<openVars, healthVars, closeVars>>
  BY DEF PortInv, TypeOK, Request
<1>2. c \notin InFlight
  BY <1>1 DEF InFlight
<1>3. CASE stateRefusal(write, aborted) \/ slots >= MaxInFlight
  <2> DEFINE r == [stage |-> "settled", write |-> write, aborted |-> aborted,
                   answer |-> "refused"]
  <2>1. SetCall(c, r) /\ UNCHANGED slots
    BY <1>3 DEF Request
  <2>2. r \in CallRecord
    BY DEF CallRecord, Stages, Answers
  <2>3. /\ call' \in [Calls -> CallRecord]
        /\ call'[c] = r
        /\ \A d \in Calls : d # c => call'[d] = call[d]
    BY <2>1, <2>2, SetCallEffect DEF PortInv
  <2>4. SlotsAreOutstanding'
    <3>1. InFlight' = InFlight
      BY <1>2, <2>3 DEF InFlight
    <3> QED
      BY <2>1, <3>1, SlotsKept DEF PortInv
  <2>5. TypeOK' /\ OpeningInv'
    BY <1>1, <2>1, <2>3 DEF PortInv, TypeOK, OpeningInv, openVars, healthVars, closeVars
  <2>6. HealthInv' /\ CloseInv'
    BY <1>1, <2>3, OneCallMoves DEF healthVars
  <2> QED
    BY <2>4, <2>5, <2>6 DEF PortInv
<1>4. CASE ~(stateRefusal(write, aborted) \/ slots >= MaxInFlight)
  <2> DEFINE r == [stage |-> "reserved", write |-> write, aborted |-> FALSE,
                   answer |-> "none"]
  <2>1. SetCall(c, r) /\ slots' = slots + 1 /\ slots < MaxInFlight
    BY <1>4, PortAssumption DEF Request, PortInv, TypeOK
  <2>2. r \in CallRecord
    BY DEF CallRecord, Stages, Answers
  <2>3. /\ call' \in [Calls -> CallRecord]
        /\ call'[c] = r
        /\ \A d \in Calls : d # c => call'[d] = call[d]
    BY <2>1, <2>2, SetCallEffect DEF PortInv
  <2>4. SlotsAreOutstanding' /\ slots' \in Nat
    <3>1. InFlight' = InFlight \cup {c}
      BY <2>3 DEF InFlight
    <3> QED
      BY <1>2, <2>1, <3>1, SlotTaken DEF PortInv
  <2>5. TypeOK' /\ OpeningInv'
    BY <1>1, <2>3, <2>4 DEF PortInv, TypeOK, OpeningInv, openVars, healthVars, closeVars
  <2>6. HealthInv' /\ CloseInv'
    BY <1>1, <2>3, OneCallMoves DEF healthVars
  <2> QED
    BY <2>4, <2>5, <2>6 DEF PortInv
<1> QED
  BY <1>3, <1>4

\* A call refused at a microtask, after its reservation: the answer is definite.
LEMMA RefusedPreserves ==
  ASSUME PortInv, NEW c \in Calls, call[c].stage \in {"reserved", "queued"},
         Settle(c, "refused"), UNCHANGED <<openVars, healthVars, closeVars>>
  PROVE  PortInv'
<1>1. c \in InFlight
  BY DEF InFlight
<1>2. /\ call' \in [Calls -> CallRecord]
      /\ slots' \in Nat
      /\ SlotsAreOutstanding'
      /\ call'[c].stage = "settled"
      /\ call'[c].answer = IF call[c].answer = "none" THEN "refused" ELSE call[c].answer
      /\ \A d \in Calls : d # c => call'[d] = call[d]
  BY <1>1, SettleEffect DEF PortInv, Answers
<1>3. TypeOK' /\ OpeningInv'
  BY <1>2 DEF PortInv, TypeOK, OpeningInv, openVars, healthVars, closeVars
<1>4. HealthInv' /\ CloseInv'
  <2>1. call'[c].answer = "refused"
    BY <1>2 DEF PortInv, HealthInv
  <2> QED
    BY <1>2, <2>1, OneCallMoves DEF healthVars
<1> QED
  BY <1>2, <1>3, <1>4 DEF PortInv

\* A call moves on towards the adapter: it has just been seen to be neither
\* cancelled nor refused by the journal's state.
LEMMA AdvancePreserves ==
  ASSUME PortInv, NEW c \in Calls, NEW next \in {"queued", "raw"},
         call[c].stage = IF next = "queued" THEN "reserved" ELSE "queued",
         ~stateRefusal(call[c].write, call[c].aborted),
         SetCall(c, [call[c] EXCEPT !.stage = next]),
         UNCHANGED <<openVars, healthVars, slots, closeVars>>
  PROVE  PortInv'
<1> DEFINE r == [call[c] EXCEPT !.stage = next]
<1>1. call[c] \in CallRecord
  BY DEF PortInv, TypeOK
<1>2. r \in CallRecord /\ r.stage = next /\ r.answer = call[c].answer /\ r.aborted = call[c].aborted
  BY <1>1 DEF CallRecord, Stages
<1>3. /\ call' \in [Calls -> CallRecord]
      /\ call'[c] = r
      /\ \A d \in Calls : d # c => call'[d] = call[d]
  BY <1>2, SetCallEffect DEF PortInv
<1>4. SlotsAreOutstanding'
  <2>1. InFlight' = InFlight
    BY <1>2, <1>3 DEF InFlight
  <2> QED
    BY <2>1, SlotsKept DEF PortInv
<1>5. TypeOK' /\ OpeningInv'
  BY <1>3 DEF PortInv, TypeOK, OpeningInv, openVars, healthVars, closeVars
<1>6. ~call[c].aborted /\ ~closed
  BY DEF stateRefusal
<1>7. call[c].answer = "none"
  BY <1>6 DEF PortInv, HealthInv
<1>8. call'[c].stage = next /\ call'[c].answer = "none" /\ call[c].stage # "settled"
  BY <1>2, <1>3, <1>7
<1>9. UNCHANGED <<closed, quarantined, closeVars>>
  BY DEF healthVars
<1>10. HealthInv' /\ CloseInv'
  BY <1>3, <1>6, <1>8, <1>9, OneCallMoves
<1> QED
  BY <1>4, <1>5, <1>10 DEF PortInv

\* The two microtasks between a request and the adapter.
LEMMA MicrotaskPreserves ==
  ASSUME PortInv, NEW c \in Calls, Enqueue(c) \/ StartRaw(c)
  PROVE  PortInv'
<1>1. CASE stateRefusal(call[c].write, call[c].aborted)
  BY <1>1, RefusedPreserves DEF Enqueue, StartRaw
<1>2. CASE ~stateRefusal(call[c].write, call[c].aborted) /\ Enqueue(c)
  BY <1>2, AdvancePreserves DEF Enqueue
<1>3. CASE ~stateRefusal(call[c].write, call[c].aborted) /\ StartRaw(c)
  BY <1>3, AdvancePreserves DEF StartRaw
<1> QED
  BY <1>1, <1>2, <1>3

\* The adapter answers, in time or late.
LEMMA AnswerPreserves ==
  ASSUME PortInv, NEW c \in Calls, RawAnswers(c)
  PROVE  PortInv'
<1>1. c \in InFlight /\ call[c].stage = "raw" /\ UNCHANGED <<openVars, closeVars, closed>>
  BY DEF RawAnswers, InFlight, healthVars
<1>2. PICK result \in {"acknowledged", "negative", "uncertain"} :
        /\ Settle(c, result)
        /\ quarantined' = (quarantined \/ result = "uncertain")
        /\ poisoned' \in {poisoned, TRUE}
  BY DEF RawAnswers, healthVars, PortInv, TypeOK
<1>3. /\ call' \in [Calls -> CallRecord]
      /\ slots' \in Nat
      /\ SlotsAreOutstanding'
      /\ call'[c].stage = "settled"
      /\ call'[c].answer = IF call[c].answer = "none" THEN result ELSE call[c].answer
      /\ \A d \in Calls : d # c => call'[d] = call[d]
  BY <1>1, <1>2, SettleEffect DEF PortInv, Answers
<1>4. TypeOK' /\ OpeningInv'
  <2>1. quarantined' \in BOOLEAN /\ poisoned' \in BOOLEAN
    BY <1>2 DEF PortInv, TypeOK
  <2>2. TypeOK'
    BY <1>1, <1>3, <2>1 DEF PortInv, TypeOK, openVars, closeVars
  <2>3. OpeningInv'
    BY <1>1 DEF PortInv, OpeningInv, openVars
  <2> QED
    BY <2>2, <2>3
<1>5. HealthInv' /\ CloseInv'
  <2>1. (quarantined => quarantined') /\ (result = "uncertain" => quarantined')
    BY <1>2
  <2>2. call[c].answer = "uncertain" => quarantined
    BY <1>1 DEF PortInv, HealthInv, InFlight
  <2>3. call'[c].answer = "uncertain" => quarantined'
    BY <1>3, <2>1, <2>2
  <2> QED
    BY <1>1, <1>3, <2>1, <2>3, OneCallMoves DEF InFlight
<1> QED
  BY <1>3, <1>4, <1>5 DEF PortInv

\* The bounded wait ends: the call keeps its slot and its stage.
LEMMA ExpiryPreserves ==
  ASSUME PortInv, NEW c \in Calls, WaitExpires(c)
  PROVE  PortInv'
<1> DEFINE a == IF call[c].stage = "raw" THEN "uncertain" ELSE "refused"
           r == [call[c] EXCEPT !.aborted = TRUE, !.answer = a]
<1>1. call[c] \in CallRecord
  BY DEF PortInv, TypeOK
<1>2. r \in CallRecord /\ r.stage = call[c].stage /\ r.aborted /\ r.answer = a
  BY <1>1 DEF CallRecord, Answers
<1>3. /\ SetCall(c, r)
      /\ quarantined' = (quarantined \/ call[c].stage = "raw")
      /\ UNCHANGED <<openVars, poisoned, closed, slots, closeVars>>
  BY DEF WaitExpires
<1>4. /\ call' \in [Calls -> CallRecord]
      /\ call'[c] = r
      /\ \A d \in Calls : d # c => call'[d] = call[d]
  BY <1>2, <1>3, SetCallEffect DEF PortInv
<1>5. SlotsAreOutstanding'
  <2>1. \A d \in Calls : call'[d].stage = call[d].stage
    BY <1>2, <1>4
  <2>2. InFlight' = InFlight
    BY <2>1 DEF InFlight
  <2> QED
    BY <1>3, <2>2, SlotsKept DEF PortInv
<1>6. TypeOK' /\ OpeningInv'
  BY <1>3, <1>4 DEF PortInv, TypeOK, OpeningInv, openVars, closeVars
<1>7. HealthInv' /\ CloseInv'
  <2>1. (quarantined => quarantined') /\ (call[c].stage = "raw" => quarantined')
    BY <1>3
  <2>2. call'[c].answer = "uncertain" => quarantined'
    BY <1>2, <1>4, <2>1
  <2>3. /\ call'[c].stage = call[c].stage /\ call'[c].aborted
        /\ call[c].stage # "raw" => call'[c].answer = "refused"
        /\ call[c].stage = "raw" => call'[c].answer = "uncertain"
    BY <1>2, <1>4
  <2> QED
    BY <1>3, <1>4, <2>1, <2>2, <2>3, OneCallMoves
<1> QED
  BY <1>5, <1>6, <1>7 DEF PortInv

\* Close is asked for, reaches the adapter, settles or is given up.
LEMMA ClosePreserves ==
  ASSUME PortInv, Close \/ RawClose \/ RawCloses \/ CloseExpires
  PROVE  PortInv'
<1>1. UNCHANGED <<openVars, quarantined, poisoned, slots, call>>
  BY DEF Close, RawClose, RawCloses, CloseExpires, healthVars
<1>2. /\ closed' \in BOOLEAN
      /\ closing' \in {"idle", "waiting", "raw", "done"}
      /\ closeWaits' \subseteq Calls
      /\ closeAnswer' \in {"none", "closed", "uncertain"}
  BY DEF PortInv, TypeOK, healthVars, Close, RawClose, RawCloses, CloseExpires
<1>3. TypeOK' /\ OpeningInv'
  BY <1>1, <1>2 DEF PortInv, TypeOK, OpeningInv, openVars
<1>4. HealthInv'
  BY <1>1 DEF PortInv, HealthInv
<1>5. SlotsAreOutstanding'
  BY <1>1, SlotsKept DEF PortInv, InFlight
<1>6. CloseInv'
  BY <1>1 DEF PortInv, TypeOK, CloseInv, healthVars, Close, RawClose, RawCloses, CloseExpires
<1> QED
  BY <1>3, <1>4, <1>5, <1>6 DEF PortInv

\* Every step preserves the invariant.
LEMMA PortNext == PortInv /\ [Next]_vars => PortInv'
<1> SUFFICES ASSUME PortInv, [Next]_vars PROVE PortInv'
  OBVIOUS
<1>1. CASE OpenStep
  BY <1>1, OpeningPreserves
<1>2. CASE \E c \in Calls, write, aborted \in BOOLEAN : Request(c, write, aborted)
  BY <1>2, RequestPreserves
<1>3. CASE \E c \in Calls : Enqueue(c) \/ StartRaw(c)
  BY <1>3, MicrotaskPreserves
<1>4. CASE \E c \in Calls : RawAnswers(c)
  BY <1>4, AnswerPreserves
<1>5. CASE \E c \in Calls : WaitExpires(c)
  BY <1>5, ExpiryPreserves
<1>6. CASE Close \/ RawClose \/ RawCloses \/ CloseExpires
  BY <1>6, ClosePreserves
<1>7. CASE UNCHANGED vars
  <2>1. InFlight' = InFlight
    BY <1>7 DEF vars, InFlight
  <2>2. SlotsAreOutstanding'
    BY <1>7, <2>1, SlotsKept DEF vars, PortInv
  <2>3. TypeOK' /\ OpeningInv' /\ HealthInv' /\ CloseInv'
    BY <1>7 DEF vars, PortInv, TypeOK, OpeningInv, HealthInv, CloseInv,
                openVars, healthVars, closeVars
  <2> QED
    BY <2>2, <2>3 DEF PortInv
<1> QED
  BY <1>1, <1>2, <1>3, <1>4, <1>5, <1>6, <1>7 DEF Next, OpenStep

-----------------------------------------------------------------------------
(* The theorems.                                                           *)

\* The invariant holds in every behaviour.
THEOREM PortInvariant == Spec => []PortInv
<1> QED
  BY PortInit, PortNext, PTL DEF Spec

\* Every variable keeps its type.
THEOREM PortTypes == Spec => []TypeOK
<1>1. PortInv => TypeOK
  BY DEF PortInv
<1> QED
  BY <1>1, PortInvariant, PTL

\* A raw handle is the caller's that was answered "opened", or is closed: of an
\* abandoned opening none is left.
THEOREM HandlesOwned == Spec => []HandleOwnedOrReleased
<1>1. PortInv => HandleOwnedOrReleased
  <2> SUFFICES ASSUME PortInv PROVE HandleOwnedOrReleased
    OBVIOUS
  <2>1. handle = "held" => opening = "acquired"
    BY DEF PortInv, TypeOK, OpeningInv
  <2> QED
    BY <2>1 DEF PortInv, TypeOK, OpeningInv, HandleOwnedOrReleased
<1> QED
  BY <1>1, PortInvariant, PTL

\* The reservations are exactly the calls that may still reach the adapter or are
\* in it, and never more than the bound.
THEOREM SlotsExact == Spec => []SlotsAreOutstanding
<1>1. PortInv => SlotsAreOutstanding
  BY DEF PortInv
<1> QED
  BY <1>1, PortInvariant, PTL

\* The adapter's close never meets a raw call.
THEOREM CloseIsAlone == Spec => []CloseMeetsNoRawCall
<1>1. PortInv => CloseMeetsNoRawCall
  BY DEF PortInv, CloseInv, CloseMeetsNoRawCall
<1> QED
  BY <1>1, PortInvariant, PTL

\* A call the port refused is never in the adapter.
THEOREM RefusalsDefinite == Spec => []RefusalIsDefinite
<1>1. PortInv => RefusalIsDefinite
  BY DEF PortInv, HealthInv, RefusalIsDefinite
<1> QED
  BY <1>1, PortInvariant, PTL

\* After an uncertain answer no queued write reaches the adapter: uncertainty
\* quarantines, and the last look before the adapter sees it.
THEOREM UncertaintyStopsWrites == Spec => NoWriteAfterUncertainty
<1> DEFINE Stopped ==
      \A c, u \in Calls :
        call[u].answer = "uncertain" /\ call[c].write /\ call[c].stage = "queued"
          => call'[c].stage # "raw"
<1>1. ASSUME PortInv, Next PROVE Stopped
  <2> SUFFICES ASSUME NEW c \in Calls, NEW u \in Calls, call[u].answer = "uncertain",
                      call[c].write, call[c].stage = "queued"
               PROVE  call'[c].stage # "raw"
    OBVIOUS
  <2>1. quarantined /\ call \in [Calls -> CallRecord]
    BY <1>1 DEF PortInv, HealthInv, TypeOK
  <2>2. stateRefusal(call[c].write, call[c].aborted)
    BY <2>1 DEF stateRefusal
  <2>3. ASSUME NEW d \in Calls, StartRaw(d) PROVE call'[c].stage # "raw"
    BY <2>1, <2>2, <2>3 DEF StartRaw, Settle, SetCall, CallRecord
  <2>4. ASSUME NEW d \in Calls, Enqueue(d) \/ RawAnswers(d) \/ WaitExpires(d)
        PROVE call'[c].stage # "raw"
    <3>1. CASE Enqueue(d)
      BY <2>1, <3>1 DEF Enqueue, Settle, SetCall, CallRecord
    <3>2. CASE RawAnswers(d)
      BY <2>1, <3>2 DEF RawAnswers, Settle, SetCall, CallRecord
    <3>3. CASE WaitExpires(d)
      BY <2>1, <3>3 DEF WaitExpires, SetCall, CallRecord
    <3> QED
      BY <2>4, <3>1, <3>2, <3>3
  <2>5. ASSUME NEW d \in Calls, NEW write \in BOOLEAN, NEW aborted \in BOOLEAN,
               Request(d, write, aborted)
        PROVE call'[c].stage # "raw"
    BY <2>1, <2>5 DEF Request, SetCall, CallRecord
  <2>6. CASE OpenStep \/ Close \/ RawClose \/ RawCloses \/ CloseExpires
    <3>1. UNCHANGED call
      BY <2>6 DEF OpenStep, Open, OpenStarts, RawOpens, RawOpensInvalid, RawOpenFails,
                  OpenDelivers, OpenExpires, Close, RawClose, RawCloses, CloseExpires
    <3> QED
      BY <3>1
  <2> QED
    BY <1>1, <2>3, <2>4, <2>5, <2>6 DEF Next, OpenStep
<1>2. PortInv /\ [Next]_vars => [Stopped]_vars
  BY <1>1
<1> QED
  BY <1>2, PortInvariant, PTL DEF Spec, NoWriteAfterUncertainty

\* Handles, slots, refusals, uncertainty and close together (the port's whole promise).
THEOREM OrderKept == Spec => PortKeepsOrder
<1>1. Spec => [](HandleOwnedOrReleased /\ SlotsAreOutstanding /\ CloseMeetsNoRawCall
                   /\ RefusalIsDefinite)
  BY HandlesOwned, SlotsExact, CloseIsAlone, RefusalsDefinite, PTL
<1> QED
  BY <1>1, UncertaintyStopsWrites DEF PortKeepsOrder
=============================================================================
