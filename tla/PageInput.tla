------------------------------ MODULE PageInput ------------------------------
(***************************************************************************)
(* Who owns the input of one page (packages/engine-playwright): ordinary   *)
(* actions and navigations (index.ts), the exclusive coordinate gesture    *)
(* (coordinate-input.ts) and the exclusive probe (page-fetch-probe.ts).    *)
(*                                                                         *)
(* A caller prepares, waits for consent and performs; every await is a     *)
(* PageOperationLifetime read that may be lost to a timeout, a navigation, *)
(* the page's close or a revoked owner while the raw browser call goes on. *)
(* A document is a generation number.  Abstracted: metrics, screenshots,   *)
(* points and identities (they say whether the document is still the       *)
(* prepared one), choosers (they match, or the act fails), captures.       *)
(***************************************************************************)
EXTENDS Naturals, FiniteSets

CONSTANTS
  Callers,   \* acts on the page; each is made at most once
  Nobody,    \* no plan: the prototype of undefined
  MaxDocs    \* bound on navigations and closes

ASSUME InputAssumption == Nobody \notin Callers /\ MaxDocs \in Nat

VARIABLES
  act,       \* caller -> its act
  ordinary,  \* ordinaryInput: the ordinary acts and navigations under way
  gesture,   \* CoordinateController: preparing, plan, disposed, performing
  probe,     \* PageFetchController: plan, used, inFlight, the armed plan timers
  doc,       \* the live document; documentLife is aborted when it changes
  inputClosed     \* the page is closed

inputVars == <<act, ordinary, gesture, probe, doc, inputClosed>>
gestureOwned == <<ordinary, probe, doc, inputClosed>>
probeOwned == <<ordinary, gesture, doc, inputClosed>>

\* pin: the document prepared on.  life: the one whose signal the running
\* operation holds.  raw: a submitted browser write has not settled.
Idle == [kind |-> "none", pc |-> "idle", pin |-> 0, life |-> 0, raw |-> FALSE,
         file |-> "none", sent |-> 0, answer |-> "none"]

Gestures == {"clickAt", "uploadAt"}
Running(c) == act[c].life = doc /\ ~inputClosed   \* no signal aborted: reads go on
InputBecomes(c, pc) == act' = [act EXCEPT ![c].pc = pc]

-----------------------------------------------------------------------------
(* busy and owns.  owns compares the token with plan?.token: without a plan, *)
(* an act that carries no token is taken for the owner.                      *)

GestureBusy == gesture.preparing \/ gesture.plan # Nobody
ProbeBusy == probe.plan # Nobody \/ probe.inFlight # Nobody
GestureRefuses(token) == GestureBusy /\ gesture.plan # token
ProbeRefuses(token) == ProbeBusy /\ probe.plan # token

-----------------------------------------------------------------------------
(* Ordinary input.                                                         *)

StartOrdinary(c) ==
  /\ act[c].pc = "idle"
  /\ ~GestureRefuses(Nobody) /\ ~ProbeBusy
  /\ act' = [act EXCEPT ![c] = [Idle EXCEPT !.kind = "ordinary", !.pc = "acting"]]
  /\ ordinary' = ordinary \cup {c}
  /\ UNCHANGED <<gesture, probe, doc, inputClosed>>

\* navigate asks the gesture only, and a gesture being prepared is busy too.
StartNavigation(c) ==
  /\ act[c].pc = "idle" /\ ~GestureBusy
  /\ act' = [act EXCEPT ![c] = [Idle EXCEPT !.kind = "navigate", !.pc = "acting"]]
  /\ ordinary' = ordinary \cup {c}
  /\ UNCHANGED <<gesture, probe, doc, inputClosed>>

EndOrdinary(c) ==
  /\ c \in ordinary
  /\ InputBecomes(c, "done")
  /\ ordinary' = ordinary \ {c}
  /\ UNCHANGED <<gesture, probe, doc, inputClosed>>

-----------------------------------------------------------------------------
(* The coordinate gesture.                                                 *)

\* release(token): a performing act or a pending write keeps the plan, and its
\* bytes unless the page is closed; cleanup waits for it to settle.
Released(g, acts, shut) ==
  IF g.plan = Nobody THEN [plan |-> g, acts |-> acts]
  ELSE LET wiped == [acts EXCEPT ![g.plan].file = IF @ = "held" THEN "zeroed" ELSE @]
           kept == g.performing \/ acts[g.plan].raw
       IN  [plan |-> [g EXCEPT !.disposed = TRUE, !.plan = IF kept THEN @ ELSE Nobody],
            acts |-> IF shut \/ ~kept THEN wiped ELSE acts]

Release(g, acts) ==
  /\ gesture' = Released(g, acts, inputClosed).plan
  /\ act' = Released(g, acts, inputClosed).acts

PrepareGesture(c, kind) ==
  /\ act[c].pc = "idle" /\ kind \in Gestures
  /\ ordinary = {} /\ ~inputClosed /\ ~GestureBusy
  /\ act' = [act EXCEPT ![c] = [Idle EXCEPT !.kind = kind, !.pc = "preparing", !.pin = doc,
                                            !.life = doc,
                                            !.file = IF kind = "uploadAt" THEN "reading" ELSE @]]
  /\ gesture' = [gesture EXCEPT !.preparing = TRUE]
  /\ UNCHANGED gestureOwned

\* The verified file is read; a value that comes after the read was lost is zeroed.
FileRead(c) ==
  /\ act[c].file = "reading"
  /\ act' = [act EXCEPT ![c].file =
               IF act[c].pc = "preparing" /\ Running(c) THEN "held" ELSE "zeroed"]
  /\ UNCHANGED <<gesture, ordinary, probe, doc, inputClosed>>

GesturePrepared(c) ==
  /\ act[c].pc = "preparing" /\ Running(c) /\ act[c].file \in {"none", "held"}
  /\ InputBecomes(c, "prepared")
  /\ gesture' = [preparing |-> FALSE, plan |-> c, disposed |-> FALSE, performing |-> FALSE]
  /\ UNCHANGED gestureOwned

PreparationFails(c) ==
  /\ act[c].pc = "preparing"
  /\ act' = [act EXCEPT ![c].pc = "done", ![c].file = IF @ = "held" THEN "zeroed" ELSE @]
  /\ gesture' = [gesture EXCEPT !.preparing = FALSE]
  /\ UNCHANGED gestureOwned

\* The service disposes a preparation it gives up, and after every act.
DisposeGesture(c) ==
  /\ act[c].kind \in Gestures /\ act[c].pc \in {"prepared", "ended"}
  /\ LET done == [act EXCEPT ![c].pc = "done"]
     IN  IF gesture.plan = c THEN Release(gesture, done) ELSE act' = done /\ UNCHANGED gesture
  /\ UNCHANGED gestureOwned

GestureTimer ==
  /\ gesture.plan # Nobody /\ ~gesture.disposed
  /\ Release(gesture, act)
  /\ UNCHANGED gestureOwned

\* act and perform: the gesture starts with a check of the prepared state.
PerformGesture(c) ==
  /\ act[c].kind \in Gestures /\ act[c].pc = "prepared"
  /\ IF ordinary = {} /\ ~ProbeRefuses(Nobody) /\ gesture.plan = c /\ ~gesture.disposed /\ ~inputClosed
     THEN /\ act' = [act EXCEPT ![c].pc = "check", ![c].life = doc]
          /\ gesture' = [gesture EXCEPT !.performing = TRUE]
     ELSE /\ InputBecomes(c, "ended") /\ UNCHANGED gesture
  /\ UNCHANGED gestureOwned

\* live and the read's own assertion: this plan, not disposed, this document.
PlanLive(c) == gesture.plan = c /\ ~gesture.disposed /\ Running(c) /\ act[c].pin = doc

\* recheck, then the approval is committed, then the state is checked again.
Recheck(c) ==
  /\ act[c].pc \in {"check", "recheck"} /\ PlanLive(c)
  /\ InputBecomes(c, IF act[c].pc = "check" THEN "consent" ELSE "armed")
  /\ UNCHANGED <<gesture, ordinary, probe, doc, inputClosed>>

ApprovalCommitted(c) ==
  /\ act[c].kind \in Gestures /\ act[c].pc = "consent" /\ Running(c)
  /\ InputBecomes(c, "recheck")
  /\ UNCHANGED <<gesture, ordinary, probe, doc, inputClosed>>

\* write: the mouse click, or, once the chooser named the input, the attachment.
Submit(c) ==
  /\ act[c].pc \in {"armed", "chosen"} /\ PlanLive(c)
  /\ act' = [act EXCEPT ![c].pc = IF @ = "armed" THEN "clicking" ELSE "attaching",
                        ![c].raw = TRUE, ![c].sent = doc]
  /\ UNCHANGED <<gesture, ordinary, probe, doc, inputClosed>>

\* The raw write settles, perhaps long after its act gave up.
WriteSettles(c) ==
  /\ act[c].raw
  /\ LET on == act[c].pc \in {"clicking", "attaching"}
         past == IF act[c].pc = "clicking" /\ act[c].kind = "uploadAt" THEN "choosing" ELSE "seen"
         settled == [act EXCEPT ![c].raw = FALSE,
                                ![c].pc = IF on THEN (IF Running(c) THEN past ELSE @) ELSE @]
     IN  IF gesture.plan = c /\ gesture.disposed /\ ~gesture.performing
         THEN Release(gesture, settled)
         ELSE act' = settled /\ UNCHANGED gesture
  /\ UNCHANGED gestureOwned

ChooserOpens(c) ==
  /\ act[c].pc = "choosing" /\ PlanLive(c)
  /\ InputBecomes(c, "chosen")
  /\ UNCHANGED <<gesture, ordinary, probe, doc, inputClosed>>

Performing(c) ==
  act[c].pc \in {"check", "consent", "recheck", "armed", "clicking", "choosing", "chosen",
                 "attaching", "seen"}

\* performInternal's finally.
EndGesture(c, answer) ==
  /\ Release([gesture EXCEPT !.performing = FALSE],
             [act EXCEPT ![c].pc = "ended", ![c].answer = answer])
  /\ UNCHANGED gestureOwned

GestureSucceeds(c) == act[c].kind \in Gestures /\ act[c].pc = "seen" /\ EndGesture(c, "dispatched")

\* Slip: a failure of the last read is reported as it comes.
GestureFailsAsIs(c) ==
  /\ act[c].kind \in Gestures /\ Performing(c)
  /\ EndGesture(c, IF act[c].pc \in {"clicking", "attaching"} THEN "uncertain" ELSE "refused")

\* A lost read, a stale state or a refused approval: uncertain once a stage was
\* submitted, whatever failed after it.
GestureFails(c) ==
  /\ act[c].kind \in Gestures /\ Performing(c)
  /\ EndGesture(c, IF act[c].sent # 0 THEN "uncertain" ELSE "refused")

-----------------------------------------------------------------------------
(* The probe.                                                              *)

\* release(): whichever plan is there, whoever asks.
ProbeReleased(p) ==
  [p EXCEPT !.plan = Nobody, !.timers = @ \ {p.plan}]

PrepareProbe(c) ==
  /\ act[c].pc = "idle"
  /\ ordinary = {} /\ ~GestureBusy /\ ~ProbeBusy /\ ~inputClosed
  /\ act' = [act EXCEPT ![c] = [Idle EXCEPT !.kind = "fetch", !.pc = "pinning",
                                            !.pin = doc, !.life = doc]]
  /\ UNCHANGED <<ordinary, gesture, probe, doc, inputClosed>>

\* The plan is set without another look at busy.
ProbePrepared(c) ==
  /\ act[c].pc = "pinning" /\ Running(c)
  /\ InputBecomes(c, "prepared")
  /\ probe' = [probe EXCEPT !.plan = c, !.used = FALSE, !.timers = @ \cup {c}]
  /\ UNCHANGED probeOwned

ProbePreparationFails(c) ==
  /\ act[c].pc = "pinning"
  /\ InputBecomes(c, "done")
  /\ UNCHANGED <<ordinary, gesture, probe, doc, inputClosed>>

DisposeProbe(c) ==
  /\ act[c].kind = "fetch" /\ act[c].pc \in {"prepared", "ended"}
  /\ InputBecomes(c, "done")
  /\ probe' = ProbeReleased(probe)
  /\ UNCHANGED probeOwned

ProbeTimer(c) ==
  /\ c \in probe.timers
  /\ probe' = [ProbeReleased(probe) EXCEPT !.timers = @ \ {c}]
  /\ UNCHANGED <<act, ordinary, gesture, doc, inputClosed>>

PerformProbe(c) ==
  /\ act[c].kind = "fetch" /\ act[c].pc = "prepared"
  /\ IF ordinary = {} /\ ~GestureBusy /\ probe.plan = c /\ ~probe.used /\ ~inputClosed
     THEN /\ act' = [act EXCEPT ![c].pc = "repin", ![c].life = doc]
          /\ probe' = [probe EXCEPT !.used = TRUE]
     ELSE /\ InputBecomes(c, "ended") /\ UNCHANGED probe
  /\ UNCHANGED probeOwned

RegisterProbe(c) ==
  /\ act[c].pc = "repin" /\ Running(c) /\ act[c].pin = doc
  /\ InputBecomes(c, "commit")
  /\ probe' = [ProbeReleased(probe) EXCEPT !.inFlight = c]
  /\ UNCHANGED probeOwned

\* beforeDispatch, then the isolated world, then the one fetch.
CommitProbe(c) ==
  /\ act[c].pc = "commit" /\ Running(c)
  /\ InputBecomes(c, "world")
  /\ UNCHANGED <<ordinary, gesture, probe, doc, inputClosed>>

IssueFetch(c) ==
  /\ act[c].pc = "world" /\ Running(c)
  /\ act' = [act EXCEPT ![c].pc = "fetching", ![c].sent = doc]
  /\ UNCHANGED <<ordinary, gesture, probe, doc, inputClosed>>

\* perform's finally.
ProbeLetsGo(c) ==
  probe' = [IF probe.plan = c THEN ProbeReleased(probe) ELSE probe EXCEPT !.inFlight = Nobody]

\* A read is lost, the pin is stale or the approval refused: the claim settles as
\* failed, and only the read of the outcome says that the fetch may have gone out.
ProbeLost(c) ==
  /\ act[c].pc \in {"repin", "commit", "world", "fetching"}
  /\ act' = [act EXCEPT ![c].pc = "ended",
                        ![c].answer = IF act[c].pc = "fetching" THEN "uncertain" ELSE "refused"]
  /\ ProbeLetsGo(c)
  /\ UNCHANGED probeOwned

\* The claim settles in the choke point.  Denied (at the first hop or a later one) is
\* POLICY_DENIED with no word of dispatch; failed is uncertain; admitted is an answer.
ClaimSettles(c, outcome) ==
  /\ act[c].pc = "fetching" /\ Running(c)
  /\ act' = [act EXCEPT ![c].pc = "settled",
                        ![c].answer = [denied |-> "denied", failed |-> "uncertain",
                                       admitted |-> "dispatched"][outcome]]
  /\ UNCHANGED <<ordinary, gesture, probe, doc, inputClosed>>

\* The page's own promise has ended as well, or its read was lost.  One that was refused
\* after the admission fails the probe, with no word of dispatch.
ProbeEnds(c, refused) ==
  /\ act[c].pc = "settled"
  /\ refused => Running(c)
  /\ act' = [act EXCEPT ![c].pc = "ended",
                        ![c].answer = IF refused /\ @ = "dispatched" THEN "rejected" ELSE @]
  /\ ProbeLetsGo(c)
  /\ UNCHANGED probeOwned

-----------------------------------------------------------------------------
(* The document and the page.                                              *)

\* invalidate, of both controllers: framenavigated on the main frame, and close.
Invalidates(shut) ==
  /\ doc < MaxDocs
  /\ doc' = doc + 1
  /\ gesture' = Released(gesture, act, shut).plan
  /\ act' = Released(gesture, act, shut).acts
  /\ probe' = ProbeReleased(probe)
  /\ UNCHANGED ordinary

Navigated == ~inputClosed /\ Invalidates(FALSE) /\ UNCHANGED inputClosed
ClosePage == ~inputClosed /\ Invalidates(TRUE) /\ inputClosed' = TRUE

-----------------------------------------------------------------------------
PageInputInit ==
  /\ act = [c \in Callers |-> Idle]
  /\ ordinary = {}
  /\ gesture = [preparing |-> FALSE, plan |-> Nobody, disposed |-> FALSE, performing |-> FALSE]
  /\ probe = [plan |-> Nobody, used |-> FALSE, inFlight |-> Nobody, timers |-> {}]
  /\ doc = 1
  /\ inputClosed = FALSE

OrdinaryStep(c) == StartOrdinary(c) \/ StartNavigation(c) \/ EndOrdinary(c)
GestureStep(c) ==
  \/ \E kind \in Gestures : PrepareGesture(c, kind)
  \/ FileRead(c) \/ GesturePrepared(c) \/ PreparationFails(c) \/ DisposeGesture(c)
  \/ PerformGesture(c) \/ Recheck(c) \/ ApprovalCommitted(c) \/ Submit(c) \/ WriteSettles(c)
  \/ ChooserOpens(c) \/ GestureSucceeds(c) \/ GestureFails(c)
ProbeStep(c) ==
  \/ PrepareProbe(c) \/ ProbePrepared(c) \/ ProbePreparationFails(c) \/ DisposeProbe(c)
  \/ ProbeTimer(c) \/ PerformProbe(c) \/ RegisterProbe(c) \/ CommitProbe(c) \/ IssueFetch(c)
  \/ ProbeLost(c)
  \/ \E outcome \in {"denied", "failed", "admitted"} : ClaimSettles(c, outcome)
  \/ \E refused \in BOOLEAN : ProbeEnds(c, refused)

InputNext ==
  \/ \E c \in Callers : OrdinaryStep(c) \/ GestureStep(c) \/ ProbeStep(c)
  \/ GestureTimer \/ Navigated \/ ClosePage

InputSpec == PageInputInit /\ [][InputNext]_inputVars

-----------------------------------------------------------------------------
(* Properties.                                                             *)

\* "Pending browser writes keep page input exclusive until they settle": while
\* the write of a gesture is out, also one its act gave up, nothing else acts,
\* and its bytes stay whole unless the page closes.
PendingWriteIsAlone ==
  \A c \in Callers : act[c].raw =>
    /\ ordinary = {}
    /\ \A d \in Callers \ {c} : ~act[d].raw
    /\ act[c].file = "zeroed" => inputClosed

\* Bytes of a verified file are kept by the preparation or the plan that reads
\* them: whatever was lost, late or abandoned, nobody else holds them.
BytesFollowThePlan ==
  \A c \in Callers : act[c].file = "held" => act[c].pc = "preparing" \/ gesture.plan = c

\* Input goes only to the document it was prepared and approved for, and a
\* gesture that was submitted is never reported as not dispatched.
InputIsOfItsDocument ==
  \A c \in Callers :
    /\ act[c].sent \in {0, act[c].pin}
    /\ act[c].kind \in Gestures /\ act[c].sent # 0 => act[c].answer # "refused"

\* The probe's decision record: "Once browser execution has been submitted, timeout,
\* cancellation, close and raw transport failures [...] carry explicit uncertain
\* dispatch metadata" - an issued fetch does not fail without saying so.
SubmittedProbeSaysSo ==
  \A c \in Callers :
    act[c].kind = "fetch" /\ act[c].sent # 0 => act[c].answer \notin {"refused", "rejected"}

\* The lane's comment: "a probe holds the page exclusively while in flight".
ProbeHoldsPage ==
  \A c \in Callers : act[c].pc = "fetching" =>
    \A d \in Callers \ {c} : ~act[d].raw /\ act[d].pc # "fetching" /\ d \notin ordinary

\* Input meets the document it was prepared for, a pending raw write is alone on its
\* page, and file bytes are held only for the plan under way.
InputMeetsItsDocument == InputIsOfItsDocument /\ PendingWriteIsAlone /\ BytesFollowThePlan
=============================================================================
