------------------------------- MODULE PageActs -------------------------------
(***************************************************************************)
(* The acts and navigations of one page as its callers see them            *)
(* (packages/engine-playwright index.ts: act, actInternal, performAction,  *)
(* navigateInternal, the dialogs): which blocked navigation an act reports *)
(* as observed during it, when a refused act is healed, and who settles a  *)
(* dialog.                                                                 *)
(*                                                                         *)
(* External: the page sends main-document requests and opens dialogs when  *)
(* it likes; the egress handler denies a request (ChokePoint).  Left out:  *)
(* the mutual exclusion of inputs (PageInput), what a ref resolves to      *)
(* (PageRefs), diagnostics of a timeout, other frames and other resources. *)
(***************************************************************************)
EXTENDS Naturals, FiniteSets

CONSTANTS
  Acts,         \* act calls, each made once
  Navigations,  \* navigate calls, each made once
  MaxRequests,  \* bound on main-document requests, numbered as they start
  MaxDialogs    \* bound on dialogs, numbered as they open

ASSUME ActsAssumption == MaxRequests \in Nat

VARIABLES
  pageAct,      \* act -> [at, kind, isolated, epoch, root, chain, latest, seen, alone, says]
  going,    \* navigateInternal calls under way: navigationDispatches counts them
  gone,     \* the navigate calls made
  epoch,    \* actionNavigationEpoch
  mainRequest,  \* request -> [sent, from, denied, ended]
  dialog,   \* dialog -> "none", "open", "closed": in the browser
  timers,   \* dialogs whose grace timer is armed
  pending,  \* pendingDialog; 0 is undefined
  pageClosed

actsVars == <<pageAct, going, gone, epoch, mainRequest, dialog, timers, pending, pageClosed>>
dialogVars == <<dialog, timers, pending>>

MainRequests == 1 .. MaxRequests
Dialogs == 1 .. MaxDialogs
ActKinds == {"click", "wait", "navigate", "accept"}

\* root, latest and seen: requests, 0 undefined.  alone (a history variable): no
\* other act or navigation was under way between the dispatch and now.
IdleAct == [at |-> "idle", kind |-> "click", isolated |-> FALSE, epoch |-> 0, root |-> 0,
         chain |-> {}, latest |-> 0, seen |-> 0, alone |-> FALSE, says |-> 0]

ActsInit ==
  /\ pageAct = [a \in Acts |-> IdleAct]
  /\ going = {} /\ gone = {} /\ epoch = 0
  /\ mainRequest = [r \in MainRequests |->
                      [sent |-> FALSE, from |-> 0, denied |-> FALSE, ended |-> FALSE]]
  /\ dialog = [d \in Dialogs |-> "none"] /\ timers = {} /\ pending = 0
  /\ pageClosed = FALSE

\* actionDispatches counts these.
Out == {a \in Acts : pageAct[a].at = "out"}
Listens(a) == pageAct[a].at = "out" /\ pageAct[a].isolated

\* Whoever was under way is no longer alone.
NotAlone(acts) == [a \in Acts |-> IF a \in Out THEN [acts[a] EXCEPT !.alone = FALSE] ELSE acts[a]]

-----------------------------------------------------------------------------
(* act.                                                                    *)

StartAct(a, kind) ==
  /\ pageAct[a].at = "idle" /\ ~pageClosed
  /\ pageAct' = [pageAct EXCEPT ![a] = [IdleAct EXCEPT !.at = "resolving", !.kind = kind]]
  /\ UNCHANGED <<going, gone, epoch, mainRequest, dialogVars, pageClosed>>

\* dispatchAction refuses before the dispatch.  A stale target the caller asked
\* to heal is observed again and tried once more.
ActRefused(a, healed) ==
  /\ pageAct[a].at \in {"resolving", "healed"}
  /\ pageAct' = [pageAct EXCEPT ![a].at =
                   IF healed /\ pageAct[a].at = "resolving" THEN "healed" ELSE "failed"]
  /\ UNCHANGED <<going, gone, epoch, mainRequest, dialogVars, pageClosed>>

\* onDispatch: the only dispatch under way, and no explicit navigation or wait.
Isolated(a) == Out = {} /\ going = {} /\ pageAct[a].kind \notin {"navigate", "wait"}

\* An act of kind navigate is a navigation too.
Dispatch(a) ==
  /\ pageAct[a].at \in {"resolving", "healed"}
  /\ epoch' = epoch + (IF pageAct[a].kind = "navigate" THEN 2 ELSE 1)
  /\ pageAct' = [NotAlone(pageAct) EXCEPT ![a].at = "out", ![a].epoch = epoch + 1,
               ![a].isolated = Isolated(a), ![a].alone = (Out = {} /\ going = {})]
  /\ going' = IF pageAct[a].kind = "navigate" THEN going \cup {a} ELSE going
  /\ UNCHANGED <<gone, mainRequest, dialogVars, pageClosed>>

Denied(r) == r # 0 /\ mainRequest[r].denied
\* What inspect leaves in navigationObservation after looking at the root and the
\* latest request of the chain.
Inspected(a) ==
  IF Denied(pageAct[a].latest) THEN pageAct[a].latest
  ELSE IF Denied(pageAct[a].root) THEN pageAct[a].root ELSE pageAct[a].seen

\* Slip: a dispatch that came and went meanwhile is forgotten.
ReportsIfIsolated(a) == pageAct[a].isolated
\* The evidence is returned only if the dispatch is still the last one.
Reports(a) == pageAct[a].isolated /\ pageAct[a].epoch = epoch

\* A success says what it observed; a failure says nothing of it.
EndAct(a, ok) ==
  /\ pageAct[a].at = "out" /\ (pageAct[a].kind = "accept" => ~ok)
  /\ pageAct' = [pageAct EXCEPT ![a].at = IF ok THEN "done" ELSE "failed",
                        ![a].says = IF ok /\ Reports(a) THEN Inspected(a) ELSE 0]
  /\ going' = going \ {a}
  /\ UNCHANGED <<gone, epoch, mainRequest, dialogVars, pageClosed>>

-----------------------------------------------------------------------------
(* navigate, and the requests of the page.                                 *)

Navigate(n) ==
  /\ n \notin gone /\ ~pageClosed
  /\ gone' = gone \cup {n} /\ going' = going \cup {n}
  /\ epoch' = epoch + 1
  /\ pageAct' = NotAlone(pageAct)
  /\ UNCHANGED <<mainRequest, dialogVars, pageClosed>>

\* performNavigation answers; a receipt for its own request is used up.
NavigationEnds(n, r) ==
  /\ n \in going \cap Navigations
  /\ going' = going \ {n}
  /\ mainRequest' = IF r # 0 /\ mainRequest[r].ended
                    THEN [mainRequest EXCEPT ![r].denied = FALSE] ELSE mainRequest
  /\ UNCHANGED <<pageAct, gone, epoch, dialogVars, pageClosed>>

\* started: the first chain that begins while the act listens is its own; a
\* second one, or a redirect from before, leaves nothing attributable.
Starts(a, r, from) ==
  IF from = 0 /\ pageAct[a].root = 0
  THEN [pageAct[a] EXCEPT !.root = r, !.latest = r, !.chain = {r}]
  ELSE IF from # 0 /\ from \in pageAct[a].chain
  THEN [pageAct[a] EXCEPT !.latest = r, !.chain = @ \cup {r}]
  ELSE [pageAct[a] EXCEPT !.isolated = FALSE]

RequestStarts(r, from) ==
  /\ ~mainRequest[r].sent /\ (\A q \in 1 .. r - 1 : mainRequest[q].sent) /\ ~pageClosed
  /\ from # 0 => mainRequest[from].sent /\ mainRequest[from].ended
                 /\ \A q \in MainRequests : mainRequest[q].sent => mainRequest[q].from # from
  /\ mainRequest' = [mainRequest EXCEPT ![r].sent = TRUE, ![r].from = from]
  /\ pageAct' = [a \in Acts |-> IF Listens(a) THEN Starts(a, r, from) ELSE pageAct[a]]
  /\ UNCHANGED <<going, gone, epoch, dialogVars, pageClosed>>

\* The egress handler denies it for the engagement scope, then it is answered.
RequestEnds(r, denied) ==
  /\ mainRequest[r].sent /\ ~mainRequest[r].ended
  /\ mainRequest' = [mainRequest EXCEPT ![r].ended = TRUE, ![r].denied = denied]
  /\ pageAct' = [a \in Acts |-> IF denied /\ Listens(a) /\ r \in pageAct[a].chain
                            THEN [pageAct[a] EXCEPT !.seen = r] ELSE pageAct[a]]
  /\ UNCHANGED <<going, gone, epoch, dialogVars, pageClosed>>

-----------------------------------------------------------------------------
(* Dialogs.                                                                *)

\* The page has one dialog at a time; the engine holds it and arms its grace.
DialogOpens(d) ==
  /\ dialog[d] = "none" /\ (\A e \in 1 .. d - 1 : dialog[e] = "closed") /\ ~pageClosed
  /\ dialog' = [dialog EXCEPT ![d] = "open"]
  /\ timers' = timers \cup {d} /\ pending' = d
  /\ UNCHANGED <<pageAct, going, gone, epoch, mainRequest, pageClosed>>

\* External: the browser ends it itself, as a new document or its user does.
DialogGone(d) ==
  /\ dialog[d] = "open"
  /\ dialog' = [dialog EXCEPT ![d] = "closed"]
  /\ UNCHANGED <<pageAct, going, gone, epoch, mainRequest, timers, pending, pageClosed>>

\* Slip: only the held dialog is settled by its grace.
GraceSettlesHeld(d) == IF pending = d THEN [dialog EXCEPT ![d] = "closed"] ELSE dialog
\* The timer accepts or dismisses its own dialog, whichever is held now.
GraceSettles(d) == [dialog EXCEPT ![d] = "closed"]
GraceEnds(d) ==
  /\ d \in timers
  /\ timers' = timers \ {d}
  /\ dialog' = GraceSettles(d) /\ pending' = 0
  /\ UNCHANGED <<pageAct, going, gone, epoch, mainRequest, pageClosed>>

\* acceptDialog and dismissDialog: the held one, whose timer is cleared.
SettleDialog(a) ==
  /\ pageAct[a].at = "out" /\ pageAct[a].kind = "accept" /\ pending # 0
  /\ dialog' = [dialog EXCEPT ![pending] = "closed"]
  /\ timers' = timers \ {pending} /\ pending' = 0
  /\ pageAct' = [pageAct EXCEPT ![a].at = "done",
                                ![a].says = IF Reports(a) THEN Inspected(a) ELSE 0]
  /\ UNCHANGED <<going, gone, epoch, mainRequest, pageClosed>>

\* close: the held dialog's timer is cleared; the dialog goes with the page.
PageCloses ==
  /\ ~pageClosed /\ pageClosed' = TRUE
  /\ dialog' = [d \in Dialogs |-> IF dialog[d] = "open" THEN "closed" ELSE dialog[d]]
  /\ timers' = timers \ {pending} /\ pending' = 0
  /\ UNCHANGED <<pageAct, going, gone, epoch, mainRequest>>

ActsNext ==
  \/ \E a \in Acts :
       \/ \E kind \in ActKinds : StartAct(a, kind)
       \/ \E answer \in BOOLEAN : ActRefused(a, answer) \/ EndAct(a, answer)
       \/ Dispatch(a) \/ SettleDialog(a)
  \/ \E n \in Navigations : Navigate(n) \/ \E r \in 0 .. MaxRequests : NavigationEnds(n, r)
  \/ \E r \in MainRequests :
       \/ \E from \in 0 .. r - 1 : RequestStarts(r, from)
       \/ \E denied \in BOOLEAN : RequestEnds(r, denied)
  \/ \E d \in Dialogs : DialogOpens(d) \/ DialogGone(d) \/ GraceEnds(d)
  \/ PageCloses

\* A timer that is armed fires.
Fairness == \A d \in Dialogs : WF_actsVars(GraceEnds(d))

ActsSpec == ActsInit /\ [][ActsNext]_actsVars /\ Fairness

-----------------------------------------------------------------------------
(* A blocked navigation an act reports belongs to a chain that began after *)
(* its dispatch and was the only one, and no other act or navigation that  *)
(* could have caused it was under way in between (index.ts:3903,           *)
(* 5812-5854).                                                             *)
EvidenceStandsAlone ==
  \A a \in Acts : pageAct[a].says # 0 =>
    /\ pageAct[a].alone
    /\ pageAct[a].says \in pageAct[a].chain /\ mainRequest[pageAct[a].root].from = 0
    /\ Cardinality({r \in pageAct[a].chain : mainRequest[r].from \notin pageAct[a].chain}) = 1

(* A dialog the page waits on is always settled: by its act, by its grace, *)
(* or with the page (index.ts:3665-3680, 5988-6012, 6530).                 *)
DialogSettled == \A d \in Dialogs : dialog[d] = "open" ~> dialog[d] # "open"

(* "Hold the dialog so an agent can accept or dismiss it; settle it        *)
(* automatically after the grace" (index.ts:3665).                         *)
OpenDialogIsHeld == \A d \in Dialogs : dialog[d] = "open" /\ d \in timers => pending = d
=============================================================================
