----------------------------- MODULE ChokePoint -----------------------------
(***************************************************************************)
(* The egress choke point of a browser context (packages/engine-playwright:*)
(* the context.route handler and its redirect walk in index.ts, the        *)
(* BodyRedirectGuard of body-redirect-guard.ts, the claims of              *)
(* page-fetch-lane.ts) and the cookie replacement that freezes it.         *)
(*                                                                         *)
(* A body-bearing same-origin request (native) goes to the browser; any    *)
(* other (inspected) is fetched and walked by the handler itself.  Only a  *)
(* policy that requires it (an engagement scope) gives the context a       *)
(* guard: with it, the guard judges the redirects of native requests, a    *)
(* body it did not see is refused, and probes exist.  Without it native    *)
(* redirects are followed with no verdict (the residual of ADR-006).  A    *)
(* probe's claim settles once.  Left out: headers and injection, denial    *)
(* notes, evidence events, frames and targets, worker CSP, chain tables,   *)
(* delivery of a redirected terminal.                                      *)
(***************************************************************************)
EXTENDS Naturals, FiniteSets

CONSTANTS
  Requests,   \* requests of the context; each is made at most once
  RequestKinds,      \* [body, cross, probe]: what a request may be
  Places,     \* where a request or a redirect may point: URLs, one origin each
  MaxHops,    \* MAX_REDIRECT_HOPS
  MaxSwaps    \* bound on cookie replacements

ASSUME ChokeAssumption ==
  /\ RequestKinds \subseteq [body : BOOLEAN, cross : BOOLEAN, probe : BOOLEAN]
  /\ \A kind \in RequestKinds : kind.probe => ~kind.cross  \* of its document's origin
  /\ MaxHops \in Nat /\ MaxSwaps \in Nat

VARIABLES
  hasGuard, \* egress.requireRedirectGuard: the context got a BodyRedirectGuard
  request,  \* request -> its handler's state
  frozen,   \* admission.frozen
  swap,     \* the replacement: "idle", "drain", "write"
  swaps     \* replacements begun

chokeVars == <<hasGuard, request, frozen, swap, swaps>>

Nowhere == "nowhere"
Unmade == [pc |-> "unmade", kind |-> [body |-> FALSE, cross |-> FALSE, probe |-> FALSE],
           at |-> Nowhere, tracked |-> FALSE, seen |-> {}, hops |-> 0, allowed |-> {},
           contacted |-> {}, terminals |-> 0, claim |-> "none"]

\* The lane of a request: a body of the page's own origin is continued natively.
Native(q) == q.kind.body /\ ~q.kind.cross

SetTo(r, state) == request' = [request EXCEPT ![r] = state]
Steps(r) == UNCHANGED <<hasGuard, frozen, swap, swaps>>

\* In flight: admitted and its response not complete; parked ones were never sent.
InFlight(r) == request[r].pc \notin {"unmade", "over"}
Dispatched(r) == InFlight(r) /\ request[r].pc # "parked"

-----------------------------------------------------------------------------
(* The route handler.                                                      *)

\* The route callback tracks the request, then parks it behind a freeze.
Admit(r, kind, place) ==
  /\ request[r].pc = "unmade"
  /\ kind.probe => hasGuard    \* the probe lane exists in guarded contexts only
  /\ SetTo(r, [Unmade EXCEPT !.pc = IF frozen THEN "parked" ELSE "judge",
                             !.kind = kind, !.at = place, !.seen = {place},
                             !.claim = IF kind.probe THEN "live" ELSE "none"])
  /\ Steps(r)

Unpark(r) ==
  /\ request[r].pc = "parked" /\ ~frozen
  /\ SetTo(r, [request[r] EXCEPT !.pc = "judge"])
  /\ Steps(r)

\* settle: exactly once, later outcomes are ignored.
settle(claim, outcome) == IF claim = "live" THEN outcome ELSE claim

\* deny, and every other answer of the handler: one terminal route operation.
Answer(r, claim) ==
  SetTo(r, [request[r] EXCEPT !.pc = "answered", !.terminals = @ + 1, !.claim = claim])

Contact(r, state, place) ==
  SetTo(r, [state EXCEPT !.contacted = @ \cup {place}])

\* Slip: a body the guard did not see is only asked of the policy.
FirstRefusedByVerdictOnly(q, allow, seen) == ~allow
\* A guarded context refuses the body the guard did not see: nobody would judge the
\* redirects of it.
FirstRefused(q, allow, seen) == ~allow \/ (hasGuard /\ q.kind.body /\ ~seen)

\* verdictOf the first hop, then track (seen), then the lane.
JudgeFirst(r, allow, seen) ==
  LET q == request[r]
      judged == [q EXCEPT !.allowed = {q.at}, !.tracked = seen]
  IN  /\ q.pc = "judge"
      /\ seen => hasGuard /\ q.kind.body
      /\ IF FirstRefused(q, allow, seen)
         THEN \E outcome \in {"denied", "failed"} :
                (outcome = "failed" => allow) /\ Answer(r, settle(q.claim, outcome))
         ELSE IF Native(q)
         THEN Contact(r, [judged EXCEPT !.pc = "native", !.terminals = @ + 1], q.at)
         ELSE Contact(r, [judged EXCEPT !.pc = "walk"], q.at)
      /\ Steps(r)

\* A cross-origin body that cannot be read back: judged and seen as any other, but
\* aborted before any re-issue.
BodyLost(r) ==
  LET q == request[r]
  IN  /\ q.pc = "judge" /\ q.kind.body /\ q.kind.cross
      /\ Answer(r, q.claim)
      /\ Steps(r)

\* The loop cap and the loop detection of the walk: neither settles the claim.
TooManyHops(r) ==
  /\ request[r].pc = "walk" /\ request[r].hops = MaxHops
  /\ Answer(r, request[r].claim)
  /\ Steps(r)

RedirectLoop(r, next) ==
  /\ request[r].pc = "walk" /\ request[r].hops < MaxHops
  /\ next \in request[r].seen
  /\ Answer(r, request[r].claim)
  /\ Steps(r)

\* Slip: a probe's redirect is only asked of the policy.
HopRefusedByVerdictOnly(q, next, allow) == ~allow
\* A probe stays on its origin, whatever the policy would allow.
HopRefused(q, next, allow) == (q.kind.probe /\ next # q.at) \/ ~allow

\* One redirect of the walk: judged for its own destination, then fetched.
Redirect(r, next, allow) ==
  LET q == request[r]
      hop == [q EXCEPT !.hops = @ + 1, !.seen = @ \cup {next}]
  IN  /\ q.pc = "walk" /\ q.hops < MaxHops /\ next \notin q.seen
      /\ IF HopRefused(q, next, allow) THEN Answer(r, settle(q.claim, "denied"))
         ELSE Contact(r, [hop EXCEPT !.allowed = IF allow THEN @ \cup {next} ELSE @], next)
      /\ Steps(r)

\* The response-size cap on the headers: denied, the claim left as it is.
HeadersTooLarge(r) ==
  /\ request[r].pc = "walk"
  /\ Answer(r, request[r].claim)
  /\ Steps(r)

\* The end of a walk: the bytes are over the cap, or delivered.
Finish(r, small) ==
  LET q == request[r]
  IN  /\ q.pc = "walk"
      /\ Answer(r, settle(q.claim, IF small THEN "admitted" ELSE "failed"))
      /\ Steps(r)

\* The handler's catch: a transport failure before any answer is answered once,
\* a failure of the answer itself is not answered again.
Throws(r) ==
  LET q == request[r]
      caught == [q EXCEPT !.pc = "answered", !.claim = settle(q.claim, "failed")]
  IN  /\ q.pc \in {"judge", "walk", "answered"}
      /\ q.pc = "answered" => q.claim = "live"
      /\ SetTo(r, IF q.terminals = 0 THEN [caught EXCEPT !.terminals = 1] ELSE caught)
      /\ Steps(r)

-----------------------------------------------------------------------------
(* The guard of body-bearing requests.                                     *)

GuardAnswers(r, outcome) ==
  SetTo(r, [request[r] EXCEPT !.pc = "answered", !.claim = settle(@, outcome)])

\* A redirect at the response stage: hop cap, loop, a probe's own origin, verdict (a
\* denial without a scope code fails the claim).
GuardRedirect(r, next, allow) ==
  LET q == request[r]
      tooFar == q.hops = MaxHops \/ next \in q.seen
  IN  /\ q.pc = "native" /\ q.tracked
      /\ IF tooFar THEN GuardAnswers(r, "failed")
         ELSE IF HopRefused(q, next, allow)
         THEN \E outcome \in {"denied", "failed"} : GuardAnswers(r, outcome)
         ELSE Contact(r, [q EXCEPT !.hops = @ + 1, !.seen = @ \cup {next},
                                   !.allowed = IF allow THEN @ \cup {next} ELSE @], next)
      /\ Steps(r)

\* The terminal response of a tracked request: admitted, or failed closed.
GuardFinish(r, admitted) ==
  /\ request[r].pc = "native" /\ request[r].tracked
  /\ GuardAnswers(r, IF admitted THEN "admitted" ELSE "failed")
  /\ Steps(r)

\* A redirect nobody tracks: Playwright never routes it, the browser follows it.
NativeRedirect(r, next) ==
  LET q == request[r]
  IN  /\ q.pc = "native" /\ ~q.tracked
      /\ Contact(r, q, next)
      /\ Steps(r)

\* The response is complete (or the request failed): the guard's target reports the
\* end of a body it saw, which settles a claim nobody settled.
Complete(r) ==
  LET q == request[r]
  IN  /\ q.pc = "answered" \/ (q.pc = "native" /\ ~q.tracked)
      /\ SetTo(r, [q EXCEPT !.pc = "over",
                            !.claim = IF q.kind.body THEN settle(@, "failed") ELSE @])
      /\ Steps(r)

-----------------------------------------------------------------------------
(* replaceCookies.                                                         *)

Freeze ==
  /\ swap = "idle" /\ ~frozen /\ swaps < MaxSwaps
  /\ frozen' = TRUE /\ swap' = "drain" /\ swaps' = swaps + 1
  /\ UNCHANGED <<hasGuard, request>>

Drained == \A r \in Requests : ~Dispatched(r)

BeginWrite ==
  /\ swap = "drain" /\ Drained
  /\ swap' = "write"
  /\ UNCHANGED <<hasGuard, request, frozen, swaps>>

\* The drain's deadline: the jar is untouched.
DrainTimesOut ==
  /\ swap = "drain"
  /\ swap' = "idle" /\ frozen' = FALSE
  /\ UNCHANGED <<hasGuard, request, swaps>>

\* Written, failed or given up at its deadline (it may then land late; the jar's
\* contents are not part of the model): the freeze is released.
WriteDone ==
  /\ swap = "write"
  /\ swap' = "idle" /\ frozen' = FALSE
  /\ UNCHANGED <<hasGuard, request, swaps>>

-----------------------------------------------------------------------------
ChokeInit ==
  /\ hasGuard \in BOOLEAN
  /\ request = [r \in Requests |-> Unmade]
  /\ frozen = FALSE
  /\ swap = "idle"
  /\ swaps = 0

Handle(r) ==
  \/ \E kind \in RequestKinds, place \in Places : Admit(r, kind, place)
  \/ Unpark(r) \/ BodyLost(r) \/ TooManyHops(r) \/ HeadersTooLarge(r) \/ Throws(r)
  \/ \E allow, seen \in BOOLEAN : JudgeFirst(r, allow, seen)
  \/ \E next \in Places : RedirectLoop(r, next)
  \/ \E next \in Places, allow \in BOOLEAN : Redirect(r, next, allow)
  \/ \E small \in BOOLEAN : Finish(r, small)
  \/ \E next \in Places, allow \in BOOLEAN : GuardRedirect(r, next, allow)
  \/ \E admitted \in BOOLEAN : GuardFinish(r, admitted)
  \/ \E next \in Places : NativeRedirect(r, next)
  \/ Complete(r)

ChokeNext ==
  \/ \E r \in Requests : Handle(r)
  \/ Freeze \/ BeginWrite \/ DrainTimesOut \/ WriteDone

ChokeSpec == ChokeInit /\ [][ChokeNext]_chokeVars

-----------------------------------------------------------------------------
(* Properties.                                                             *)

\* No request is sent before its own destination was allowed.  What the handler walks,
\* and every body of a guarded context, also reaches no redirect that was not allowed;
\* a probe reaches only the one origin it was prepared for.
ContactsJudged ==
  \A r \in Requests :
    LET q == request[r]
    IN  /\ q.contacted # {} => q.at \in q.allowed
        /\ hasGuard \/ ~Native(q) => q.contacted \subseteq q.allowed
        /\ q.kind.probe => Cardinality(q.contacted) <= 1

\* While the jar is being replaced no request is on the wire: none carries old
\* credentials past the swap, none lands a Set-Cookie on the new jar.
CookieSwapIsAlone == swap = "write" => \A r \in Requests : ~Dispatched(r)

\* A route gets one terminal operation, also when that operation itself fails,
\* and a request that is over got one.
AnsweredOnce ==
  \A r \in Requests :
    /\ request[r].terminals <= 1
    /\ request[r].pc \in {"answered", "over"} => request[r].terminals = 1

\* The handler's comment on the claim: "settled on every terminal path, including
\* the catch".
ClaimSettledWithItsRequest ==
  \A r \in Requests : request[r].pc = "over" => request[r].claim # "live"

\* The servers contacted are those the decisions were about (redirects of a body in a
\* context without a guard excepted), an intercepted request is answered once, and no
\* request is in the browser while cookies are swapped.
ContactsOnlyWhatWasJudged == ContactsJudged /\ AnsweredOnce /\ CookieSwapIsAlone
=============================================================================
