----------------------------- MODULE HttpPlane -----------------------------
(***************************************************************************)
(* One session behind the REST server, and the callers of it               *)
(* (packages/api/src/server.ts, http-publication.ts, and the calling side, *)
(* packages/sdk-typescript/src/client.ts requestJson).                     *)
(*                                                                         *)
(* A call is authenticated when its headers arrive, handled when its body  *)
(* has been read, worked on under the session's control, and published:    *)
(* control may change hands between any two of these.  A caller whose      *)
(* connection is lost, who gives up or who cancels does not know what      *)
(* happened; it may send the same operation again.                         *)
(*                                                                         *)
(* The control object is SessionControl.  A session is either controlled   *)
(* (delegated: registered with the authority) or not, for good.  One       *)
(* tenant: its operator holds an API key, its human an operator key.       *)
(***************************************************************************)
EXTENDS SessionControl

CONSTANTS
  Calls,      \* HTTP requests, each sent once
  Offered,    \* the routes callers use
  Modes       \* agent modes a session may be delegated in

NoCap == "none"

VARIABLES
  controlled,  \* the session was registered with the authority when created
  session,     \* "open", "removed": out of the authority, "closed"
  mode,        \* the mode of the present delegation
  calls        \* call -> what became of it

httpVars == <<controlled, session, mode, calls>>
vars == <<controlVars, httpVars>>

-----------------------------------------------------------------------------
(* Agent modes (packages/protocol/src/mode-profile.ts).                    *)

AGENT_CAPABILITIES ==
  {"session.control", "session.manage", "session.credential", "page.navigate",
   "page.observe", "page.interact", "page.form", "page.extract", "page.capture",
   "application.discover", "application.execute", "engagement.findings"}

APPLICATION_CAPABILITIES == {"application.discover", "application.execute"}
BROWSER_PROFILE == AGENT_CAPABILITIES \ (APPLICATION_CAPABILITIES \cup {"engagement.findings"})

Profile(m) ==
  CASE m \in {"qa", "operations", "forms"} -> BROWSER_PROFILE
    [] m = "audit" -> (BROWSER_PROFILE \ {"page.form"}) \cup {"engagement.findings"}
    [] m \in {"appsec", "bounty"} -> BROWSER_PROFILE \cup {"engagement.findings"}
    [] m = "application" -> {"session.control"} \cup APPLICATION_CAPABILITIES

-----------------------------------------------------------------------------
(* The routes of a session, as they are registered, but for those modelled *)
(* elsewhere (the application calls, which admit themselves, and the event *)
(* streams) and the operator's takeover and delegation (ControlChanges).   *)

Route(method, name) ==
  [method |-> method, name |-> name, capability |-> NoCap, safe |-> FALSE,
   operatorRoute |-> FALSE, who |-> "owner", publication |-> "when-controlled",
   retained |-> FALSE]

\* Which agents may come here.
For(capability, route) == [route EXCEPT !.capability = capability]
\* A POST that changes nothing and needs no operation id.
Safe(route) == [route EXCEPT !.safe = TRUE]
\* operatorRoute: the human's key is valid here, and only here.
ForHuman(route) == [route EXCEPT !.operatorRoute = TRUE]
\* The handler insists on one kind of caller.
Only(who, route) == [route EXCEPT !.who = who]
\* onTransport: the handler replies by itself.
Lifecycle(route) == [route EXCEPT !.publication = "lifecycle"]
\* onTransport with an admission of its own: a status, the run that collects a review.
Guarded(route) == [route EXCEPT !.publication = "guarded"]

\* The human operator's own routes.
OperatorRoutes ==
  {ForHuman(Only("human", Lifecycle(Route("POST", name)))) :
     name \in {"scope budget", "scope assets", "reseed", "evidence pass"}}

ScopeRoutes ==
  {For("session.control", Route("GET", name)) :
     name \in {"scope traffic", "scope denied", "scope", "scope check"}}

\* Who owns the session, and what became of an operation.
ControlRoutes ==
  {For("session.control", Lifecycle(Route("GET", "control"))),
   For("session.control", Guarded(Route("GET", "operation"))),
   Only("operator", Guarded(Route("POST", "prepare resume")))}

ApprovalRoutes ==
  {ForHuman(Only("decider", Route("GET", "approval"))),
   ForHuman(Only("decider", Route("POST", "approval"))),
   ForHuman(Only("human", Route("POST", "lease")))}

ApplicationRoutes ==
  {Only("operator", Lifecycle(Route("PUT", "application"))),
   Only("operator", Lifecycle(Route("DELETE", "application")))}

SessionRoutes ==
  {For("session.control", Route("GET", "session")),
   Safe(Route("POST", "cookie handoff")),
   Route("GET", "cookies"),
   Route("GET", "events replay"),
   Route("POST", "trace"),
   Lifecycle(Route("DELETE", "session"))}

CaptureRoutes ==
  {For("page.capture", Safe(Route("POST", "html"))),
   For("page.observe", Route("GET", "snapshot")),
   For("page.capture", Safe(Route("POST", "pdf"))),
   For("page.capture", Safe(Route("POST", "screenshot"))),
   For("page.extract", Safe(Route("POST", "extract"))),
   For("page.observe", Safe(Route("POST", "observe")))}

PageRoutes ==
  {For("page.observe", Route("GET", "pages")),
   For("session.manage", Route("POST", "pages")),
   For("page.observe", Route("GET", "page")),
   For("session.manage", Route("DELETE", "page")),
   For("page.navigate", Route("POST", "navigate"))}

ActRoutes ==
  {For("page.interact", Route("POST", "plan")),
   For("page.interact", Route("POST", "outcomes")),
   For("page.form", Route("POST", "autofill")),
   For("page.interact", Route("POST", "act"))}

DownloadRoutes ==
  {Route("POST", "download"),
   [For("page.capture", Route("GET", "artifact")) EXCEPT !.retained = TRUE],
   Route("POST", "collect download")}

RouteTable ==
  OperatorRoutes \cup ScopeRoutes \cup ControlRoutes \cup ApprovalRoutes \cup
  ApplicationRoutes \cup SessionRoutes \cup CaptureRoutes \cup PageRoutes \cup
  ActRoutes \cup DownloadRoutes

\* The calls that `on` wants an operation id for in a controlled session.
Mutation(route) ==
  /\ route.publication = "when-controlled"
  /\ route.method = "DELETE" \/ (route.method = "POST" /\ ~route.safe)

\* A fingerprint tells one route's arguments from another's.
ASSUME HttpAssumption == \A route \in RouteTable : route.name \in Fingerprints

-----------------------------------------------------------------------------
(* One call.                                                               *)

Callers == {"agent", "operator", "human"}

NoCall ==
  [pc |-> "idle", route |-> Route("", ""), actor |-> "operator", epoch |-> 0, mode |-> "qa",
   op |-> NoOp, ticket |-> NoTicket, since |-> 0, worked |-> FALSE, draft |-> "none",
   connected |-> FALSE, heard |-> "none"]

At(c, pc) == calls[c].pc = pc
To(c, pc) == [calls EXCEPT ![c].pc = pc]

\* The server is done with the call; what only its own steps would read is forgotten.
Over(call, heard) ==
  [NoCall EXCEPT !.pc = "over", !.route = call.route, !.actor = call.actor, !.op = call.op,
                 !.ticket = call.ticket, !.worked = call.worked, !.heard = heard]

\* The caller's last word: the answer, if it is still there to hear it.  "denied":
\* refused before anything ran; "revoked": the owner was lost, perhaps after it ran.
Hears(c, answer) ==
  [calls EXCEPT ![c] = Over(@, IF @.connected THEN answer ELSE @.heard)]

\* terminate: the socket is destroyed, whatever was or was not written to it.
Cut(c) == [calls EXCEPT ![c] = Over(@, "uncertain")]

\* requestJson: a write to a session carries an operation id, minted for it or chosen
\* by the caller; a look at an operation names one.
Names(route) ==
  \/ route.publication = "when-controlled" /\ route.method # "GET" /\ route.name # "cookie handoff"
  \/ route.name = "operation"

\* An agent presents the token of the present delegation, as far as it knows.
Sends(c, route, actor, op) ==
  /\ op # NoOp <=> Names(route)
  /\ actor = "agent" => controlled /\ state = "AGENT_ACTIVE"
  /\ calls' = [calls EXCEPT ![c] =
       [NoCall EXCEPT !.pc = "sent", !.route = route, !.actor = actor, !.op = op,
                      !.epoch = epoch, !.mode = mode, !.connected = TRUE]]
  /\ UNCHANGED <<controlVars, controlled, session, mode>>

\* The caller's timeout, its cancellation, or the network: the write may have run.
LosesTouch(c) ==
  /\ calls[c].pc \notin {"idle", "over"}
  /\ calls[c].connected
  /\ calls' = [calls EXCEPT ![c].connected = FALSE, ![c].heard = "uncertain"]
  /\ UNCHANGED <<controlVars, controlled, session, mode>>

\* The /v1 onRequest hook.
Authenticated(call) ==
  CASE call.actor = "operator" -> TRUE
    [] call.actor = "human" -> call.route.operatorRoute
    [] call.actor = "agent" ->
         /\ session = "open"
         /\ authorizeAgent(call.epoch)
         /\ call.route.capability \in Profile(call.mode)

Arrives(c) ==
  /\ At(c, "sent")
  /\ calls' = IF Authenticated(calls[c]) THEN To(c, "admitted") ELSE Hears(c, "denied")
  /\ UNCHANGED <<controlVars, controlled, session, mode>>

-----------------------------------------------------------------------------
(* Under control: `on`, the authority's run, and the guarded publication.  *)

\* The principal the authority admits: never the human's key, and an agent's only
\* for the delegation it was authenticated for.
Admitted(call) ==
  CASE call.actor = "operator" -> TRUE
    [] call.actor = "human" -> FALSE
    [] call.actor = "agent" -> authorizeAgent(call.epoch)

\* `on` and route read everything again, in one step with the authority's begin.
Reached(c) == At(c, "admitted") /\ controlled /\ session = "open"
Governed(call) == call.route.publication = "when-controlled"
UnderControl(call) == call.route.publication \in {"when-controlled", "guarded"}

\* prepare-resume: the review is collected in a run of the operator's.
Collects(call) == call.route.name = "prepare resume"

\* The identity a call is run under: reads have none, whatever header they carry.
Identity(call) == IF Mutation(call.route) \/ call.route.name = "operation" THEN call.op ELSE NoOp

Spent(call) == Identity(call) # NoOp /\ call.op \in DOMAIN records

\* A repeated operation id is answered with its record if nothing about it differs.
SameOperation(call) ==
  LET stored == records[call.op] IN
  /\ stored.actor = call.actor
  /\ stored.epoch = epoch
  /\ stored.fingerprint = call.route.name

Begins(c, t) ==
  /\ Reached(c)
  /\ Governed(calls[c])
  /\ Admitted(calls[c])
  /\ Begin(t, calls[c].actor, calls[c].epoch, Identity(calls[c]), calls[c].route.name, FALSE)
  /\ calls' = [calls EXCEPT ![c].pc = "working", ![c].ticket = t]
  /\ UNCHANGED <<controlled, session, mode>>

\* prepare-resume starts the review, and in the same turn the run that collects it.
Reviews(c, t) ==
  /\ Reached(c)
  /\ Collects(calls[c]) /\ calls[c].actor = "operator"
  /\ startReview
  /\ IssueTicket(t, "operator", NoOp, calls[c].route.name, FALSE)
  /\ calls' = [calls EXCEPT ![c].pc = "working", ![c].ticket = t]
  /\ UNCHANGED <<controlled, session, mode>>

\* The record is published as it was, for as long as the asker still may ask.
Replays(c) ==
  LET call == calls[c] IN
  /\ Reached(c)
  /\ Governed(call) \/ call.route.name = "operation"
  /\ Admitted(call)
  /\ Spent(call)
  /\ IF Governed(call) THEN AdmitsActor(call.actor, call.epoch) /\ SameOperation(call)
     ELSE call.actor = "agent" => records[call.op].epoch = epoch
  /\ calls' = [calls EXCEPT ![c].pc = "replaying", ![c].since = review]
  /\ UNCHANGED <<controlVars, controlled, session, mode>>

\* The owner is another, the session is busy, the id was used otherwise, or the
\* operation asked about is not on record: nothing has run.
MayBegin(call) ==
  Governed(call) /\ AdmitsActor(call.actor, call.epoch) /\ ~Spent(call) /\ active = NoTicket
MayReview(call) ==
  Collects(call) /\ active = NoTicket /\ state \in {"HUMAN_ACTIVE", "RESUME_REVIEW"}
MayReplay(call) ==
  Spent(call) /\ IF Governed(call) THEN AdmitsActor(call.actor, call.epoch) /\ SameOperation(call)
                 ELSE call.actor = "agent" => records[call.op].epoch = epoch

Denies(c) ==
  LET call == calls[c] IN
  /\ Reached(c)
  /\ UnderControl(call)
  /\ ~Admitted(call) \/ ~(MayBegin(call) \/ MayReview(call) \/ MayReplay(call))
  /\ calls' = Hears(c, "denied")
  /\ UNCHANGED <<controlVars, controlled, session, mode>>

\* Whom the handler itself insists on.
Insists(call) ==
  CASE call.route.who = "owner" -> TRUE
    [] call.route.who = "operator" -> call.actor = "operator"
    [] call.route.who = "human" -> call.actor = "human"
    [] call.route.who = "decider" -> call.actor \in {"operator", "human"}

\* The handler's one effect: a dispatch under the ticket, or a read under its check.
Works(c) ==
  LET call == calls[c] IN
  /\ At(c, "working")
  /\ ~call.worked
  /\ Insists(call)
  /\ IF Mutation(call.route) THEN Dispatched(call.ticket)
     ELSE check(call.ticket) /\ UNCHANGED controlVars
  /\ calls' = [calls EXCEPT ![c].worked = TRUE]
  /\ UNCHANGED <<controlled, session, mode>>

StatusLeft(t) == IF tickets[t].didDispatch THEN "outcome_unknown" ELSE "failed"

\* Collection failed, not delivery: the operator takes over, and the run will find that
\* its ticket is not good any more.
CollectionFails(c) ==
  /\ At(c, "working") /\ Collects(calls[c]) /\ calls[c].draft = "none"
  /\ session = "open"
  /\ Takeover
  /\ calls' = [calls EXCEPT ![c].draft = "failed"]
  /\ UNCHANGED <<controlled, session, mode>>

\* The handler's draft is ready and its owner is the same: the facts are frozen.  A write
\* may complete without a dispatch (a decision on an approval does).
Drafts(c, draft) ==
  LET call == calls[c] IN
  /\ At(c, "working")
  /\ check(call.ticket)
  /\ draft = "ok" => Insists(call)
  /\ Collects(call) => draft = "ok"
  /\ Finalize(call.ticket, IF draft = "ok" THEN "completed" ELSE StatusLeft(call.ticket))
  /\ calls' = [calls EXCEPT ![c].pc = "publishing", ![c].draft = draft]
  /\ UNCHANGED <<controlled, session, mode>>

\* The owner is another by then: the run throws before any publication, and the
\* route answers for it.
Abandons(c) ==
  LET call == calls[c] IN
  /\ At(c, "working")
  /\ ~check(call.ticket)
  /\ Finish(call.ticket, StatusLeft(call.ticket))
  /\ calls' = Hears(c, "revoked")
  /\ UNCHANGED <<controlled, session, mode>>

\* What context.assertCurrent asks.
Current(c) ==
  LET call == calls[c] IN
  IF call.ticket # NoTicket THEN check(call.ticket)
  ELSE /\ session = "open"
       /\ Admitted(call)
       /\ state # "STOPPED"
       /\ review = call.since

\* A run's ticket is released when its publication is over, however it went.
Releases(c) ==
  LET t == calls[c].ticket IN
  IF t = NoTicket THEN UNCHANGED controlVars
  ELSE Finish(t, IF calls[c].draft = "ok" THEN "completed" ELSE StatusLeft(t))

Publishes(c) ==
  /\ calls[c].pc \in {"publishing", "replaying"}
  /\ calls[c].connected
  /\ Current(c)
  /\ calls' = [calls EXCEPT ![c].pc = "sending",
                            ![c].draft = IF calls[c].ticket = NoTicket THEN "recorded" ELSE @]
  /\ UNCHANGED <<controlVars, controlled, session, mode>>

\* Slip: no guard on the way out, where the headers are set asynchronously.
OnSendUnguarded(c) ==
  /\ At(c, "sending")
  /\ calls[c].connected
  /\ calls' = To(c, "flushing")
  /\ UNCHANGED <<controlVars, controlled, session, mode>>

\* onSend: the guard, and then the bytes, with nothing in between.
OnSend(c) ==
  /\ At(c, "sending")
  /\ calls[c].connected
  /\ Current(c)
  /\ calls' = To(c, "flushing")
  /\ UNCHANGED <<controlVars, controlled, session, mode>>

Flushed(c) ==
  /\ At(c, "flushing")
  /\ calls[c].connected
  /\ calls' = Hears(c, calls[c].draft)
  /\ Releases(c)
  /\ UNCHANGED <<controlled, session, mode>>

\* The owner changed, the caller left, or the publication's ten seconds are over.
Terminates(c) ==
  /\ calls[c].pc \in {"publishing", "replaying", "sending", "flushing"}
  /\ calls' = Cut(c)
  /\ Releases(c)
  /\ UNCHANGED <<controlled, session, mode>>

-----------------------------------------------------------------------------
(* Without control.                                                        *)

\* The session is out of the authority, or over: only an artifact outlives it.
Ended(c) ==
  LET call == calls[c] IN
  /\ At(c, "admitted")
  /\ session # "open"
  /\ IF session = "closed" /\ call.route.retained
       THEN calls' = [Hears(c, "ok") EXCEPT ![c].worked = TRUE]
       ELSE calls' = Hears(c, "revoked")
  /\ UNCHANGED <<controlVars, controlled, session, mode>>

\* A session that was never delegated: the handler replies as it is.
Uncontrolled(c, answer) ==
  LET call == calls[c] IN
  /\ At(c, "admitted")
  /\ session = "open"
  /\ ~controlled \/ ~UnderControl(call)
  /\ call.route.name # "session" \/ call.route.method # "DELETE"
  /\ answer = "ok" => Insists(call) /\ (call.route.publication # "guarded" \/ controlled)
  /\ calls' = [Hears(c, answer) EXCEPT ![c].worked = Insists(call) /\ answer = "ok"]
  /\ UNCHANGED <<controlVars, controlled, session, mode>>

\* DELETE of the session: out of the authority at once, closed when the engine is.
Deletes(c) ==
  LET call == calls[c] IN
  /\ At(c, "admitted")
  /\ session = "open"
  /\ call.route.name = "session" /\ call.route.method = "DELETE"
  /\ session' = "removed"
  /\ IF controlled THEN Stop ELSE UNCHANGED controlVars
  /\ calls' = [calls EXCEPT ![c].pc = "closing", ![c].worked = TRUE]
  /\ UNCHANGED <<controlled, mode>>

\* The session ends by itself: its time is over, or its engine crashed.
Ends ==
  /\ session = "open"
  /\ session' = "removed"
  /\ IF controlled THEN Stop ELSE UNCHANGED controlVars
  /\ UNCHANGED <<controlled, mode, calls>>

Closes ==
  /\ session = "removed"
  /\ session' = "closed"
  /\ calls' = [c \in Calls |-> IF At(c, "closing") THEN Hears(c, "ok")[c] ELSE calls[c]]
  /\ UNCHANGED <<controlVars, controlled, mode>>

\* The operator's takeover and delegation reply by themselves, in one step; so does a
\* review here, of a caller that is none of Calls and has it collected at once.
ControlChanges ==
  /\ controlled
  /\ session = "open"
  /\ \/ Takeover /\ UNCHANGED mode
     \/ PrepareResume /\ UNCHANGED mode
     \/ (\E e \in 0..MaxReview : Delegate(e)) /\ mode' \in Modes
  /\ UNCHANGED <<controlled, session, calls>>

-----------------------------------------------------------------------------

Init ==
  /\ ControlInit
  /\ controlled \in BOOLEAN
  /\ session = "open"
  /\ mode \in Modes
  /\ calls = [c \in Calls |-> NoCall]

\* A caller asks for one of these routes.
Asks(routes) ==
  \E c \in Calls :
    /\ At(c, "idle")
    /\ \E route \in RouteTable, actor \in Callers, op \in OpIds \cup {NoOp} :
         /\ <<route.method, route.name>> \in routes
         /\ Sends(c, route, actor, op)

\* Everything that happens once calls are under way.
Serves ==
  \/ \E c \in Calls :
        \/ LosesTouch(c)
        \/ Arrives(c)
        \/ \E t \in Tickets : Begins(c, t) \/ Reviews(c, t)
        \/ Replays(c)
        \/ Denies(c)
        \/ Works(c)
        \/ \E draft \in {"ok", "failed"} : Drafts(c, draft)
        \/ CollectionFails(c)
        \/ Abandons(c)
        \/ Publishes(c)
        \/ OnSend(c)
        \/ Flushed(c)
        \/ Terminates(c)
        \/ Ended(c)
        \/ \E answer \in {"ok", "failed"} : Uncontrolled(c, answer)
        \/ Deletes(c)
  \/ Ends
  \/ Closes
  \/ ControlChanges

Next == Asks(Offered) \/ Serves

Spec == Init /\ [][Next]_vars

-----------------------------------------------------------------------------
(* Properties.                                                             *)

\* What a caller of a controlled session was told is so: a denied call did not run, a
\* recorded one is another's whose identity it repeats, and a write that was answered
\* is on record as completed, with the dispatch it made.
HeardIsTrue ==
  \A c \in Calls :
    LET call == calls[c] IN
    controlled /\ Governed(call) =>
      /\ call.heard = "denied" => ~call.worked
      /\ call.heard = "recorded" =>
           /\ ~call.worked
           /\ call.op \in DOMAIN records
           /\ \E d \in Calls \ {c} : calls[d].op = call.op /\ calls[d].ticket = records[call.op].ticket
      /\ call.heard = "ok" /\ Mutation(call.route) =>
           /\ call.op \in DOMAIN records
           /\ records[call.op].ticket = call.ticket
           /\ records[call.op].record = Fact("completed", call.worked)

\* However often a caller repeats an operation whose answer was lost, and whoever owns
\* the session by then, its work is done at most once.
OncePerIdentity ==
  controlled =>
    \A c, d \in Calls :
      /\ calls[c].worked /\ calls[d].worked
      /\ Governed(calls[c]) /\ Governed(calls[d])
      /\ Mutation(calls[c].route) /\ Mutation(calls[d].route) /\ calls[c].op = calls[d].op
      => c = d

\* Nothing of a controlled session is handed to the network for a caller who has lost
\* the session since it was let in (what a lifecycle route replies, and an artifact
\* that outlives its session, are not published under control), and no review but the one
\* the session is in.
PublishedToItsOwner ==
  [][\A c \in Calls :
       At(c, "sending") /\ calls'[c].pc = "flushing" =>
         /\ session = "open"
         /\ calls[c].actor = "agent" => authorizeAgent(calls[c].epoch)
         /\ calls[c].ticket # NoTicket => active = calls[c].ticket
         /\ Collects(calls[c]) => state = "RESUME_REVIEW"]_vars

\* What a caller hears of a write is what became of it, an identity reaches the browser
\* once, and a result is published to the owner it was made for.
CallersMayTrustAnswers == [](HeardIsTrue /\ OncePerIdentity) /\ PublishedToItsOwner
=============================================================================
