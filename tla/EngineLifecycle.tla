--------------------------- MODULE EngineLifecycle ---------------------------
(***************************************************************************)
(* Browsers, contexts and sessions of packages/engine-playwright           *)
(* index.ts: one pool browser shared by the headless sessions and launched *)
(* again after a crash, a browser of its own for a headed session, and the *)
(* single attachment to the operator's browser; engine.close over all of   *)
(* them.                                                                   *)
(*                                                                         *)
(* External: Playwright (a launch, a context, an init script or a close    *)
(* succeeds or fails when it likes) and the browsers, which may die.  Left *)
(* out: launch options, diagnostics and the pages (SessionPages).  A       *)
(* browser's close is taken to succeed; its failure is swallowed.          *)
(***************************************************************************)
EXTENDS Naturals, FiniteSets

CONSTANTS
  Sessions,    \* createSession calls, each made once
  Kinds,       \* the kinds tried: subset of {"headless", "headed", "attach"}
  MaxCrashes   \* bound of the browsers that die

ASSUME EngineAssumption == "none" \notin Sessions

VARIABLES
  closed,      \* engine.closed
  disposing,   \* dispose: "no" | "settling" | "attached" | "pool" | "done"
  pool,        \* sharedBrowser: "none" | "launching" | "up" | "dead" | "closed"
  session,     \* session -> [kind, at, own, context, lost, aborted]
  reserved,    \* operatorAttachReserved
  active,      \* activeAttachedSession
  twice,       \* history: an attachment was released that had been released before
  crashes

vars == <<closed, disposing, pool, session, reserved, active, twice, crashes>>

None == "none"
Pending == {"acquiring", "context", "setup", "cleaning"}
Fresh == [kind |-> None, at |-> "idle", own |-> None, context |-> None, lost |-> FALSE]

Ats == Pending \cup {"idle", "live", "closing", "unclosed", "closed", "failed"}
SessionRecord ==
  [kind : {None, "headless", "headed", "attach"}, at : Ats,
   own : {None, "launching", "up", "dead", "closed"}, context : {None, "open", "closed"},
   lost : BOOLEAN]
TypeOK ==
  /\ closed \in BOOLEAN /\ reserved \in BOOLEAN /\ twice \in BOOLEAN
  /\ disposing \in {"no", "settling", "attached", "pool", "done"}
  /\ pool \in {None, "launching", "up", "dead", "closed"}
  /\ session \in [Sessions -> SessionRecord]
  /\ active \in Sessions \cup {None}

Init ==
  /\ closed = FALSE /\ disposing = "no" /\ pool = None
  /\ session = [s \in Sessions |-> Fresh]
  /\ reserved = FALSE /\ active = None /\ twice = FALSE /\ crashes = 0

Is(s, kind, at) == session[s].kind = kind /\ session[s].at = at
Becomes(s, at) == session' = [session EXCEPT ![s].at = at]

-----------------------------------------------------------------------------
(* createSession.                                                          *)

\* acquireSharedBrowser: one launch for all; a dead browser is launched again.
acquireSharedBrowser == pool' = IF pool \in {None, "dead"} THEN "launching" ELSE pool

CreateHeadless(s) ==
  /\ "headless" \in Kinds /\ session[s].at = "idle" /\ ~closed
  /\ acquireSharedBrowser
  /\ session' = [session EXCEPT ![s].kind = "headless",
                                ![s].at = IF pool = "up" THEN "context" ELSE "acquiring"]
  /\ UNCHANGED <<closed, disposing, reserved, active, twice, crashes>>

\* launchBrowser: a headed session has a browser of its own.
CreateHeaded(s) ==
  /\ "headed" \in Kinds /\ session[s].at = "idle" /\ ~closed
  /\ session' = [session EXCEPT ![s].kind = "headed", ![s].at = "acquiring", ![s].own = "launching"]
  /\ UNCHANGED <<closed, disposing, pool, reserved, active, twice, crashes>>

\* Slip: a refused attachment goes through the catch that gives the reservation back.
AttachesOrCleans(s) ==
  /\ "attach" \in Kinds /\ session[s].at = "idle" /\ ~closed
  /\ session' = [session EXCEPT ![s].kind = "attach",
                                ![s].at = IF reserved THEN "cleaning" ELSE "acquiring",
                                ![s].own = IF reserved THEN None ELSE "launching"]
  /\ reserved' = TRUE
  /\ UNCHANGED <<closed, disposing, pool, active, twice, crashes>>
\* initializeOperatorCdpSession: the attachment is reserved, or the call is refused.
CreateAttached(s) ==
  /\ "attach" \in Kinds /\ session[s].at = "idle" /\ ~closed
  /\ session' = [session EXCEPT ![s].kind = "attach",
                                ![s].at = IF reserved THEN "failed" ELSE "acquiring",
                                ![s].own = IF reserved THEN None ELSE "launching"]
  /\ reserved' = TRUE
  /\ UNCHANGED <<closed, disposing, pool, active, twice, crashes>>

\* createSession on a closed engine is refused.
CreateRefused(s) ==
  /\ session[s].at = "idle" /\ closed
  /\ Becomes(s, "failed")
  /\ UNCHANGED <<closed, disposing, pool, reserved, active, twice, crashes>>

\* requireOpen, asked after each await of a creation.
OnOrCleaning(at) == IF closed THEN "cleaning" ELSE at

\* The pool's launch settles for every creation that awaits it.
PoolLaunches(ok) ==
  /\ pool = "launching"
  /\ pool' = IF ok THEN "up" ELSE None
  /\ session' = [s \in Sessions |->
       IF Is(s, "headless", "acquiring")
       THEN [session[s] EXCEPT !.at = IF ok THEN OnOrCleaning("context") ELSE "cleaning"]
       ELSE session[s]]
  /\ UNCHANGED <<closed, disposing, reserved, active, twice, crashes>>

\* A dedicated launch or the connection to the operator's browser settles.  The
\* operator's browser has its context already.
OwnLaunches(s, ok) ==
  /\ session[s].at = "acquiring" /\ session[s].own = "launching"
  /\ session' = [session EXCEPT
       ![s].own = IF ok THEN "up" ELSE None,
       ![s].at = IF ~ok THEN "cleaning"
                 ELSE OnOrCleaning(IF session[s].kind = "attach" THEN "setup" ELSE "context"),
       ![s].context = IF ok /\ ~closed /\ session[s].kind = "attach" THEN "open" ELSE None]
  /\ UNCHANGED <<closed, disposing, pool, reserved, active, twice, crashes>>

\* newContext: fails on a browser that is gone; from here the session is observed.
NewContext(s, ok) ==
  /\ session[s].at = "context"
  /\ ok => ~session[s].lost
  /\ session' = [session EXCEPT ![s].at = IF ok THEN OnOrCleaning("setup") ELSE "cleaning",
                                ![s].context = IF ok THEN "open" ELSE None]
  /\ UNCHANGED <<closed, disposing, pool, reserved, active, twice, crashes>>

\* assertSessionConnected.
Connected(s) == session[s].context = "open" /\ ~session[s].lost

\* Init scripts, egress and cookies are set up; then the session is published.
SetUp(s, ok) ==
  /\ session[s].at = "setup"
  /\ IF ok /\ Connected(s) /\ ~closed
     THEN /\ Becomes(s, "live")
          /\ active' = IF session[s].kind = "attach" THEN s ELSE active
     ELSE /\ Becomes(s, "cleaning")
          /\ UNCHANGED active
  /\ UNCHANGED <<closed, disposing, pool, reserved, twice, crashes>>

\* Slip: the cleanup closes the browser it was given.
ClosesAny(s) ==
  /\ session' = [session EXCEPT ![s].context = IF @ = "open" THEN "closed" ELSE @,
                                ![s].own = IF @ = "up" THEN "closed" ELSE @,
                                ![s].at = "failed"]
  /\ pool' = IF session[s].kind = "headless" /\ pool = "up" THEN "closed" ELSE pool
\* closeSessionResources: the context, and the browser only if it is the session's.
Closes(s) ==
  /\ session' = [session EXCEPT ![s].context = IF @ = "open" THEN "closed" ELSE @,
                                ![s].own = IF @ = "up" THEN "closed" ELSE @,
                                ![s].at = "failed"]
  /\ UNCHANGED pool

\* The catch of a creation, its cleanup done.
CreationFails(s) ==
  /\ session[s].at = "cleaning"
  /\ Closes(s)
  /\ reserved' = (reserved /\ session[s].kind # "attach")
  /\ UNCHANGED <<closed, disposing, active, twice, crashes>>

-----------------------------------------------------------------------------
(* The end of a session.                                                   *)

\* PlaywrightSession.close: a caller joins a close under way; a failed one is
\* asked again.
Close(s) ==
  /\ session[s].at \in {"live", "unclosed"}
  /\ Becomes(s, "closing")
  /\ UNCHANGED <<closed, disposing, pool, reserved, active, twice, crashes>>

\* disposeSession: whatever fails, the context and the browser are closed.
Disposed(s, ok) ==
  /\ session[s].at = "closing" /\ session[s].kind # "attach"
  /\ session' = [session EXCEPT ![s].at = IF ok THEN "closed" ELSE "unclosed",
                                ![s].context = IF ok THEN "closed" ELSE @,
                                ![s].own = IF @ = "up" THEN "closed" ELSE @]
  /\ UNCHANGED <<closed, disposing, pool, reserved, active, twice, crashes>>

\* release, at the end of every closeAttached.
release(s) ==
  /\ active' = IF active = s THEN None ELSE active
  /\ reserved' = FALSE
  /\ twice' = (twice \/ session[s].own = "closed")

\* closeAttached: a page that fails to close does not keep the connection.
AttachedClosed(s, ok) ==
  /\ session[s].at = "closing" /\ session[s].kind = "attach"
  /\ session' = [session EXCEPT ![s].at = IF ok THEN "closed" ELSE "unclosed",
                                ![s].own = "closed", ![s].context = "closed"]
  /\ release(s)
  /\ UNCHANGED <<closed, disposing, pool, crashes>>

\* onUnexpectedLoss: a published session closes itself, an unpublished one is
\* found out at its next check.
Loses(lost) ==
  session' = [s \in Sessions |->
    IF s \notin lost THEN session[s]
    ELSE [session[s] EXCEPT !.lost = TRUE,
                            !.own = IF @ = "up" THEN "dead" ELSE @,
                            !.at = IF @ = "live" THEN "closing" ELSE @]]

PoolDies ==
  /\ pool = "up" /\ crashes < MaxCrashes
  /\ pool' = "dead" /\ crashes' = crashes + 1
  /\ Loses({s \in Sessions : session[s].kind = "headless" /\
              session[s].at \in {"context", "setup", "live", "closing", "unclosed"}})
  /\ UNCHANGED <<closed, disposing, reserved, active, twice>>

OwnDies(s) ==
  /\ session[s].own = "up" /\ session[s].at # "cleaning" /\ crashes < MaxCrashes
  /\ crashes' = crashes + 1
  /\ Loses({s})
  /\ UNCHANGED <<closed, disposing, pool, reserved, active, twice>>

-----------------------------------------------------------------------------
(* engine.close.                                                           *)

EngineClose ==
  /\ ~closed
  /\ closed' = TRUE /\ disposing' = "settling"
  /\ UNCHANGED <<pool, session, reserved, active, twice, crashes>>

\* allSettled over the pending creations.
Settled == \A s \in Sessions : session[s].at \notin Pending

\* dispose: the creations under way end first, then the attachment is closed.
PendingSettled ==
  /\ disposing = "settling" /\ Settled
  /\ disposing' = "attached"
  /\ session' = IF active # None /\ session[active].at = "live"
                THEN [session EXCEPT ![active].at = "closing"] ELSE session
  /\ UNCHANGED <<closed, pool, reserved, active, twice, crashes>>

AttachmentEnded ==
  /\ disposing = "attached"
  /\ active # None => session[active].at # "closing"
  /\ disposing' = "pool"
  /\ UNCHANGED <<closed, pool, session, reserved, active, twice, crashes>>

\* The pool goes last, with the contexts of the sessions still in it.
PoolClosed ==
  /\ disposing = "pool" /\ pool # "launching"
  /\ disposing' = "done"
  /\ pool' = IF pool = "up" THEN "closed" ELSE pool
  /\ IF pool = "up" THEN Loses({s \in Sessions : Is(s, "headless", "live")}) ELSE UNCHANGED session
  /\ UNCHANGED <<closed, reserved, active, twice, crashes>>

-----------------------------------------------------------------------------
Creates == \E s \in Sessions :
  \/ CreateHeadless(s) \/ CreateHeaded(s) \/ CreateAttached(s) \/ CreateRefused(s)
Settles == \E ok \in BOOLEAN :
  \/ PoolLaunches(ok)
  \/ \E s \in Sessions : OwnLaunches(s, ok) \/ NewContext(s, ok) \/ SetUp(s, ok)
                         \/ Disposed(s, ok) \/ AttachedClosed(s, ok)
Ends == \E s \in Sessions : CreationFails(s) \/ Close(s) \/ OwnDies(s)
Next ==
  \/ Creates \/ Settles \/ Ends
  \/ PoolDies \/ EngineClose \/ PendingSettled \/ AttachmentEnded \/ PoolClosed

Spec == Init /\ [][Next]_vars

-----------------------------------------------------------------------------
(* Properties.                                                             *)

\* "A late launch/context cannot escape shutdown": when engine.close is done, no creation
\* is under way and the only browsers up are those of headed sessions that were published
\* and are the coordinator's to close.  The connection to the operator's browser is
\* closed too, unless a close that failed was asked again: its second release forgets
\* whoever is attached by then.
NothingEscapesShutdown ==
  disposing = "done" =>
    /\ pool \notin {"up", "launching"}
    /\ \A s \in Sessions :
         /\ session[s].at \notin Pending
         /\ session[s].own = "up" =>
              \/ session[s].kind = "headed" /\ session[s].at \in {"live", "closing"}
              \/ session[s].kind = "attach" /\ twice

\* A published session that is not closing has its browser and its context: no
\* loss during the creation goes unnoticed (assertSessionConnected).
LiveIsConnected ==
  \A s \in Sessions : session[s].at = "live" =>
    /\ session[s].context = "open" /\ ~session[s].lost
    /\ IF session[s].kind = "headless" THEN pool = "up" ELSE session[s].own = "up"

\* A session that fails or closes never takes the pool from its siblings: only
\* engine.close closes the shared browser.
SiblingsKeepThePool == [][pool = "up" /\ pool' = "closed" => disposing = "pool"]_vars

\* operations.md:1467: one attached session per engine is admitted at a time.
OneAttachment ==
  \A s, t \in Sessions :
    /\ session[s].kind = "attach" /\ session[s].own \in {"launching", "up"}
    /\ session[t].kind = "attach" /\ session[t].own \in {"launching", "up"}
    => s = t

\* It holds as long as no attachment is released a second time.
OneAttachmentAtFirst == twice \/ OneAttachment

\* However creations, closes and the shutdown overlap, one session at a time is attached
\* to the operator's browser, and engine.close leaves no browser behind.
OneIsAttached == TypeOK /\ OneAttachmentAtFirst /\ NothingEscapesShutdown

\* Sessions and browsers belong together: until shutdown a live session has its
\* browser, and no session takes that of the others.
SessionsHaveTheirBrowser == []LiveIsConnected /\ SiblingsKeepThePool
=============================================================================
