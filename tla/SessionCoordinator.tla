------------------------- MODULE SessionCoordinator -------------------------
(***************************************************************************)
(* The allocations behind session ids (packages/core/src/                  *)
(* session-coordinator.ts): creation, activity, expiry, close, abnormal    *)
(* termination and shutdown, with the checks the service makes before it   *)
(* hands a new session out (packages/api/src/service.ts).                  *)
(*                                                                         *)
(* A context is one allocation and keeps its identity when its textual id  *)
(* is used again.  Engine calls are asynchronous; a close may never settle.*)
(* READY and ACTIVE are one state here (LIVE), the abnormal terminations   *)
(* another (TERMINATED); close causes and tenants are left out.  The clock *)
(* is known by what it has passed: the end of a lifetime, which activity   *)
(* does not move, the idle deadline, which it does, and the retention of   *)
(* the oldest terminal record.                                             *)
(***************************************************************************)
EXTENDS Naturals, Sequences, FiniteSets

CONSTANTS
  Ids,              \* textual session ids
  MaxContexts,      \* bound on the number of allocations
  MaxSessions,
  MaxTerminal       \* terminal records kept

ASSUME CoordinatorAssumption == {MaxContexts, MaxSessions, MaxTerminal} \subseteq Nat

VARIABLES
  sessions,       \* id -> the context it maps to
  pendingIds,     \* ids reserved by a creation
  contexts,       \* the allocations, in the order they were started
  terminal,       \* ids with a terminal record
  shutdown,       \* no, asked (refusing creations), closing (timer stopped), done
  shutdownWaits   \* contexts the coordinator's shutdown has still to see off

coordinatorVars == <<sessions, pendingIds, contexts, terminal, shutdown, shutdownWaits>>

States == {"CREATING", "LIVE", "CLOSING", "CLOSED", "EXPIRED", "TERMINATED", "ENGINE_CRASHED"}
Stages == {"allocating", "registered", "initializing", "adopted", "refused"}

Context ==
  [id : Ids, stage : Stages, state : States, aborted : BOOLEAN,
   over : BOOLEAN,                      \* its lifetime has passed
   idle : BOOLEAN,                      \* longer inactive than its idle timeout
   engine : {"none", "open", "asked"},  \* no engine session, open, asked to close
   outstanding : Nat,                   \* engine closes not settled
   closing : BOOLEAN]                   \* one of them belongs to close()

-----------------------------------------------------------------------------
(* Helpers.                                                                *)

Live(c) == contexts[c].id \in DOMAIN sessions /\ sessions[contexts[c].id] = c

Without(C) == [id \in {i \in DOMAIN sessions : sessions[i] \notin C} |-> sessions[id]]

\* Slip: activity extends a session without end.
ExpiredIdle(c) == contexts[c].idle

\* expirationCauseAt
Expired(c) == contexts[c].over \/ contexts[c].idle

\* recordTerminal and enforceTerminalCaps, for contexts that end in the same step:
\* above the cap records are dropped, the older ones first (their order among
\* themselves is left open).
Record(C) ==
  LET ids == {contexts[c].id : c \in C}
      all == terminal \cup ids
  IN /\ terminal' \in SUBSET all
     /\ ids \subseteq terminal' \/ terminal' \subseteq ids
     /\ Cardinality(terminal') = IF Cardinality(all) > MaxTerminal THEN MaxTerminal
                                 ELSE Cardinality(all)

\* expire and terminateContext: cancellation first, and the engine session is
\* closed unless an earlier close still is at it.
Ended(r, newState) ==
  [r EXCEPT !.state = newState, !.aborted = TRUE, !.engine = "asked",
            !.outstanding = IF r.state = "CLOSING" THEN @ ELSE @ + 1]

End(C, newState) ==
  /\ contexts' = [c \in DOMAIN contexts |->
                    IF c \in C THEN Ended(contexts[c], newState) ELSE contexts[c]]
  /\ sessions' = Without(C)

SetContext(c, r) == contexts' = [contexts EXCEPT ![c] = r]

-----------------------------------------------------------------------------
(* Creation.                                                               *)

Create(id) ==
  /\ shutdown = "no"
  /\ Cardinality(DOMAIN sessions) + Cardinality(pendingIds) < MaxSessions
  /\ id \notin DOMAIN sessions \cup pendingIds
  /\ Len(contexts) < MaxContexts
  /\ pendingIds' = pendingIds \cup {id}
  /\ contexts' = Append(contexts,
       [id |-> id, stage |-> "allocating", state |-> "CREATING", aborted |-> FALSE,
        over |-> FALSE, idle |-> FALSE, engine |-> "none",
        outstanding |-> 0, closing |-> FALSE])
  /\ UNCHANGED <<sessions, terminal, shutdown, shutdownWaits>>

EngineRefuses(c) ==
  /\ contexts[c].stage = "allocating" /\ contexts[c].engine = "none"
  /\ SetContext(c, [contexts[c] EXCEPT !.stage = "refused"])
  /\ pendingIds' = pendingIds \ {contexts[c].id}
  /\ UNCHANGED <<sessions, terminal, shutdown, shutdownWaits>>

\* The engine session is there and the context is registered without an await.
EngineCreates(c) ==
  LET id == contexts[c].id IN
  /\ contexts[c].stage = "allocating" /\ contexts[c].engine = "none"
  /\ SetContext(c, [contexts[c] EXCEPT !.stage = "registered", !.state = "LIVE",
                      !.engine = "open"])
  /\ sessions' = [i \in DOMAIN sessions \cup {id} |-> IF i = id THEN c ELSE sessions[i]]
  /\ pendingIds' = pendingIds \ {id}
  /\ terminal' = terminal \ {id}
  /\ UNCHANGED <<shutdown, shutdownWaits>>

\* The engine session is there but unusable (no valid lifetime, or disconnected
\* already): it is closed, and the id stays reserved until that settles.
EngineCreatesUnusable(c) ==
  /\ contexts[c].stage = "allocating" /\ contexts[c].engine = "none"
  /\ SetContext(c, [contexts[c] EXCEPT !.engine = "asked", !.outstanding = 1, !.aborted = TRUE])
  /\ UNCHANGED <<sessions, pendingIds, terminal, shutdown, shutdownWaits>>

\* What the service asks of a new session: still the current owner of its id,
\* neither expired nor cancelled.  Asking expires it.
Owned(c) == Live(c) /\ ~Expired(c) /\ ~contexts[c].aborted

\* discardIfCurrent, or the lazy expiry of the look itself; no terminal record
\* for the former.
Refuse(c) ==
  /\ IF Live(c)
       THEN LET lapsed == Expired(c) IN
            /\ sessions' = Without({c})
            /\ SetContext(c, [Ended(contexts[c], IF lapsed THEN "EXPIRED" ELSE "CLOSED")
                                EXCEPT !.stage = "refused"])
            /\ IF lapsed THEN Record({c}) ELSE UNCHANGED terminal
       ELSE /\ SetContext(c, [contexts[c] EXCEPT !.stage = "refused"])
            /\ UNCHANGED <<sessions, terminal>>
  /\ UNCHANGED <<pendingIds, shutdown, shutdownWaits>>

\* The service goes on: a shutdown that began meanwhile refuses the session.
ServiceChecks(c) ==
  /\ contexts[c].stage = "registered"
  /\ IF shutdown = "no" /\ Owned(c)
       THEN /\ SetContext(c, [contexts[c] EXCEPT !.stage = "initializing"])
            /\ UNCHANGED <<sessions, pendingIds, terminal, shutdown, shutdownWaits>>
       ELSE Refuse(c)

\* Ledger, evidence and the like: any of it may fail; ownership is checked last.
InitializationFails(c) ==
  /\ contexts[c].stage = "initializing"
  /\ Refuse(c)

ServiceAdopts(c) ==
  /\ contexts[c].stage = "initializing"
  /\ IF Owned(c)
       THEN /\ SetContext(c, [contexts[c] EXCEPT !.stage = "adopted"])
            /\ UNCHANGED <<sessions, pendingIds, terminal, shutdown, shutdownWaits>>
       ELSE Refuse(c)

-----------------------------------------------------------------------------
(* The life of a session.                                                  *)

UpdateActivity(id) ==
  /\ id \in DOMAIN sessions
  /\ SetContext(sessions[id], [contexts[sessions[id]] EXCEPT !.idle = FALSE])
  /\ UNCHANGED <<sessions, pendingIds, terminal, shutdown, shutdownWaits>>

\* get and inspect: a look at an expired session ends it.
Get(id) ==
  /\ id \in DOMAIN sessions
  /\ Expired(sessions[id])
  /\ End({sessions[id]}, "EXPIRED")
  /\ Record({sessions[id]})
  /\ UNCHANGED <<pendingIds, shutdown, shutdownWaits>>

\* runCleanup, until shutdown stops its timer.
Cleanup ==
  LET expired == {sessions[id] : id \in {i \in DOMAIN sessions : Expired(sessions[i])}} IN
  /\ shutdown \in {"no", "asked"}
  /\ End(expired, "EXPIRED")
  /\ Record(expired)
  /\ UNCHANGED <<pendingIds, shutdown, shutdownWaits>>

\* close: a second caller joins the first, so the engine is asked once.
Close(id) ==
  LET c == sessions[id] IN
  /\ id \in DOMAIN sessions
  /\ ~contexts[c].closing
  /\ SetContext(c, [contexts[c] EXCEPT !.state = "CLOSING", !.aborted = TRUE,
                      !.engine = "asked", !.outstanding = @ + 1, !.closing = TRUE])
  /\ UNCHANGED <<sessions, pendingIds, terminal, shutdown, shutdownWaits>>

\* terminate and terminateIfCurrent; the engine's own disconnect signal, which is
\* no longer listened to once the session is cancelled, does the same.
Terminate(id) ==
  /\ id \in DOMAIN sessions
  /\ End({sessions[id]}, "TERMINATED")
  /\ Record({sessions[id]})
  /\ UNCHANGED <<pendingIds, shutdown, shutdownWaits>>

-----------------------------------------------------------------------------
(* Engine closes settle.                                                   *)

\* Slip: whatever the id maps to now is removed.
OwnedCloseSettlesById(c, ok) ==
  /\ contexts[c].closing
  /\ SetContext(c, [contexts[c] EXCEPT !.outstanding = @ - 1, !.closing = FALSE,
                      !.state = IF ok THEN "CLOSED" ELSE "ENGINE_CRASHED"])
  /\ sessions' = IF ok THEN [id \in DOMAIN sessions \ {contexts[c].id} |-> sessions[id]]
                 ELSE sessions
  /\ UNCHANGED <<pendingIds, terminal, shutdown, shutdownWaits>>

\* The close of closeContext: only the current owner of the id is removed, and a
\* failed close leaves it there, to be closed again or to expire.
OwnedCloseSettles(c, ok) ==
  LET r == [contexts[c] EXCEPT !.outstanding = @ - 1, !.closing = FALSE,
                               !.state = IF ok THEN "CLOSED" ELSE "ENGINE_CRASHED"]
  IN
  /\ contexts[c].closing
  /\ SetContext(c, r)
  /\ IF ok /\ Live(c)
       THEN sessions' = Without({c}) /\ Record({c})
       ELSE UNCHANGED <<sessions, terminal>>
  /\ UNCHANGED <<pendingIds, shutdown, shutdownWaits>>

\* The close of an expiry, a termination or an unusable creation: best effort.
CloseSettles(c) ==
  /\ contexts[c].outstanding > 0
  /\ ~contexts[c].closing
  /\ LET allocating == contexts[c].stage = "allocating" IN
     /\ SetContext(c, [contexts[c] EXCEPT !.outstanding = @ - 1,
                         !.stage = IF allocating THEN "refused" ELSE @])
     /\ pendingIds' = IF allocating THEN pendingIds \ {contexts[c].id} ELSE pendingIds
  /\ UNCHANGED <<sessions, terminal, shutdown, shutdownWaits>>

-----------------------------------------------------------------------------
(* Shutdown.                                                               *)

\* The service refuses creations from here on, and drains journaled runs.
ServiceShutdown ==
  /\ shutdown = "no"
  /\ shutdown' = "asked"
  /\ UNCHANGED <<sessions, pendingIds, contexts, terminal, shutdownWaits>>

\* The coordinator's shutdown ends what it finds; closes under way are waited for.
CoordinatorShutdown ==
  LET found == {sessions[id] : id \in DOMAIN sessions} IN
  /\ shutdown = "asked"
  /\ shutdown' = "closing"
  /\ shutdownWaits' = found
  /\ End({c \in found : ~contexts[c].closing}, "CLOSED")
  /\ UNCHANGED <<pendingIds, terminal>>

\* A close that was waited for has settled: done with it, unless it failed.
ShutdownResumes(c) ==
  /\ c \in shutdownWaits
  /\ ~contexts[c].closing
  /\ IF Live(c)
       THEN End({c}, "CLOSED") /\ UNCHANGED shutdownWaits
       ELSE /\ contexts[c].outstanding = 0
            /\ shutdownWaits' = shutdownWaits \ {c}
            /\ UNCHANGED <<contexts, sessions>>
  /\ UNCHANGED <<pendingIds, terminal, shutdown>>

ShutdownDone ==
  /\ shutdown = "closing"
  /\ shutdownWaits = {}
  /\ shutdown' = "done"
  /\ terminal' = {}
  /\ UNCHANGED <<sessions, pendingIds, contexts, shutdownWaits>>

-----------------------------------------------------------------------------
(* The clock.                                                              *)

LifetimeEnds(c) ==
  /\ Live(c) /\ ~contexts[c].over
  /\ SetContext(c, [contexts[c] EXCEPT !.over = TRUE])
  /\ UNCHANGED <<sessions, pendingIds, terminal, shutdown, shutdownWaits>>

IdleTooLong(c) ==
  /\ Live(c) /\ ~contexts[c].idle
  /\ SetContext(c, [contexts[c] EXCEPT !.idle = TRUE])
  /\ UNCHANGED <<sessions, pendingIds, terminal, shutdown, shutdownWaits>>

\* pruneTerminal
RetentionEnds ==
  /\ \E id \in terminal : terminal' = terminal \ {id}
  /\ UNCHANGED <<sessions, pendingIds, contexts, shutdown, shutdownWaits>>

---------------------------------------------------------------------------

CoordinatorInit ==
  /\ sessions = [id \in {} |-> 0]
  /\ pendingIds = {}
  /\ contexts = <<>>
  /\ terminal = {}
  /\ shutdown = "no"
  /\ shutdownWaits = {}

CoordinatorNext ==
  \/ RetentionEnds
  \/ \E id \in Ids : Create(id) \/ UpdateActivity(id) \/ Get(id) \/ Close(id) \/ Terminate(id)
  \/ \E c \in DOMAIN contexts :
       \/ EngineRefuses(c) \/ EngineCreates(c) \/ EngineCreatesUnusable(c)
       \/ ServiceChecks(c) \/ InitializationFails(c) \/ ServiceAdopts(c)
       \/ \E ok \in BOOLEAN : OwnedCloseSettles(c, ok)
       \/ CloseSettles(c)
       \/ LifetimeEnds(c) \/ IdleTooLong(c)
       \/ ShutdownResumes(c)
  \/ Cleanup
  \/ ServiceShutdown \/ CoordinatorShutdown \/ ShutdownDone

\* Time passes and the cleanup timer runs.  Of engines nothing is assumed.
Expires(c) == c \in DOMAIN contexts /\ LifetimeEnds(c)

CoordinatorFairness ==
  /\ WF_coordinatorVars(Cleanup)
  /\ \A c \in 1..MaxContexts : WF_coordinatorVars(Expires(c))

CoordinatorSpec == CoordinatorInit /\ [][CoordinatorNext]_coordinatorVars /\ CoordinatorFairness

-----------------------------------------------------------------------------
(* Properties.                                                             *)

CoordinatorTypeOK ==
  /\ contexts \in Seq(Context)
  /\ DOMAIN sessions \subseteq Ids
  /\ \A id \in DOMAIN sessions : sessions[id] \in DOMAIN contexts
  /\ pendingIds \subseteq Ids
  /\ terminal \subseteq Ids
  /\ shutdown \in {"no", "asked", "closing", "done"}
  /\ shutdownWaits \subseteq DOMAIN contexts

\* An engine session nobody asked to close is still reachable by its id: no
\* interleaving of creation, expiry, close and reuse of the id loses one.
NoEngineLeak == \A c \in DOMAIN contexts : contexts[c].engine = "open" => Live(c)

\* An engine session is never asked to close while an earlier close is under way,
\* nor before its consumers were cancelled.
ClosedOnceCancelled ==
  \A c \in DOMAIN contexts :
    /\ contexts[c].outstanding <= 1
    /\ contexts[c].engine = "asked" => contexts[c].aborted

\* A terminal record describes an id that has ended: a late close of an earlier
\* allocation never reports the id's present session as closed.
TerminalNotLive == terminal \cap DOMAIN sessions = {}

\* "Close all sessions": when shutdown is done no session that was, or still may
\* be, handed out is left, those under creation included.
ShutdownLeavesNothing ==
  shutdown = "done" =>
    \A c \in DOMAIN contexts : Live(c) => contexts[c].stage = "registered"

\* No engine session is left that nobody will close, none is closed twice or under
\* its consumers, an ended one is not also live, and a finished shutdown leaves none.
AllocationsHold ==
  NoEngineLeak /\ ClosedOnceCancelled /\ TerminalNotLive /\ ShutdownLeavesNothing

\* Every session ends by its lifetime, whatever its activity and even if a close
\* of it never settles, as long as the service is not shutting down.
SessionsEnd ==
  \A c \in 1..MaxContexts :
    LET Registered == c \in DOMAIN contexts /\ Live(c) IN
    Registered ~> (~Registered \/ shutdown # "no")
=============================================================================
