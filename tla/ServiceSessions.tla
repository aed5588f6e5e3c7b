--------------------------- MODULE ServiceSessions ---------------------------
(***************************************************************************)
(* What the service keeps for a session (packages/api/src/service.ts):     *)
(* createSession, the evidence session, closeSession, crash recovery, the  *)
(* sweep and shutdown, with the engagement ledger opened while the session *)
(* is created and sealed while it ends.                                    *)
(*                                                                         *)
(* The coordinator's side is SessionCoordinator's and is only what this    *)
(* code sees of it: a context is live, closing, or ended; "failed" is one  *)
(* whose engine close rejected and that is still tracked.  Ids are not     *)
(* used twice here.  External: the engine creates, records the outcome of  *)
(* each request and closes.  Left out: which options are refused before    *)
(* anything is kept, the authority's entry, views, telemetry, redaction.   *)
(***************************************************************************)
EXTENDS Naturals, Sequences, SequencesExt, FiniteSets

CONSTANTS
  Sessions,
  MaxOutcomes,    \* bound on the outcomes recorded of a session
  MaxFailures    \* bound on the engine closes that reject

VARIABLES
  service,    \* "up", shutdown: "draining", "sessions", "ledgers", then "down"
  asks,       \* session -> [ledger, source]: what was asked for
  creation,   \* "none", an await of createSession, "answered", "refused"
  context,    \* "none", "live", "closing", "failed", "ended"
  engine,     \* "none", "open", "closing", "gone"
  entries,    \* the per-session maps that hold something for it
  scope,      \* "open", "stopped"
  file,       \* the ledger: "none", "open", "sealed" (closing record queued), "closed"
  made,       \* outcomes the engine has recorded
  pending,    \* ledgerFeed.pending
  fed,        \* ledgerFeed.ledger is set
  rows,       \* the request rows of the ledger
  transfer,   \* transfer records in the ledger, and "seeded"
  closings,   \* sessions with an entry in ledgerClosings
  closeCall,  \* closeSession: "no", "engine", "file", "done"
  crash,      \* recoverFromCrash: "no", "engine", "file", "done"
  failures

serviceVars == <<service, asks, creation, context, engine, entries, scope, file, made, pending,
          fed, rows, transfer, closings, closeCall, crash, failures>>
ledgerVars == <<made, pending, fed, rows>>
callVars == <<closeCall, crash, failures>>

Nobody == "nobody"
Asks == [ledger : BOOLEAN, source : Sessions \cup {Nobody}]

ServiceInit ==
  /\ service = "up" /\ failures = 0 /\ closings = {}
  /\ asks = [s \in Sessions |-> [ledger |-> FALSE, source |-> Nobody]]
  /\ creation = [s \in Sessions |-> "none"] /\ context = [s \in Sessions |-> "none"]
  /\ engine = [s \in Sessions |-> "none"] /\ entries = [s \in Sessions |-> {}]
  /\ scope = [s \in Sessions |-> "open"] /\ file = [s \in Sessions |-> "none"]
  /\ made = [s \in Sessions |-> 0] /\ pending = [s \in Sessions |-> <<>>]
  /\ fed = [s \in Sessions |-> FALSE] /\ rows = [s \in Sessions |-> <<>>]
  /\ transfer = [s \in Sessions |-> <<>>]
  /\ closeCall = [s \in Sessions |-> "no"] /\ crash = [s \in Sessions |-> "no"]

Tracked(s) == context[s] \in {"live", "closing", "failed"}
InUse(s) == context[s] = "live"    \* tracked and its signal not aborted

-----------------------------------------------------------------------------
(* deleteSessionState: one place drops every map.                          *)

\* The maps of the sessions in D; a ledger among them is sealed, its scope stopped first.
Drops(D) ==
  LET sealed == {s \in D : "ledger" \in entries[s]}
  IN  /\ entries' = [s \in Sessions |-> IF s \in D THEN {} ELSE entries[s]]
      /\ scope' = [s \in Sessions |-> IF s \in sealed THEN "stopped" ELSE scope[s]]
      /\ file' = [s \in Sessions |-> IF s \in sealed THEN "sealed" ELSE file[s]]
      /\ closings' = closings \cup sealed

\* The coordinator forgets the sessions of D and asks their engines to close.
Ends(D) ==
  /\ context' = [s \in Sessions |-> IF s \in D THEN "ended" ELSE context[s]]
  /\ engine' = [s \in Sessions |-> IF s \in D /\ engine[s] = "open" THEN "closing" ELSE engine[s]]

-----------------------------------------------------------------------------
(* createSession.                                                          *)

\* Refusals that come first: shutting down, an option or an engine that cannot.
CreationAdmitted(s) == service = "up" /\ creation[s] = "none"

\* createEvidenceSession: a live source without a scope, into a ledgered scope.
Transferable(s, a) ==
  /\ a.ledger /\ a.source # s
  /\ InUse(a.source) /\ ~asks[a.source].ledger

\* Up to createOwned: the secrets' owner is initialized before the engine is asked.
CreateSession(s, a) ==
  /\ CreationAdmitted(s)
  /\ a.source # Nobody => Transferable(s, a)
  /\ asks' = [asks EXCEPT ![s] = a]
  /\ creation' = [creation EXCEPT ![s] = "engine"]
  /\ entries' = [entries EXCEPT ![s] = {"secrets"}]
  /\ UNCHANGED <<service, context, engine, scope, file, ledgerVars, transfer, closings, callVars>>

\* The catch after the allocation: what it left is dropped and the context discarded.
Discards(s) ==
  /\ Drops({s})
  /\ Ends(IF Tracked(s) THEN {s} ELSE {})
  /\ creation' = [creation EXCEPT ![s] = "refused"]

CreationFails(s) ==
  /\ creation[s] = "engine"
  /\ creation' = [creation EXCEPT ![s] = "refused"]
  /\ entries' = [entries EXCEPT ![s] = {}]
  /\ UNCHANGED <<service, asks, context, engine, scope, file, ledgerVars, transfer, closings,
                 callVars>>

StillUp == service = "up"

\* The allocation came back: its maps are filled, or it is refused.
Allocated(s) ==
  /\ creation[s] = "engine"
  /\ context' = [context EXCEPT ![s] = IF StillUp THEN "live" ELSE "ended"]
  /\ engine' = [engine EXCEPT ![s] = IF StillUp THEN "open" ELSE "closing"]
  /\ entries' = [entries EXCEPT ![s] =
       IF ~StillUp THEN {}
       ELSE @ \cup {"policies"} \cup (IF asks[s].source = Nobody THEN {} ELSE {"hidden"})]
  /\ creation' = [creation EXCEPT ![s] =
       IF ~StillUp THEN "refused" ELSE IF asks[s].ledger THEN "ledger" ELSE "answered"]
  /\ UNCHANGED <<service, asks, scope, file, ledgerVars, transfer, closings, callVars>>

LedgerRefuses(s) ==
  /\ creation[s] = "ledger"
  /\ Discards(s)
  /\ UNCHANGED <<service, asks, ledgerVars, transfer, callVars>>

MayKeep(s) == StillUp /\ InUse(s)

Flushed(s) == pending[s]

LedgerOpens(s) ==
  /\ creation[s] = "ledger" /\ MayKeep(s)
  /\ file' = [file EXCEPT ![s] = "open"]
  /\ entries' = [entries EXCEPT ![s] = @ \cup {"ledger"}]
  /\ rows' = [rows EXCEPT ![s] = Flushed(s)]
  /\ pending' = [pending EXCEPT ![s] = <<>>]
  /\ fed' = [fed EXCEPT ![s] = TRUE]
  /\ creation' = [creation EXCEPT ![s] = IF asks[s].source = Nobody THEN "answered" ELSE "capture"]
  /\ UNCHANGED <<service, asks, context, engine, scope, made, transfer, closings, callVars>>

\* Opened too late: the file is closed where it was opened.
LedgerTooLate(s) ==
  /\ creation[s] = "ledger" /\ ~MayKeep(s)
  /\ Drops({s})
  /\ Ends(IF Tracked(s) THEN {s} ELSE {})
  /\ creation' = [creation EXCEPT ![s] = "refused"]
  /\ UNCHANGED <<service, asks, ledgerVars, transfer, callVars>>

-----------------------------------------------------------------------------
(* createEvidenceSession's initialize: state of the source, in the target, *)
(* between two records that must be on disk.                               *)

\* lifetime.run and currentTransfer: both owners still there.
BothCurrent(s) == InUse(asks[s].source) /\ InUse(s)

Writable(s) == "ledger" \in entries[s] /\ file[s] = "open"

\* capture; prepared on disk; the script and the state; completed on disk.
Transfer(s) ==
  LET next == CASE creation[s] = "capture" -> <<"prepare", <<>>>>
                [] creation[s] = "prepare" -> <<"seed", <<"prepared">>>>
                [] creation[s] = "seed" -> <<"complete", <<"seeded">>>>
                [] OTHER -> <<"answered", <<"completed">>>>
  IN  /\ creation' = [creation EXCEPT ![s] = next[1]]
      /\ transfer' = [transfer EXCEPT ![s] = @ \o next[2]]

InTransfer(s) == creation[s] \in {"capture", "prepare", "seed", "complete"}

TransferStep(s) ==
  /\ InTransfer(s) /\ BothCurrent(s)
  /\ creation[s] # "seed" => Writable(s)
  /\ Transfer(s)
  /\ entries' = [entries EXCEPT ![s] = IF creation[s] = "complete" THEN @ \ {"hidden"} ELSE @]
  /\ UNCHANGED <<service, asks, context, engine, scope, file, ledgerVars, closings, callVars>>

\* An owner has ended, a record did not reach the disk, the engine cannot.
TransferFails(s) ==
  /\ InTransfer(s)
  /\ Discards(s)
  /\ UNCHANGED <<service, asks, ledgerVars, transfer, callVars>>

-----------------------------------------------------------------------------
(* The engine: outcomes, and its close.                                    *)

\* The request recorder: into the ledger, or held until it is open.
RecordRequest(s) ==
  /\ asks[s].ledger /\ made[s] < MaxOutcomes
  /\ creation[s] = "engine" \/ engine[s] \in {"open", "closing"}
  /\ made' = [made EXCEPT ![s] = @ + 1]
  /\ rows' = [rows EXCEPT ![s] = IF fed[s] /\ file[s] = "open" THEN Append(@, made'[s]) ELSE @]
  /\ pending' = [pending EXCEPT ![s] = IF fed[s] THEN @ ELSE Append(@, made'[s])]
  /\ UNCHANGED <<service, asks, creation, context, engine, entries, scope, file, fed, transfer,
                 closings, callVars>>

EngineCloses(s) ==
  /\ engine[s] = "closing"
  /\ engine' = [engine EXCEPT ![s] = "gone"]
  /\ context' = [context EXCEPT ![s] = IF @ = "closing" THEN "ended" ELSE @]
  /\ UNCHANGED <<service, asks, creation, entries, scope, file, ledgerVars, transfer, closings,
                 callVars>>

\* coordinator.close rejects and keeps the session.
EngineCloseFails(s) ==
  /\ context[s] = "closing" /\ engine[s] = "closing" /\ failures < MaxFailures
  /\ engine' = [engine EXCEPT ![s] = "open"]
  /\ context' = [context EXCEPT ![s] = "failed"]
  /\ failures' = failures + 1
  /\ UNCHANGED <<service, asks, creation, entries, scope, file, ledgerVars, transfer, closings,
                 closeCall, crash>>

FileCloses(s) ==
  /\ file[s] = "sealed"
  /\ file' = [file EXCEPT ![s] = "closed"]
  /\ closings' = closings \ {s}
  /\ crash' = [crash EXCEPT ![s] = IF @ = "file" THEN "done" ELSE @]
  /\ UNCHANGED <<service, asks, creation, context, engine, entries, scope, ledgerVars, transfer,
                 closeCall, failures>>

-----------------------------------------------------------------------------
(* closeSession.                                                           *)

CloseSession(s) ==
  /\ closeCall[s] = "no" /\ Tracked(s) /\ "hidden" \notin entries[s]
  /\ closeCall' = [closeCall EXCEPT ![s] = "engine"]
  /\ scope' = [scope EXCEPT ![s] = IF "ledger" \in entries[s] THEN "stopped" ELSE @]
  /\ context' = [context EXCEPT ![s] = "closing"]
  /\ engine' = [engine EXCEPT ![s] = "closing"]
  /\ UNCHANGED <<service, asks, creation, entries, file, ledgerVars, transfer, closings, crash,
                 failures>>

\* Its finally, once the engine answered: drop the maps, then await the ledger.
CloseReturns(s) ==
  /\ closeCall[s] = "engine" /\ engine[s] # "closing"
  /\ closeCall' = [closeCall EXCEPT ![s] = "file"]
  /\ Drops({s})
  /\ UNCHANGED <<service, asks, creation, context, engine, ledgerVars, transfer, crash, failures>>

CloseAnswers(s) ==
  /\ closeCall[s] = "file" /\ s \notin closings
  /\ closeCall' = [closeCall EXCEPT ![s] = "done"]
  /\ UNCHANGED <<service, asks, creation, context, engine, entries, scope, file, ledgerVars,
                 transfer, closings, crash, failures>>

-----------------------------------------------------------------------------
(* recoverFromCrash: an operation's failure is taken for a crash.  With a  *)
(* ledger the maps go at once and the ledger waits for the engine, unless  *)
(* the session was closing already: then terminate does not wait.          *)

\* Slip: this ledger close is not among those a close or shutdown waits for.
NotTracked(s) == closings
Tracks(s) == closings \cup {s}

RecoverFromCrash(s) ==
  /\ crash[s] = "no" /\ creation[s] = "answered"
  /\ LET owned == "ledger" \in entries[s]
         waits == context[s] \in {"live", "failed"}
     IN  /\ entries' = [entries EXCEPT ![s] = {}]
         /\ scope' = [scope EXCEPT ![s] = IF owned THEN "stopped" ELSE @]
         /\ file' = [file EXCEPT ![s] = IF owned /\ ~waits THEN "sealed" ELSE @]
         /\ closings' = IF owned THEN Tracks(s) ELSE closings
         /\ crash' = [crash EXCEPT ![s] =
              IF ~owned THEN "done" ELSE IF waits THEN "engine" ELSE "file"]
  /\ Ends(IF Tracked(s) THEN {s} ELSE {})
  /\ UNCHANGED <<service, asks, creation, ledgerVars, transfer, closeCall, failures>>

CrashSeals(s) ==
  /\ crash[s] = "engine" /\ engine[s] # "closing"
  /\ crash' = [crash EXCEPT ![s] = "file"]
  /\ file' = [file EXCEPT ![s] = "sealed"]
  /\ UNCHANGED <<service, asks, creation, context, engine, entries, scope, ledgerVars, transfer,
                 closings, closeCall, failures>>

-----------------------------------------------------------------------------
(* Expiry in the coordinator, and the service's sweep of what it dropped.  *)

Expire(s) ==
  /\ Tracked(s)
  /\ Ends({s})
  /\ UNCHANGED <<service, asks, creation, entries, scope, file, ledgerVars, transfer, closings,
                 callVars>>

Sweep(s) ==
  /\ "policies" \in entries[s] /\ ~Tracked(s) /\ service \in {"up", "draining"}
  /\ Drops({s})
  /\ UNCHANGED <<service, asks, creation, context, engine, ledgerVars, transfer, callVars>>

-----------------------------------------------------------------------------
(* shutdown.                                                               *)

BeginShutdown ==
  /\ service = "up" /\ service' = "draining"
  /\ UNCHANGED <<asks, creation, context, engine, entries, scope, file, ledgerVars, transfer,
                 closings, callVars>>

\* coordinator.shutdown: a session already closing is left to its close.
EndSessions ==
  /\ service = "draining" /\ service' = "sessions"
  /\ Ends({s \in Sessions : context[s] \in {"live", "failed"}})
  /\ UNCHANGED <<asks, creation, entries, scope, file, ledgerVars, transfer, closings, callVars>>

DropSessions ==
  /\ service = "sessions" /\ service' = "ledgers"
  /\ \A s \in Sessions : engine[s] # "closing" /\ context[s] # "closing"
  /\ Drops({s \in Sessions : "policies" \in entries[s]})
  /\ UNCHANGED <<asks, creation, context, engine, ledgerVars, transfer, callVars>>

LedgersClosed == closings = {}

ShutdownAnswers ==
  /\ service = "ledgers" /\ LedgersClosed /\ service' = "down"
  /\ UNCHANGED <<asks, creation, context, engine, entries, scope, file, ledgerVars, transfer,
                 closings, callVars>>

ServiceNext ==
  \/ BeginShutdown \/ EndSessions \/ DropSessions \/ ShutdownAnswers
  \/ \E s \in Sessions :
       \/ \E a \in Asks : CreateSession(s, a)
       \/ CreationFails(s) \/ Allocated(s)
       \/ LedgerRefuses(s) \/ LedgerOpens(s) \/ LedgerTooLate(s)
       \/ TransferStep(s) \/ TransferFails(s)
       \/ RecordRequest(s) \/ EngineCloses(s) \/ EngineCloseFails(s) \/ FileCloses(s)
       \/ CloseSession(s) \/ CloseReturns(s) \/ CloseAnswers(s)
       \/ RecoverFromCrash(s) \/ CrashSeals(s)
       \/ Expire(s) \/ Sweep(s)

ServiceSpec == ServiceInit /\ [][ServiceNext]_serviceVars

-----------------------------------------------------------------------------
(* Properties.                                                             *)

Creations == {"none", "engine", "ledger", "capture", "prepare", "seed", "complete",
              "answered", "refused"}
TransferRecords == {"prepared", "seeded", "completed"}

ServiceTypeOK ==
  /\ service \in {"up", "draining", "sessions", "ledgers", "down"}
  /\ asks \in [Sessions -> Asks]
  /\ creation \in [Sessions -> Creations]
  /\ context \in [Sessions -> {"none", "live", "closing", "failed", "ended"}]
  /\ engine \in [Sessions -> {"none", "open", "closing", "gone"}]
  /\ entries \in [Sessions -> SUBSET {"secrets", "policies", "hidden", "ledger"}]
  /\ scope \in [Sessions -> {"open", "stopped"}]
  /\ file \in [Sessions -> {"none", "open", "sealed", "closed"}]
  /\ made \in [Sessions -> Nat]
  /\ pending \in [Sessions -> Seq(Nat)] /\ rows \in [Sessions -> Seq(Nat)]
  /\ fed \in [Sessions -> BOOLEAN]
  /\ transfer \in [Sessions -> Seq(TransferRecords)]
  /\ closings \subseteq Sessions
  /\ closeCall \in [Sessions -> {"no", "engine", "file", "done"}]
  /\ crash \in [Sessions -> {"no", "engine", "file", "done"}]
  /\ failures \in Nat

\* The ledger holds the outcomes in the order the engine recorded them and from
\* the first, those recorded while its file was being opened included; while it
\* is open none is missing.
RecordedInOrder ==
  \A s \in Sessions :
    /\ rows[s] = [i \in 1 .. Len(rows[s]) |-> i]
    /\ file[s] = "open" => Len(rows[s]) = made[s]

\* What the sweep cannot find is not there: a session that is over, its creation
\* too, has nothing left in any map unless it is in one the sweep looks through.
NothingUnswept ==
  \A s \in Sessions :
    (/\ creation[s] \in {"answered", "refused"} /\ context[s] \in {"none", "ended"}
     /\ "policies" \notin entries[s]) => entries[s] = {}

\* When closeSession has answered, or shutdown has, the ledger of every session it
\* is about is closed on disk, however the session's end was raced.
AnsweredIsSealed ==
  \A s \in Sessions :
    (closeCall[s] = "done" \/ (service = "down" /\ creation[s] = "answered"))
      => file[s] \in {"none", "closed"}

\* An evidence session that a caller can see has its transfer on record, and the
\* state came after the record that announces it.
TransferIsOnRecord ==
  \A s \in Sessions :
    LET at(x) == \E i \in DOMAIN transfer[s] : transfer[s][i] = x
    IN  /\ at("seeded") => transfer[s][1] = "prepared"
        /\ (asks[s].source # Nobody /\ creation[s] = "answered" /\ Tracked(s)
            /\ "hidden" \notin entries[s]) => at("prepared") /\ at("seeded") /\ at("completed")

\* A close is answered after the ledger is sealed, records are in order, nothing of
\* an ended session is left unswept, and a transfer is on record.
SealedWhenAnswered ==
  ServiceTypeOK /\ RecordedInOrder /\ NothingUnswept /\ AnsweredIsSealed /\ TransferIsOnRecord

\* service.ts:1964 "a ledgered session keeps its ledger open until the engine session
\* is gone, so the engine's close-time records (outcomes never observed) are kept".
CloseTimeRecordsKept ==
  \A s \in Sessions :
    (creation[s] = "answered" /\ asks[s].ledger /\ engine[s] = "gone") => Len(rows[s]) = made[s]
==============================================================================
