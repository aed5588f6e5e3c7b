------------------------------ MODULE PageRead ------------------------------
(***************************************************************************)
(* PageOperationLifetime of packages/engine-playwright                     *)
(* (page-operation-lifetime.ts): bounded reads of one operation, several   *)
(* at a time as a probe has them, one action per callback or microtask.    *)
(* The raw promise of a read may settle long after its caller was told.    *)
(* The wording and the details of a failure are left out.                  *)
(***************************************************************************)
CONSTANT Reads   \* the reads of the operation

VARIABLES
  read,     \* read -> its state
  life      \* the lifetime: ended, aborted, revoked (guard throws), expired

readVars == <<read, life>>

\* raw: the operation's promise, "value" once it resolved, "kept" once its then
\* callback ran.  race: the first of value and failure.  lost, disposed: the flags.
NotRead == [raw |-> "none", race |-> "open", caller |-> "idle", lost |-> FALSE, disposed |-> 0]

ReadIs(r, state) == read' = [read EXCEPT ![r] = state]

\* assert: the lifetime's own flags, then the guard.
Holds == ~life.ended /\ ~life.aborted /\ ~life.expired /\ ~life.revoked

StartRead(r) ==
  /\ read[r].caller = "idle"
  /\ ReadIs(r, IF Holds THEN [NotRead EXCEPT !.raw = "pending", !.caller = "waiting"]
           ELSE [NotRead EXCEPT !.caller = "threw"])
  /\ UNCHANGED life

Resolves(r) ==
  /\ read[r].raw = "pending"
  /\ ReadIs(r, [read[r] EXCEPT !.raw = "value"])
  /\ UNCHANGED life

\* A rejection carries no value: it wins the race if that is open.
Rejects(r) ==
  /\ read[r].raw = "pending"
  /\ ReadIs(r, [read[r] EXCEPT !.raw = "error", !.race = IF @ = "open" THEN "failed" ELSE @])
  /\ UNCHANGED life

\* dispose: once.
DisposedValue(q) == [q EXCEPT !.disposed = IF @ = 0 THEN 1 ELSE @]

\* Slip: a value that comes after the deadline's check is not noticed.
LateUnnoticed(q) == life.ended \/ life.aborted
Late(q) == q.lost \/ life.ended \/ life.aborted

\* The then callback of the operation.
Observed(r) ==
  LET q == [read[r] EXCEPT !.raw = "kept", !.race = IF @ = "open" THEN "value" ELSE @]
  IN  /\ read[r].raw = "value"
      /\ ReadIs(r, IF Late(read[r]) THEN DisposedValue(q) ELSE q)
      /\ UNCHANGED life

\* A callback runs to its end, and timers only between microtasks.
Settling == \E r \in Reads : read[r].raw = "value" \/ (read[r].race # "open"
                                                       /\ read[r].caller = "waiting")

\* The timer's check: a lost lifetime fails the race, a live one rearms.
Tick(r) ==
  /\ read[r].caller = "waiting" /\ ~Holds /\ ~Settling
  /\ ReadIs(r, [read[r] EXCEPT !.lost = TRUE, !.race = IF @ = "open" THEN "failed" ELSE @])
  /\ UNCHANGED life

\* The await goes on: the caller's own assertion, and the finally.
Continue(r) ==
  /\ read[r].caller = "waiting" /\ read[r].race # "open"
  /\ LET q == read[r]
         threw == [q EXCEPT !.caller = "threw", !.lost = TRUE]
     IN  ReadIs(r, IF q.race = "failed" THEN threw
               ELSE IF Holds THEN [q EXCEPT !.caller = "returned"] ELSE DisposedValue(threw))
  /\ UNCHANGED life

\* The signal: every waiting read is lost at once.
AbortReads ==
  /\ ~life.aborted
  /\ life' = [life EXCEPT !.aborted = TRUE]
  /\ read' = [r \in Reads |->
                IF read[r].caller # "waiting" THEN read[r]
                ELSE [read[r] EXCEPT !.lost = TRUE, !.race = IF @ = "open" THEN "failed" ELSE @]]

RevokeReads == ~life.revoked /\ life' = [life EXCEPT !.revoked = TRUE] /\ UNCHANGED read
Expire == ~life.expired /\ life' = [life EXCEPT !.expired = TRUE] /\ UNCHANGED read
\* finish: the operation's finally, also while another of its reads still waits.
FinishOperation == ~life.ended /\ life' = [life EXCEPT !.ended = TRUE] /\ UNCHANGED read

ReadInit ==
  /\ read = [r \in Reads |-> NotRead]
  /\ life = [ended |-> FALSE, aborted |-> FALSE, revoked |-> FALSE, expired |-> FALSE]

ReadNext ==
  \/ \E r \in Reads :
       StartRead(r) \/ Resolves(r) \/ Rejects(r) \/ Observed(r) \/ Tick(r) \/ Continue(r)
  \/ AbortReads \/ RevokeReads \/ Expire \/ FinishOperation

ReadSpec == ReadInit /\ [][ReadNext]_readVars

-----------------------------------------------------------------------------
\* A value the caller did not get is disposed once it is there, and one the
\* caller got never is: nothing that came too late goes on, nothing leaks.
LateValueDisposedOnce ==
  \A r \in Reads :
    /\ read[r].caller = "returned" => read[r].raw = "kept" /\ read[r].disposed = 0
    /\ read[r].caller = "threw" /\ read[r].raw = "kept" => read[r].disposed = 1
=============================================================================
