-------------------------- MODULE JournalRecovery --------------------------
(***************************************************************************)
(* The operator's recovery of durable operations, and the journals it      *)
(* reaches. At start the service opens one store, the current namespace    *)
(* and the namespaces it was rotated away from; a namespace past its       *)
(* horizon is opened to recover only, and one that did not open is kept as *)
(* refused. An operator's call searches every configured namespace for the *)
(* records of one operation id, and then closes those never dispatched,    *)
(* settles those in doubt, or asks the bound adapter about them, one       *)
(* conditional write at a time, while the operations' own runs go on.      *)
(*                                                                         *)
(* The records here are those of one operation id, in several sessions and *)
(* namespaces. A write is the store's compare-and-set on the revision      *)
(* (JournalRecords models it); an answer that is lost leaves the handle    *)
(* uncertain, after which it reads and writes nothing (OperationJournal).  *)
(***************************************************************************)
EXTENDS Naturals

CONSTANTS Records,       \* the records of one operation id
          NamespaceOf,   \* where each would be kept
          Current,       \* the configured namespace
          History,       \* the namespaces rotated away from
          Reconcilable,  \* the records whose adapter has a reconcile
          RecoveryCalls,         \* operator calls
          MaxStarts      \* bound: starts of the service

Configured == {Current} \cup History

ASSUME RecoveryAssumption == NamespaceOf \in [Records -> Configured] /\ MaxStarts \in Nat

VARIABLES
  up,             \* the service is running
  starts,         \* bound: starts so far
  journal,        \* per namespace: none, full, recover, refused
  journalHealth,  \* per namespace: open, lost
  horizon,        \* per namespace: ahead, past (acceptUntil)
  kept,           \* per record: absent, intent, dispatched, or its terminal
  run,            \* per record: its operation's own run
  effect,         \* per record: the effect has happened
  recovery,       \* the operator's calls
  known           \* history: per call, the actionable records when it began

recoveryVars ==
  <<up, starts, journal, journalHealth, horizon, kept, run, effect, recovery, known>>

\* A call that has not begun. Its search leaves what it found, with the state each
\* was read in; its writes leave the records written.
NoCall == [at |-> "idle", verb |-> "none", kind |-> "none", left |-> {}, found |-> {},
           unread |-> {}, todo |-> {}, wrote |-> {}]

Actionable == {r \in Records : kept[r] \in {"intent", "dispatched"}}
Usable(n) == journal[n] \in {"full", "recover"} /\ journalHealth[n] = "open"

----------------------------------------------------------------------------
(* Start, crash, and the clock *)

\* Past the horizon the current namespace recovers only; a history namespace
\* whose horizon is ahead is refused, not opened, for the store would create
\* a missing one. The current namespace must open while its horizon is ahead.
StartedHandle(n) ==
  IF horizon[n] = "ahead"
  THEN IF n = Current THEN {"full"} ELSE {"refused"}
  ELSE {"recover", "refused"}

\* A store that does not start aborts the service, unless nothing more than
\* an expired namespace is configured: that is reported as refused.
Start ==
  /\ ~up /\ starts < MaxStarts
  /\ starts' = starts + 1
  /\ up' = TRUE
  /\ \/ journal' \in [Configured -> {"full", "recover", "refused"}]
        /\ \A n \in Configured : journal'[n] \in StartedHandle(n)
     \/ /\ horizon[Current] = "past" /\ History = {}
        /\ journal' = [n \in Configured |-> "refused"]
  /\ journalHealth' = [n \in Configured |-> "open"]
  /\ UNCHANGED <<horizon, kept, run, effect, recovery, known>>

StartAborted ==
  /\ ~up /\ starts < MaxStarts
  /\ starts' = starts + 1
  /\ UNCHANGED <<up, journal, journalHealth, horizon, kept, run, effect, recovery, known>>

ServiceCrash ==
  /\ up
  /\ up' = FALSE
  /\ journal' = [n \in Configured |-> "none"]
  /\ run' = [r \in Records |-> "none"]
  /\ recovery' = [c \in RecoveryCalls |-> IF recovery[c].at = "answered" THEN recovery[c]
                                         ELSE [NoCall EXCEPT !.at = "lost"]]
  /\ UNCHANGED <<starts, journalHealth, horizon, kept, effect, known>>

HorizonPasses(n) ==
  /\ horizon[n] = "ahead"
  /\ horizon' = [horizon EXCEPT ![n] = "past"]
  /\ UNCHANGED <<up, starts, journal, journalHealth, kept, run, effect, recovery, known>>

----------------------------------------------------------------------------
(* An operation's own run: intent, dispatch mark, effect, result *)

\* What a conditional write may do: apply and say so, refuse because the
\* record moved on, or lose its answer, applied or not.
ConditionalWrite(r, expected, value) ==
  \/ /\ kept[r] = expected
     /\ kept' = [kept EXCEPT ![r] = value]
     /\ journalHealth' \in {journalHealth, [journalHealth EXCEPT ![NamespaceOf[r]] = "lost"]}
  \/ journalHealth' = [journalHealth EXCEPT ![NamespaceOf[r]] = "lost"] /\ UNCHANGED kept
  \/ kept[r] # expected /\ UNCHANGED <<kept, journalHealth>>

Acknowledged(r, value) == kept'[r] = value /\ journalHealth' = journalHealth /\ kept # kept'

\* Durable work is admitted by the current namespace, open, before its horizon.
Admits(n) == n = Current /\ journal[n] = "full" /\ journalHealth[n] = "open" /\ horizon[n] = "ahead"

Reserve(r) ==
  /\ up /\ run[r] = "none" /\ kept[r] = "absent" /\ Admits(NamespaceOf[r])
  /\ ConditionalWrite(r, "absent", "intent")
  /\ run' = [run EXCEPT ![r] = IF Acknowledged(r, "intent") THEN "reserved" ELSE "none"]
  /\ UNCHANGED <<up, starts, journal, horizon, effect, recovery, known>>

RunMarks(r) ==
  /\ up /\ run[r] = "reserved" /\ Usable(NamespaceOf[r])
  /\ ConditionalWrite(r, "intent", "dispatched")
  /\ run' = [run EXCEPT ![r] = IF Acknowledged(r, "dispatched") THEN "marked" ELSE "over"]
  /\ UNCHANGED <<up, starts, journal, horizon, effect, recovery, known>>

Effect(r) ==
  /\ up /\ run[r] = "marked"
  /\ \/ effect' = [effect EXCEPT ![r] = TRUE] /\ run' = [run EXCEPT ![r] = "completed"]
     \/ run' = [run EXCEPT ![r] = "failed"] /\ UNCHANGED effect
  /\ UNCHANGED <<up, starts, journal, journalHealth, horizon, kept, recovery, known>>

CommitResult(r) ==
  /\ up /\ run[r] \in {"completed", "failed"} /\ Usable(NamespaceOf[r])
  /\ ConditionalWrite(r, "dispatched", run[r])
  /\ run' = [run EXCEPT ![r] = "over"]
  /\ UNCHANGED <<up, starts, journal, horizon, effect, recovery, known>>

----------------------------------------------------------------------------
(* An operator's call *)

Searched == {n \in Configured : journal[n] \in {"full", "recover"}}
Refusals == {n \in Configured : journal[n] = "refused"}
Answer(c, what) ==
  recovery' = [recovery EXCEPT ![c] = [NoCall EXCEPT !.at = "answered", !.kind = what,
                                         !.verb = recovery[c].verb, !.wrote = recovery[c].wrote]]

\* Only the operator's key may write, and some journal must be open.
BeginCall(c, verb) ==
  /\ up /\ recovery[c].at = "idle"
  /\ \/ /\ \E n \in Searched : journalHealth[n] = "open"
        /\ recovery' = [recovery EXCEPT ![c].at = "search", ![c].verb = verb, ![c].left = Searched]
        /\ known' = [known EXCEPT ![c] = {r \in Actionable : journal[NamespaceOf[r]] # "none"}]
     \/ /\ ~\E n \in Searched : journalHealth[n] = "open"
        /\ Answer(c, "unavailable") /\ UNCHANGED known
  /\ UNCHANGED <<up, starts, journal, journalHealth, horizon, kept, run, effect>>

\* One namespace at a time; a record is kept with the state it was read in.
\* A namespace that does not answer is unread, which is not the same as empty.
Search(c) ==
  /\ up /\ recovery[c].at = "search"
  /\ \E n \in recovery[c].left :
       \/ /\ Usable(n)
          /\ recovery' = [recovery EXCEPT
               ![c].left = @ \ {n},
               ![c].found = @ \cup {[id |-> r, was |-> kept[r]] :
                                     r \in {q \in Actionable : NamespaceOf[q] = n}}]
       \/ recovery' = [recovery EXCEPT ![c].left = @ \ {n}, ![c].unread = @ \cup {n}]
  /\ UNCHANGED <<up, starts, journal, journalHealth, horizon, kept, run, effect, known>>

Unread(c) == recovery[c].unread \cup Refusals

Wanted(verb) == IF verb = "close" THEN "intent" ELSE "dispatched"
Eligible(c) == {f \in recovery[c].found : f.was = Wanted(recovery[c].verb)}
EligibleIds(c) == {f.id : f \in Eligible(c)}

\* Nothing to act on, or a reconcile some of whose adapters cannot answer: it needs
\* every one before it writes anything.
Conflicts(c) ==
  \/ Eligible(c) = {}
  \/ recovery[c].verb = "reconcile" /\ ~(EligibleIds(c) \subseteq Reconcilable)

\* The search is over: nothing found is absence only when everything was
\* read, and the verb must have something to act on.
Judge(c) ==
  /\ up /\ recovery[c].at = "search" /\ recovery[c].left = {}
  /\ IF recovery[c].found = {}
     THEN Answer(c, IF Unread(c) = {} THEN "absent" ELSE "unread")
     ELSE IF Conflicts(c) THEN Answer(c, "conflict")
     ELSE recovery' = [recovery EXCEPT ![c] =
                         [NoCall EXCEPT !.at = "write", !.verb = recovery[c].verb,
                                        !.todo = EligibleIds(c), !.unread = Unread(c)]]
  /\ UNCHANGED <<up, starts, journal, journalHealth, horizon, kept, run, effect, known>>

\* What the adapter says of an effect. It says committed of one that happened
\* and rejected of one that never will; it may always not know, throw, answer
\* in a shape that is not read, or answer after its time. (External.)
AdapterSays(r) ==
  {"unresolved"} \cup (IF effect[r] THEN {"committed"} ELSE {})
                 \cup (IF ~effect[r] /\ run[r] # "marked" THEN {"rejected"} ELSE {})

\* Slip: no answer in time is read as a rejection.
SilenceRejects(c, r) == {IF s = "unresolved" THEN "rejected" ELSE s : s \in AdapterSays(r)}

\* What the call would write on a record: the closing mark, the unknown
\* outcome, or the adapter's answer; an unresolved one writes nothing.
Verdicts(c, r) ==
  CASE recovery[c].verb = "close" -> {"closed"}
    [] recovery[c].verb = "settle" -> {"unknown"}
    [] OTHER -> AdapterSays(r)

\* One conditional write, in the namespace that owns the record. The first
\* that is not acknowledged ends the call with what was written before it.
ApplyTo(c, r, v) ==
  \/ /\ v = "unresolved"
     /\ recovery' = [recovery EXCEPT ![c].todo = @ \ {r}]
     /\ UNCHANGED <<kept, journalHealth>>
  \/ /\ v # "unresolved" /\ Usable(NamespaceOf[r])
     /\ ConditionalWrite(r, Wanted(recovery[c].verb), v)
     /\ IF Acknowledged(r, v)
        THEN recovery' = [recovery EXCEPT ![c].todo = @ \ {r}, ![c].wrote = @ \cup {r}]
        ELSE Answer(c, "conflict")
  \/ /\ v # "unresolved" /\ ~Usable(NamespaceOf[r])
     /\ Answer(c, "conflict")
     /\ UNCHANGED <<kept, journalHealth>>

Apply(c) ==
  /\ up /\ recovery[c].at = "write"
  /\ \E r \in recovery[c].todo : \E v \in Verdicts(c, r) : ApplyTo(c, r, v)
  /\ UNCHANGED <<up, starts, journal, horizon, run, effect, known>>

FinishCall(c) ==
  /\ up /\ recovery[c].at = "write" /\ recovery[c].todo = {}
  /\ Answer(c, "done")
  /\ UNCHANGED <<up, starts, journal, journalHealth, horizon, kept, run, effect, known>>

----------------------------------------------------------------------------
\* The past namespaces hold what earlier processes left in them.
RecoveryInit ==
  /\ up = FALSE /\ starts = 0
  /\ journal = [n \in Configured |-> "none"]
  /\ journalHealth = [n \in Configured |-> "open"]
  /\ horizon \in [Configured -> {"ahead", "past"}]
  /\ kept \in [Records -> {"absent", "intent", "dispatched"}]
  /\ \A r \in Records : NamespaceOf[r] = Current => kept[r] = "absent"
  /\ effect \in [Records -> BOOLEAN] /\ \A r \in Records : effect[r] => kept[r] = "dispatched"
  /\ run = [r \in Records |-> "none"]
  /\ recovery = [c \in RecoveryCalls |-> NoCall]
  /\ known = [c \in RecoveryCalls |-> {}]

RecoveryNext ==
  \/ Start \/ StartAborted \/ ServiceCrash
  \/ \E n \in Configured : HorizonPasses(n)
  \/ \E r \in Records : Reserve(r) \/ RunMarks(r) \/ Effect(r) \/ CommitResult(r)
  \/ \E c \in RecoveryCalls :
       \/ \E verb \in {"close", "settle", "reconcile"} : BeginCall(c, verb)
       \/ Search(c) \/ Judge(c) \/ Apply(c) \/ FinishCall(c)

RecoverySpec == RecoveryInit /\ [][RecoveryNext]_recoveryVars

----------------------------------------------------------------------------
RecordStates == {"absent", "intent", "dispatched", "closed", "unknown", "committed", "rejected",
                 "completed", "failed"}
RecoveryCall ==
  [at : {"idle", "search", "write", "answered", "lost"},
   verb : {"none", "close", "settle", "reconcile"},
   kind : {"none", "unavailable", "absent", "unread", "conflict", "done"},
   left : SUBSET Configured, found : SUBSET [id : Records, was : {"intent", "dispatched"}],
   unread : SUBSET Configured, todo : SUBSET Records, wrote : SUBSET Records]

RecoveryTypeOK ==
  /\ up \in BOOLEAN /\ starts \in Nat
  /\ journal \in [Configured -> {"none", "full", "recover", "refused"}]
  /\ journalHealth \in [Configured -> {"open", "lost"}]
  /\ horizon \in [Configured -> {"ahead", "past"}]
  /\ kept \in [Records -> RecordStates]
  /\ run \in [Records -> {"none", "reserved", "marked", "completed", "failed", "over"}]
  /\ effect \in [Records -> BOOLEAN]
  /\ recovery \in [RecoveryCalls -> RecoveryCall]
  /\ known \in [RecoveryCalls -> SUBSET Records]

\* A record an operator closed never has an effect, neither before nor after,
\* though its run was alive when it was closed; and what a reconcile wrote is
\* what happened.
EffectsAreAsRecorded ==
  \A r \in Records : /\ kept[r] \in {"closed", "rejected", "intent"} => ~effect[r]
                     /\ kept[r] = "committed" => effect[r]

\* What a verb writes.
Writes(verb) ==
  CASE verb = "close" -> {"closed"}
    [] verb = "settle" -> {"unknown"}
    [] OTHER -> {"committed", "rejected"}

\* An operator is told there is nothing to recover only when there was not,
\* in any namespace configured; and the records it is told were written are
\* the ones it wrote.
AnswersCoverTheJournals ==
  \A c \in RecoveryCalls : recovery[c].at = "answered" =>
    /\ recovery[c].kind = "absent" => known[c] \cap Actionable = {}
    /\ recovery[c].kind \in {"done", "conflict"} =>
         \A r \in recovery[c].wrote : kept[r] \in Writes(recovery[c].verb)

\* What is on record of an operation agrees with what was done, whoever wrote it, and
\* an operator's answer covers every journal it speaks of (service.ts:4416-4640).
RecoveryIsTrue == RecoveryTypeOK /\ EffectsAreAsRecorded /\ AnswersCoverTheJournals

=============================================================================
