---------------------------- MODULE JournalStore ----------------------------
(***************************************************************************)
(* The SQLite store under the journal and the commit witness kept outside  *)
(* it (packages/control/src/journal-sqlite-store.ts): a mutation commits   *)
(* in the database, then replaces the anchor file, and only then is        *)
(* acknowledged.  A reopening accepts the pair only when both sides carry  *)
(* the same witness.                                                       *)
(*                                                                         *)
(* The process may die between any two steps; what it wrote stays visible. *)
(* On a power loss whatever was not synced may or may not be there.  The   *)
(* operator may put back an older copy of the database (the anchor lies    *)
(* outside the backup's scope).  SQLite's transactions and its exclusive   *)
(* owner locks are taken as they are documented: one owner at a time.      *)
(*                                                                         *)
(* A database is the sequence of the nonces of its commits, starting with  *)
(* the one of its initialization; its length is the commit sequence.       *)
(***************************************************************************)
EXTENDS Naturals, Sequences, SequencesExt

CONSTANT MaxCommits   \* bound on nonces drawn

ASSUME StoreAssumption == MaxCommits \in Nat

VARIABLES
  storePhase,       \* of the owner process: down, sealed, idle, or within a mutation
  owned,       \* owner.sqlite exists
  data,        \* the database as it is visible
  dataDisk,    \* what a power loss may leave of it
  anchor,      \* the anchor directory as it is visible: [file, pending]
  anchorDisk,  \* what a power loss may leave of it
  drawn,       \* nonces drawn so far
  acked,       \* nonces of acknowledged mutations
  backups      \* copies of the database the operator keeps

storeVars == <<storePhase, owned, data, dataDisk, anchor, anchorDisk, drawn, acked, backups>>
dataVars == <<data, dataDisk>>
anchorVars == <<anchor, anchorDisk>>
outside == <<owned, drawn, backups>>

NoDatabase == <<>>
Absent == <<"absent">>
Malformed == <<"malformed">>

\* Commit sequence and commit nonce; store id and generation do not change.
Witness(d) == <<Len(d), Last(d)>>

\* What an opening demands of the files it finds.
AcceptsPair(d, a) == ~a.pending /\ d # NoDatabase /\ a.file = Witness(d)

Mutating == {"init_owner", "init_reserved", "begun", "committed", "synced", "pending", "renamed"}

-----------------------------------------------------------------------------
(* Initialization: exclusive file creation, so that any trace of an        *)
(* earlier attempt refuses.                                                *)

InitOwner ==
  /\ storePhase = "down"
  /\ data = NoDatabase /\ anchor = [file |-> Absent, pending |-> FALSE]
  /\ ~owned
  /\ owned' = TRUE
  /\ storePhase' = "init_owner"
  /\ UNCHANGED <<dataVars, anchorVars, drawn, acked, backups>>

\* The anchor's final name is reserved before the database exists.
InitAnchor ==
  /\ storePhase = "init_owner"
  /\ anchor' = [file |-> Malformed, pending |-> FALSE]
  /\ anchorDisk' = {anchor'}
  /\ storePhase' = "init_reserved"
  /\ UNCHANGED <<dataVars, outside, acked>>

-----------------------------------------------------------------------------
(* Opening and closing.                                                    *)

OpenStore ==
  /\ storePhase = "down"
  /\ owned
  /\ AcceptsPair(data, anchor)
  /\ storePhase' = "idle"
  /\ UNCHANGED <<dataVars, anchorVars, outside, acked>>

\* close succeeds: also of a sealed owner.  One that fails leaves it sealed.
CloseStore ==
  /\ storePhase \in {"idle", "sealed"}
  /\ storePhase' = "down"
  /\ UNCHANGED <<dataVars, anchorVars, outside, acked>>

CloseStoreFails ==
  /\ storePhase = "idle"
  /\ storePhase' = "sealed"
  /\ UNCHANGED <<dataVars, anchorVars, outside, acked>>

-----------------------------------------------------------------------------
(* One mutation.                                                           *)

BeginMutation ==
  /\ storePhase = "idle"
  /\ storePhase' = "begun"
  /\ UNCHANGED <<dataVars, anchorVars, outside, acked>>

\* COMMIT with a fresh nonce; its files are durable once the directory is synced.
Committed ==
  /\ drawn < MaxCommits
  /\ drawn' = drawn + 1
  /\ data' = Append(data, drawn')
  /\ dataDisk' = dataDisk \cup {data'}

Commit ==
  /\ storePhase \in {"begun", "init_reserved"}
  /\ Committed
  /\ storePhase' = "committed"
  /\ UNCHANGED <<owned, anchorVars, acked, backups>>

\* Slip: the files' own sync is taken for enough.
SyncDirectoryLater ==
  /\ storePhase = "committed"
  /\ storePhase' = "synced"
  /\ UNCHANGED <<dataVars, anchorVars, outside, acked>>

SyncDirectory ==
  /\ storePhase = "committed"
  /\ dataDisk' = {data}
  /\ storePhase' = "synced"
  /\ UNCHANGED <<data, anchorVars, outside, acked>>

\* writeAnchor: create and sync a temporary file, rename it, sync the directory.
CreatePending ==
  /\ storePhase = "synced"
  /\ anchor' = [anchor EXCEPT !.pending = TRUE]
  /\ anchorDisk' = anchorDisk \cup {anchor'}
  /\ storePhase' = "pending"
  /\ UNCHANGED <<dataVars, outside, acked>>

Rename ==
  /\ storePhase = "pending"
  /\ anchor' = [file |-> Witness(data), pending |-> FALSE]
  /\ anchorDisk' = anchorDisk \cup {anchor'}
  /\ storePhase' = "renamed"
  /\ UNCHANGED <<dataVars, outside, acked>>

AcknowledgeCommit ==
  /\ storePhase = "renamed"
  /\ anchorDisk' = {anchor}
  /\ acked' = acked \cup {Last(data)}
  /\ storePhase' = "idle"
  /\ UNCHANGED <<dataVars, anchor, outside>>

\* Any step fails: the owner is sealed, and nothing is repaired.  Before COMMIT
\* the transaction is rolled back; a COMMIT that throws may have succeeded.
Fail ==
  /\ storePhase \in Mutating
  /\ storePhase' = "sealed"
  /\ UNCHANGED <<dataVars, anchorVars, outside, acked>>

CommitThrows ==
  /\ storePhase \in {"begun", "init_reserved"}
  /\ Committed
  /\ storePhase' = "sealed"
  /\ UNCHANGED <<owned, anchorVars, acked, backups>>

-----------------------------------------------------------------------------
(* What happens to the store from outside.                                 *)

\* The process dies; the next owner finds what is visible.
Crash ==
  /\ storePhase # "down"
  /\ storePhase' = "down"
  /\ UNCHANGED <<dataVars, anchorVars, outside, acked>>

PowerLoss ==
  /\ storePhase' = "down"
  /\ data' \in dataDisk
  /\ dataDisk' = {data'}
  /\ anchor' \in anchorDisk
  /\ anchorDisk' = {anchor'}
  /\ UNCHANGED <<outside, acked>>

Backup ==
  /\ storePhase = "down"
  /\ backups' = backups \cup ({data} \ {NoDatabase})
  /\ UNCHANGED <<storePhase, owned, dataVars, anchorVars, drawn, acked>>

Restore(d) ==
  /\ storePhase = "down"
  /\ data' = d
  /\ dataDisk' = {d}
  /\ UNCHANGED <<storePhase, anchorVars, outside, acked>>

-----------------------------------------------------------------------------

StoreInit ==
  /\ storePhase = "down"
  /\ owned = FALSE
  /\ data = NoDatabase /\ dataDisk = {NoDatabase}
  /\ anchor = [file |-> Absent, pending |-> FALSE]
  /\ anchorDisk = {anchor}
  /\ drawn = 0
  /\ acked = {}
  /\ backups = {}

StoreNext ==
  \/ InitOwner \/ InitAnchor
  \/ OpenStore \/ CloseStore \/ CloseStoreFails
  \/ BeginMutation \/ Commit \/ SyncDirectory \/ CreatePending \/ Rename \/ AcknowledgeCommit
  \/ Fail \/ CommitThrows
  \/ Crash \/ PowerLoss
  \/ Backup \/ \E d \in backups : Restore(d)

StoreSpec == StoreInit /\ [][StoreNext]_storeVars

-----------------------------------------------------------------------------
(* Properties.                                                             *)

\* What the next owner may find, whether the process or the machine died now,
\* or the operator put back an older database.
Databases == dataDisk \cup {data} \cup backups
Anchors == anchorDisk \cup {anchor}

AnchorState == [file : {Absent, Malformed} \cup (Nat \X Nat), pending : BOOLEAN]

StoreTypeOK ==
  /\ storePhase \in {"down", "sealed", "idle"} \cup Mutating
  /\ owned \in BOOLEAN
  /\ drawn \in Nat
  /\ Databases \subseteq Seq(Nat)
  /\ Anchors \subseteq AnchorState
  /\ acked \subseteq 1 .. drawn

\* An acknowledged commit is in every database an opening ever accepts: a lost,
\* rolled back or restored pair is refused, never silently continued.
AcknowledgedKept ==
  \A d \in Databases, a \in Anchors : AcceptsPair(d, a) => acked \subseteq ToSet(d)

\* While the owner works on an acknowledged commit, no crash and no power loss
\* can cost the store: whatever is left is accepted.
AcknowledgedReopens ==
  storePhase = "idle" /\ Last(data) \in acked =>
    \A d \in dataDisk, a \in anchorDisk : AcceptsPair(d, a)

\* An acknowledged commit is in every database a later owner accepts, and what
\* is acknowledged can be opened again.
AcknowledgedSurvives == AcknowledgedKept /\ AcknowledgedReopens
=============================================================================
