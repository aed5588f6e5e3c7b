--------------------------- MODULE JournalRecords ---------------------------
(***************************************************************************)
(* Namespaces and records of the SQLite journal: ownership fences, the     *)
(* compare-and-set life of a record, retention and retirement, under a     *)
(* wall clock that may step back                                           *)
(* (packages/control/src/journal-sqlite-records.ts, journal-clock.ts).     *)
(*                                                                         *)
(* Each action is one commit unit.  A call that is refused after its fence *)
(* was accepted still commits, and raises the namespace's high-water.      *)
(* A namespace is always opened with the descriptor it was made with, and  *)
(* all have the same bounds; each operation id stands for one record       *)
(* identity.  So the configuration mismatch and identity conflict refusals *)
(* do not arise.                                                           *)
(***************************************************************************)
EXTENDS Naturals, FiniteSets

CONSTANTS
  Namespaces,
  Operations,
  AcceptUntil, RetainUntil,   \* horizons of each namespace
  MaxNamespaces, MaxRecords,  \* bounds of the descriptor
  MaxTime,                    \* bound on clock readings
  MaxOpens                    \* bound on how often a namespace is opened

ASSUME RecordsAssumption ==
  /\ AcceptUntil \in [Namespaces -> Nat] /\ RetainUntil \in [Namespaces -> Nat]
  /\ {MaxNamespaces, MaxRecords, MaxTime, MaxOpens} \subseteq Nat

VARIABLES
  now, wall,      \* the process's effective time, and the plain wall clock
  present,        \* namespaces that have a row
  activeFence,    \* serial of the fence in force, 0 for none
  fenceSerial,
  clockHighWater,
  record,         \* [namespace][operation]: revision 0 means no row
  holders,        \* every handle ever opened; its caller may still present it
  purged          \* history: operations whose record was deleted

rowVars == <<present, activeFence, fenceSerial, clockHighWater>>
clockVars == <<now, wall>>
recordVars == <<clockVars, rowVars, record, holders, purged>>

Greater(a, b) == IF a > b THEN a ELSE b

Terminals == {"none", "completed", "failed", "outcome_unknown"}
Record == [revision : 0..3, dispatched : BOOLEAN, terminal : Terminals]
Row(revision, dispatched, terminal) ==
  [revision |-> revision, dispatched |-> dispatched, terminal |-> terminal]
NoRow == Row(0, FALSE, "none")

Exists(r) == r.revision > 0
Settled(r) == r.terminal # "none"

-----------------------------------------------------------------------------
(* Time.  now never steps back within a process, the wall clock may.       *)

Clock(w, elapsed) ==
  /\ wall' = w
  /\ now' = Greater(now + elapsed, w)
  /\ now' <= MaxTime
  /\ UNCHANGED <<rowVars, record, holders, purged>>

\* The child process is started again: a fresh clock, and every fence of the
\* former owner is cleared.
Restart(w) ==
  /\ wall' = w
  /\ now' = w
  /\ activeFence' = [n \in Namespaces |-> 0]
  /\ UNCHANGED <<present, fenceSerial, clockHighWater, record, holders, purged>>

-----------------------------------------------------------------------------
(* Namespaces.                                                             *)

\* Slip: a record without a terminal does not keep its namespace.
RetirableInDoubt(n) ==
  /\ activeFence[n] = 0
  /\ Greater(wall, clockHighWater[n]) > RetainUntil[n]

\* Released, past its retention horizon, and without a record in doubt.
Retirable(n) ==
  /\ activeFence[n] = 0
  /\ Greater(wall, clockHighWater[n]) > RetainUntil[n]
  /\ \A o \in Operations : Exists(record[n][o]) => Settled(record[n][o])

\* retireJournalSqliteNamespaces: records go, the row stays as a tombstone whose
\* high-water is past its horizon.
Retired == {n \in present : Retirable(n)}

\* A handle is known by its fence; `open` tells the opens of a namespace apart.
Handle(n, open, fence) == [namespace |-> n, open |-> open, fence |-> fence]
Opens(n) == Cardinality({h \in holders : h.namespace = n})

NextFence(n) == fenceSerial[n] + 1

Claim(n) ==
  /\ activeFence' = [activeFence EXCEPT ![n] = NextFence(n)]
  /\ fenceSerial' = [fenceSerial EXCEPT ![n] = NextFence(n)]
  /\ holders' = holders \cup {Handle(n, Opens(n) + 1, NextFence(n))}

\* The namespace exists: no clock rollback, not expired, not owned.
Reopen(n) ==
  /\ n \in present
  /\ Opens(n) < MaxOpens
  /\ wall >= clockHighWater[n]
  /\ Greater(now, clockHighWater[n]) <= RetainUntil[n]
  /\ activeFence[n] = 0
  /\ Claim(n)
  /\ clockHighWater' = [clockHighWater EXCEPT ![n] = Greater(wall, clockHighWater[n])]
  /\ UNCHANGED <<clockVars, present, record, purged>>

\* A tombstone from before is not rewritten.
Tombstone(m) ==
  /\ clockHighWater[m] > RetainUntil[m]
  /\ \A o \in Operations : ~Exists(record[m][o])

HighWater(retired) ==
  [m \in Namespaces |-> IF m \in retired /\ ~Tombstone(m)
                        THEN Greater(wall, clockHighWater[m])
                        ELSE clockHighWater[m]]

Emptied(retired) ==
  [m \in Namespaces |-> IF m \in retired THEN [o \in Operations |-> NoRow] ELSE record[m]]

Lost(retired) == {p \in retired \X Operations : Exists(record[p[1]][p[2]])}

Insert(n, retired) ==
  /\ present' = present \cup {n}
  /\ Claim(n)
  /\ clockHighWater' = [HighWater(retired) EXCEPT ![n] = wall]
  /\ record' = Emptied(retired)
  /\ purged' = purged \cup Lost(retired)
  /\ UNCHANGED clockVars

\* A new namespace below the ceiling.
OpenNew(n) ==
  /\ n \notin present
  /\ now <= AcceptUntil[n] /\ now <= RetainUntil[n]
  /\ Cardinality(present) < MaxNamespaces
  /\ Insert(n, {})

\* A new namespace at the ceiling: what can be retired is, in the same unit.
OpenNewRetiring(n) ==
  /\ n \notin present
  /\ now <= AcceptUntil[n] /\ now <= RetainUntil[n]
  /\ Cardinality(present) >= MaxNamespaces
  /\ Cardinality(present \ Retired) < MaxNamespaces
  /\ Insert(n, Retired)

\* The same, but enough namespaces are live: capacity is refused, yet what was
\* retired in the unit stays retired.
OpenRefusedRetiring(n) ==
  /\ n \notin present
  /\ now <= AcceptUntil[n] /\ now <= RetainUntil[n]
  /\ Cardinality(present \ Retired) >= MaxNamespaces
  /\ Retired # {}
  /\ clockHighWater' = HighWater(Retired)
  /\ record' = Emptied(Retired)
  /\ purged' = purged \cup Lost(Retired)
  /\ UNCHANGED <<clockVars, present, activeFence, fenceSerial, holders>>

CloseNamespace(h) ==
  /\ activeFence[h.namespace] = h.fence
  /\ activeFence' = [activeFence EXCEPT ![h.namespace] = 0]
  /\ UNCHANGED <<clockVars, present, fenceSerial, clockHighWater, record, holders, purged>>

-----------------------------------------------------------------------------
(* Records.                                                                *)

\* fenceRefusal: the handle's fence is in force and the namespace not expired.
Admitted(h) ==
  /\ h.namespace \in present
  /\ activeFence[h.namespace] = h.fence
  /\ Greater(now, clockHighWater[h.namespace]) <= RetainUntil[h.namespace]

\* prepareWrite, then at most one record changes.
Write(h, o, r) ==
  /\ Admitted(h)
  /\ clockHighWater' =
       [clockHighWater EXCEPT ![h.namespace] = Greater(wall, clockHighWater[h.namespace])]
  /\ record' = [record EXCEPT ![h.namespace][o] = r]
  /\ UNCHANGED <<clockVars, present, activeFence, fenceSerial, holders, purged>>

Count(n) == Cardinality({o \in Operations : Exists(record[n][o])})

ReserveIntent(h, o) ==
  LET n == h.namespace  r == record[n][o]
      admits == /\ ~Exists(r)
                /\ Greater(now, clockHighWater[n]) <= AcceptUntil[n]
                /\ Count(n) < MaxRecords
  IN Write(h, o, IF admits THEN Row(1, FALSE, "none") ELSE r)

MarkDispatch(h, o) ==
  LET r == record[h.namespace][o] IN
  Write(h, o, IF r = Row(1, FALSE, "none") THEN Row(2, TRUE, "none") ELSE r)

\* The caller states what it believes: whether the operation was dispatched.
CommitTerminal(h, o, expectedRevision, dispatched, status) ==
  LET r == record[h.namespace][o]
      legalPredispatch == /\ ~dispatched /\ expectedRevision = 1
                          /\ r = Row(1, FALSE, "none") /\ status = "failed"
      legalDispatched == dispatched /\ expectedRevision = 2 /\ r = Row(2, TRUE, "none")
  IN Write(h, o, IF legalPredispatch \/ legalDispatched
                   THEN Row(IF dispatched THEN 3 ELSE 2, dispatched, status) ELSE r)

-----------------------------------------------------------------------------

RowsInit ==
  /\ now = 0 /\ wall = 0
  /\ present = {}
  /\ activeFence = [n \in Namespaces |-> 0]
  /\ fenceSerial = [n \in Namespaces |-> 0]
  /\ clockHighWater = [n \in Namespaces |-> 0]
  /\ record = [n \in Namespaces |-> [o \in Operations |-> NoRow]]
  /\ holders = {}
  /\ purged = {}

RowsNext ==
  \/ \E w \in 0..MaxTime, elapsed \in 0..1 : Clock(w, elapsed)
  \/ \E w \in 0..MaxTime : Restart(w)
  \/ \E n \in Namespaces : Reopen(n)
  \/ \E n \in Namespaces : OpenNew(n)
  \/ \E n \in Namespaces : OpenNewRetiring(n)
  \/ \E n \in Namespaces : OpenRefusedRetiring(n)
  \/ \E h \in holders : CloseNamespace(h)
  \/ \E h \in holders, o \in Operations : ReserveIntent(h, o)
  \/ \E h \in holders, o \in Operations : MarkDispatch(h, o)
  \/ \E h \in holders, o \in Operations, e \in 1..2, dispatched \in BOOLEAN,
        status \in Terminals \ {"none"} : CommitTerminal(h, o, e, dispatched, status)

RowsSpec == RowsInit /\ [][RowsNext]_recordVars

-----------------------------------------------------------------------------
(* Properties.                                                             *)

RowsTypeOK ==
  /\ now \in 0..MaxTime /\ wall \in 0..MaxTime
  /\ present \subseteq Namespaces
  /\ activeFence \in [Namespaces -> Nat]
  /\ fenceSerial \in [Namespaces -> Nat]
  /\ clockHighWater \in [Namespaces -> Nat]
  /\ record \in [Namespaces -> [Operations -> Record]]
  /\ holders \subseteq [namespace : Namespaces, open : Nat, fence : Nat]
  /\ purged \subseteq Namespaces \X Operations

\* "Purged operation IDs are therefore never admitted again": not after a clock
\* rollback, a restart or a reopen of the tombstone either.
PurgedStaysPurged ==
  \A n \in Namespaces, o \in Operations : <<n, o>> \in purged => ~Exists(record[n][o])

\* A row is either a tombstone for good or counts against the ceiling, and the
\* ceiling holds, whatever the clock does.
LiveWithinCeiling ==
  Cardinality({n \in present :
                 ~(activeFence[n] = 0 /\ clockHighWater[n] > RetainUntil[n] /\ Count(n) = 0)})
    <= MaxNamespaces

\* A record moves only along its life, none is lost before it has a terminal, and
\* a terminal is final until retention deletes it.
RecordsOnlyAdvance ==
  [][\A n \in Namespaces, o \in Operations :
       LET was == record[n][o]  is == record'[n][o] IN
       is # was =>
         \/ was = NoRow /\ is = Row(1, FALSE, "none")
         \/ was = Row(1, FALSE, "none") /\ is \in {Row(2, TRUE, "none"), Row(2, FALSE, "failed")}
         \/ was = Row(2, TRUE, "none") /\ is.revision = 3 /\ is.dispatched /\ Settled(is)
         \/ Settled(was) /\ is = NoRow]_recordVars

\* A handle writes only while no later open of its namespace took place: a fence
\* is never shared by two owners, across closes and restarts.
OnlyLatestHolderWrites ==
  \A h \in holders : Admitted(h) => h.open = Opens(h.namespace)

\* A purged namespace is not opened again whatever the clock does, the ceiling
\* counts live namespaces, only the latest holder of a fence writes, and a record
\* only advances.
RowsHold ==
  /\ [](PurgedStaysPurged /\ LiveWithinCeiling /\ OnlyLatestHolderWrites)
  /\ RecordsOnlyAdvance
=============================================================================
