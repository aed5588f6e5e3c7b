------------------------- MODULE JournalStorageProofs -------------------------
(***************************************************************************)
(* What is on disk.  First the rows of the SQLite journal (JournalRecords),*)
(* for every set of namespaces and operations, every horizon and every     *)
(* bound, under a clock that may step back: the inductive invariant adds to*)
(* the properties that a purged namespace is a tombstone past its horizon, *)
(* that a fence is the number of its open, and which rows a record goes    *)
(* through.  Then the files under them (JournalStore), for any number of   *)
(* commits: no two databases the next owner may find end with the same     *)
(* nonce, so a witness accepts one of them only, and the one the owner works*)
(* on has every acknowledged commit.  Then the operator's recovery         *)
(* (JournalRecovery): a record agrees with its run and its effect whoever  *)
(* writes it, and a call covers the records it has yet to find.  Last the  *)
(* process that serves the journal (JournalProcess), for any number of     *)
(* calls and namespaces: a call is in one place, the request channel or the*)
(* replies, and what is on its way agrees with what the child has done.    *)
(***************************************************************************)
EXTENDS JournalRecords, JournalStore, JournalRecovery, JournalProcess, FiniteSetTheorems, TLAPS

\* The rows a record goes through.
LegalRows ==
  {NoRow, Row(1, FALSE, "none"), Row(2, TRUE, "none"), Row(2, FALSE, "failed")}
    \cup {Row(3, TRUE, s) : s \in Terminals \ {"none"}}

LegalInv == \A n \in Namespaces, o \in Operations : record[n][o] \in LegalRows

\* What was purged belongs to a namespace whose high-water is past its horizon.
PurgedInv ==
  \A n \in Namespaces, o \in Operations : <<n, o>> \in purged =>
    n \in present /\ clockHighWater[n] > RetainUntil[n] /\ ~Exists(record[n][o])

\* The n-th open of a namespace gets its n-th fence, and no fence but the last is
\* ever in force.
FenceInv ==
  /\ IsFiniteSet(holders)
  /\ \A n \in Namespaces : fenceSerial[n] = Opens(n) /\ activeFence[n] \in {0, fenceSerial[n]}
  /\ \A h \in holders : h.open = h.fence /\ h.fence \in 1..fenceSerial[h.namespace]

\* A namespace that is a tombstone for good.
Dead(n) == activeFence[n] = 0 /\ clockHighWater[n] > RetainUntil[n] /\ Count(n) = 0
Live == {n \in present : ~Dead(n)}

CeilingInv == IsFiniteSet(present) /\ Cardinality(Live) <= MaxNamespaces

RowsInv ==
  /\ RowsTypeOK
  /\ LegalInv
  /\ PurgedInv
  /\ FenceInv
  /\ CeilingInv

\* The step RecordsOnlyAdvance allows.
Advances(was, is) ==
  is # was =>
    \/ was = NoRow /\ is = Row(1, FALSE, "none")
    \/ was = Row(1, FALSE, "none") /\ is \in {Row(2, TRUE, "none"), Row(2, FALSE, "failed")}
    \/ was = Row(2, TRUE, "none") /\ is.revision = 3 /\ is.dispatched /\ Settled(is)
    \/ Settled(was) /\ is = NoRow

-----------------------------------------------------------------------------
(* Lemmas about rows, horizons and retirement.                             *)

LEMMA RowFields ==
  /\ \A v, d, s : Row(v, d, s).revision = v /\ Row(v, d, s).dispatched = d
                /\ Row(v, d, s).terminal = s
  /\ LegalRows \subseteq Record
  /\ NoRow \in LegalRows /\ ~Exists(NoRow)
  /\ \A r \in LegalRows : ~Exists(r) => r = NoRow
  /\ \A r \in LegalRows : Exists(r) /\ Settled(r) => r # NoRow
<1>1. \A v, d, s : Row(v, d, s).revision = v /\ Row(v, d, s).dispatched = d
                 /\ Row(v, d, s).terminal = s
  BY DEF Row
<1>2. \A r \in LegalRows :
        \/ r \in {NoRow, Row(1, FALSE, "none"), Row(2, TRUE, "none"), Row(2, FALSE, "failed")}
        \/ \E s \in Terminals : r = Row(3, TRUE, s)
  BY DEF LegalRows
<1>3. LegalRows \subseteq Record
  <2>1. {NoRow, Row(1, FALSE, "none"), Row(2, TRUE, "none"), Row(2, FALSE, "failed")} \subseteq Record
    BY DEF NoRow, Row, Record, Terminals
  <2>2. \A s \in Terminals : Row(3, TRUE, s) \in Record
    BY DEF Row, Record
  <2> QED BY <1>2, <2>1, <2>2
<1>4. NoRow \in LegalRows /\ ~Exists(NoRow) /\ \A r \in LegalRows : ~Exists(r) => r = NoRow
  <2>1. NoRow.revision = 0 /\ NoRow \in LegalRows
    BY DEF NoRow, Row, LegalRows
  <2>2. \A r \in LegalRows : r = NoRow \/ r.revision \in {1, 2, 3}
    BY <1>2 DEF Row
  <2> QED BY <2>1, <2>2 DEF Exists
<1>5. \A r \in LegalRows : Exists(r) /\ Settled(r) => r # NoRow
  BY <1>4
<1> QED BY <1>1, <1>3, <1>4, <1>5

LEMMA GreaterFacts ==
  ASSUME NEW a \in Nat, NEW b \in Nat
  PROVE  Greater(a, b) \in Nat /\ a <= Greater(a, b) /\ b <= Greater(a, b)
BY DEF Greater

LEMMA Types ==
  ASSUME RowsInv
  PROVE  /\ now \in Nat /\ wall \in Nat
         /\ \A n \in Namespaces :
              /\ clockHighWater[n] \in Nat /\ RetainUntil[n] \in Nat /\ AcceptUntil[n] \in Nat
              /\ fenceSerial[n] \in Nat /\ activeFence[n] \in Nat
         /\ \A h \in holders : h.namespace \in Namespaces
BY RecordsAssumption DEF RowsInv, RowsTypeOK

\* What is retired becomes a tombstone, empty and past its horizon; the rest is
\* left as it is.
LEMMA RetiredEffect ==
  ASSUME RowsInv
  PROVE  /\ Retired \subseteq present
         /\ \A n \in Namespaces : HighWater(Retired)[n] \in Nat
                               /\ clockHighWater[n] <= HighWater(Retired)[n]
         /\ \A n \in Retired : HighWater(Retired)[n] > RetainUntil[n] /\ activeFence[n] = 0
         /\ \A n \in Namespaces \ Retired : HighWater(Retired)[n] = clockHighWater[n]
         /\ \A n \in Namespaces, o \in Operations :
              Emptied(Retired)[n][o] = IF n \in Retired THEN NoRow ELSE record[n][o]
         /\ \A n \in Namespaces, o \in Operations :
              Advances(record[n][o], Emptied(Retired)[n][o])
         /\ \A n \in Namespaces, o \in Operations :
              <<n, o>> \in Lost(Retired) => n \in Retired
         /\ Lost(Retired) \subseteq Namespaces \X Operations
<1>1. Retired \subseteq present /\ Retired \subseteq Namespaces
  BY DEF Retired, RowsInv, RowsTypeOK
<1>2. \A n \in Namespaces : HighWater(Retired)[n] \in Nat
                          /\ clockHighWater[n] <= HighWater(Retired)[n]
  <2> SUFFICES ASSUME NEW n \in Namespaces
               PROVE  HighWater(Retired)[n] \in Nat /\ clockHighWater[n] <= HighWater(Retired)[n]
    OBVIOUS
  <2>1. /\ clockHighWater[n] \in Nat /\ Greater(wall, clockHighWater[n]) \in Nat
        /\ clockHighWater[n] <= Greater(wall, clockHighWater[n])
    BY Types, GreaterFacts
  <2> QED BY <2>1 DEF HighWater, Tombstone
<1>3. \A n \in Retired : HighWater(Retired)[n] > RetainUntil[n] /\ activeFence[n] = 0
  BY <1>1, Types DEF HighWater, Tombstone, Retired, Retirable
<1>4. \A n \in Namespaces \ Retired : HighWater(Retired)[n] = clockHighWater[n]
  BY DEF HighWater
<1>5. \A n \in Namespaces, o \in Operations :
        Emptied(Retired)[n][o] = IF n \in Retired THEN NoRow ELSE record[n][o]
  BY DEF Emptied
<1>6. \A n \in Namespaces, o \in Operations :
        Advances(record[n][o], Emptied(Retired)[n][o])
  <2> SUFFICES ASSUME NEW n \in Namespaces, NEW o \in Operations
               PROVE  Advances(record[n][o], Emptied(Retired)[n][o])
    OBVIOUS
  <2>1. CASE n \notin Retired
    BY <1>5, <2>1 DEF Advances
  <2>2. CASE n \in Retired
    <3>1. Exists(record[n][o]) => Settled(record[n][o])
      BY <2>2 DEF Retired, Retirable
    <3>2. ~Exists(record[n][o]) => record[n][o] = NoRow
      BY RowFields DEF RowsInv, LegalInv
    <3> QED BY <1>5, <2>2, <3>1, <3>2 DEF Advances
  <2> QED BY <2>1, <2>2
<1>7. \A n \in Namespaces, o \in Operations : <<n, o>> \in Lost(Retired) => n \in Retired
  BY DEF Lost
<1>8. Lost(Retired) \subseteq Namespaces \X Operations
  BY <1>1 DEF Lost
<1> QED BY <1>1, <1>2, <1>3, <1>4, <1>5, <1>6, <1>7, <1>8

\* With nothing retired, nothing changes.
LEMMA NoneRetired ==
  ASSUME RowsInv
  PROVE  HighWater({}) = clockHighWater /\ Emptied({}) = record /\ Lost({}) = {}
BY DEF HighWater, Emptied, Lost, RowsInv, RowsTypeOK

\* A write of the fence in force changes at most one row, along its life.
LEMMA WritesAdvance ==
  ASSUME RowsInv, NEW h \in holders, NEW o \in Operations,
         \/ ReserveIntent(h, o) \/ MarkDispatch(h, o)
         \/ \E e \in 1..2, dispatched \in BOOLEAN, status \in Terminals \ {"none"} :
              CommitTerminal(h, o, e, dispatched, status)
  PROVE  \E r \in LegalRows : Write(h, o, r) /\ Advances(record[h.namespace][o], r)
<1> DEFINE was == record[h.namespace][o]
<1>1. was \in LegalRows
  BY Types DEF RowsInv, LegalInv
<1>2. Advances(was, was)
  BY DEF Advances
<1>3. CASE ReserveIntent(h, o)
  <2>1. \/ Write(h, o, Row(1, FALSE, "none")) /\ ~Exists(was)
        \/ Write(h, o, was)
    BY <1>3 DEF ReserveIntent
  <2>2. ~Exists(was) => was = NoRow
    BY <1>1, RowFields
  <2>3. ~Exists(was) => Advances(was, Row(1, FALSE, "none"))
    BY <2>2 DEF Advances
  <2> QED BY <1>1, <1>2, <2>1, <2>3 DEF LegalRows
<1>4. CASE MarkDispatch(h, o)
  <2>1. \/ Write(h, o, Row(2, TRUE, "none")) /\ was = Row(1, FALSE, "none")
        \/ Write(h, o, was)
    BY <1>4 DEF MarkDispatch
  <2>2. was = Row(1, FALSE, "none") => Advances(was, Row(2, TRUE, "none"))
    BY DEF Advances
  <2> QED BY <1>1, <1>2, <2>1, <2>2 DEF LegalRows
<1>5. CASE \E e \in 1..2, dispatched \in BOOLEAN, status \in Terminals \ {"none"} :
             CommitTerminal(h, o, e, dispatched, status)
  <2>1. PICK e \in 1..2, dispatched \in BOOLEAN, status \in Terminals \ {"none"} :
          CommitTerminal(h, o, e, dispatched, status)
    BY <1>5
  <2>2. \/ Write(h, o, was)
        \/ Write(h, o, Row(2, FALSE, "failed")) /\ was = Row(1, FALSE, "none")
        \/ Write(h, o, Row(3, TRUE, status)) /\ was = Row(2, TRUE, "none")
    BY <2>1 DEF CommitTerminal
  <2>3. was = Row(1, FALSE, "none") => Advances(was, Row(2, FALSE, "failed"))
    BY DEF Advances
  <2>4. was = Row(2, TRUE, "none") => Advances(was, Row(3, TRUE, status))
    <3>1. \A is : is.revision = 3 /\ is.dispatched /\ Settled(is) /\ was = Row(2, TRUE, "none")
                 => Advances(was, is)
      BY DEF Advances
    <3>2. Row(3, TRUE, status).revision = 3 /\ Row(3, TRUE, status).dispatched
          /\ Settled(Row(3, TRUE, status))
      BY DEF Row, Settled
    <3> QED BY <3>1, <3>2
  <2> QED BY <1>1, <1>2, <2>2, <2>3, <2>4 DEF LegalRows
<1> QED BY <1>3, <1>4, <1>5

-----------------------------------------------------------------------------
(* The invariant, action by action.                                        *)

LEMMA RowsInitInv == RowsInit => RowsInv
<1> SUFFICES ASSUME RowsInit PROVE RowsInv
  OBVIOUS
<1>1. RowsTypeOK
  BY RecordsAssumption, RowFields DEF RowsInit, RowsTypeOK
<1>2. LegalInv /\ PurgedInv
  BY RowFields DEF RowsInit, LegalInv, PurgedInv
<1>3. FenceInv
  <2>1. \A n \in Namespaces : {h \in holders : h.namespace = n} = {}
    BY DEF RowsInit
  <2> QED BY <2>1, FS_EmptySet DEF RowsInit, FenceInv, Opens
<1>4. CeilingInv
  <2>1. Live = {} /\ present = {}
    BY DEF RowsInit, Live
  <2> QED BY <2>1, FS_EmptySet, RecordsAssumption DEF CeilingInv
<1> QED BY <1>1, <1>2, <1>3, <1>4 DEF RowsInv

\* The ceiling holds on while no namespace is added and tombstones stay dead.
LEMMA CeilingKept ==
  ASSUME RowsInv, present' \subseteq present, \A n \in present : Dead(n) => Dead(n)'
  PROVE  CeilingInv'
<1>1. IsFiniteSet(present') /\ IsFiniteSet(Live)
  BY FS_Subset DEF RowsInv, CeilingInv, Live
<1>2. Live' \subseteq Live
  BY DEF Live
<1>3. IsFiniteSet(Live') /\ Cardinality(Live') <= Cardinality(Live)
  BY <1>1, <1>2, FS_Subset
<1> QED
  BY <1>1, <1>3, FS_CardinalityType, RecordsAssumption DEF RowsInv, CeilingInv

\* The fences survive a step that opens nothing and releases at most.
LEMMA FenceKept ==
  ASSUME RowsInv, UNCHANGED <<fenceSerial, holders>>,
         \A n \in Namespaces : activeFence'[n] \in {0, activeFence[n]}
  PROVE  FenceInv'
BY DEF RowsInv, FenceInv, Opens

\* The clock, and a restart of the process.
LEMMA TimeInv ==
  ASSUME RowsInv,
         \/ \E w \in 0..MaxTime, elapsed \in 0..1 : Clock(w, elapsed)
         \/ \E w \in 0..MaxTime : Restart(w)
  PROVE  RowsInv' /\ record' = record
<1>1. /\ UNCHANGED <<present, fenceSerial, clockHighWater, record, holders, purged>>
      /\ \/ UNCHANGED activeFence
         \/ activeFence' = [n \in Namespaces |-> 0]
  BY DEF Clock, Restart, rowVars
<1>2. now' \in 0..MaxTime /\ wall' \in 0..MaxTime
  <2>1. CASE \E w \in 0..MaxTime, elapsed \in 0..1 : Clock(w, elapsed)
    <3>1. PICK w \in 0..MaxTime, elapsed \in 0..1 : Clock(w, elapsed)
      BY <2>1
    <3>2. now + elapsed \in Nat /\ w \in Nat /\ MaxTime \in Nat
      BY Types, RecordsAssumption
    <3>3. Greater(now + elapsed, w) \in Nat
      BY <3>2, GreaterFacts
    <3> QED BY <3>1, <3>2, <3>3 DEF Clock
  <2>2. CASE \E w \in 0..MaxTime : Restart(w)
    BY <2>2 DEF Restart
  <2> QED BY <2>1, <2>2
<1>3. /\ activeFence' \in [Namespaces -> Nat]
      /\ \A n \in Namespaces : activeFence'[n] \in {0, activeFence[n]}
  BY <1>1 DEF RowsInv, RowsTypeOK
<1>4. RowsTypeOK'
  BY <1>1, <1>2, <1>3 DEF RowsInv, RowsTypeOK
<1>5. LegalInv' /\ PurgedInv'
  BY <1>1 DEF RowsInv, LegalInv, PurgedInv
<1>6. FenceInv'
  BY <1>1, <1>3, FenceKept
<1>7. CeilingInv'
  BY <1>1, <1>3, CeilingKept DEF Dead, Count, RowsInv, RowsTypeOK
<1> QED BY <1>1, <1>4, <1>5, <1>6, <1>7 DEF RowsInv

LEMMA CloseInv ==
  ASSUME RowsInv, NEW h \in holders, CloseNamespace(h)
  PROVE  RowsInv' /\ record' = record
<1>1. /\ UNCHANGED <<now, wall, present, fenceSerial, clockHighWater, record, holders, purged>>
      /\ activeFence' = [activeFence EXCEPT ![h.namespace] = 0]
  BY DEF CloseNamespace, clockVars
<1>2. /\ activeFence' \in [Namespaces -> Nat]
      /\ \A n \in Namespaces : activeFence'[n] \in {0, activeFence[n]}
  BY <1>1 DEF RowsInv, RowsTypeOK
<1>3. RowsTypeOK' /\ LegalInv' /\ PurgedInv'
  BY <1>1, <1>2 DEF RowsInv, RowsTypeOK, LegalInv, PurgedInv
<1>4. FenceInv'
  BY <1>1, <1>2, FenceKept
<1>5. CeilingInv'
  BY <1>1, <1>2, CeilingKept DEF Dead, Count, RowsInv, RowsTypeOK
<1> QED BY <1>1, <1>3, <1>4, <1>5 DEF RowsInv

LEMMA WriteInv ==
  ASSUME RowsInv, NEW h \in holders, NEW o \in Operations, NEW r \in LegalRows, Write(h, o, r)
  PROVE  RowsInv'
<1> DEFINE n == h.namespace
<1>1. /\ UNCHANGED <<now, wall, present, activeFence, fenceSerial, holders, purged>>
      /\ record' = [record EXCEPT ![n][o] = r]
      /\ clockHighWater' = [clockHighWater EXCEPT ![n] = Greater(wall, clockHighWater[n])]
      /\ n \in present /\ activeFence[n] = h.fence
      /\ Greater(now, clockHighWater[n]) <= RetainUntil[n]
  BY DEF Write, Admitted, clockVars
<1>2. /\ n \in Namespaces /\ activeFence[n] # 0
      /\ clockHighWater[n] <= RetainUntil[n]
      /\ Greater(wall, clockHighWater[n]) \in Nat
  BY <1>1, Types, GreaterFacts DEF RowsInv, FenceInv
<1>3. \A m \in Namespaces :
        /\ m # n => clockHighWater'[m] = clockHighWater[m] /\ record'[m] = record[m]
        /\ \A p \in Operations : record'[m][p] = IF m = n /\ p = o THEN r ELSE record[m][p]
  BY <1>1, <1>2 DEF RowsInv, RowsTypeOK
<1>4. RowsTypeOK'
  BY <1>1, <1>2, RowFields DEF RowsInv, RowsTypeOK
<1>5. LegalInv'
  BY <1>3 DEF RowsInv, LegalInv
<1>6. PurgedInv'
  BY <1>1, <1>2, <1>3, Types DEF RowsInv, PurgedInv
<1>7. FenceInv'
  BY <1>1, FenceKept
<1>8. CeilingInv'
  <2>1. \A m \in present : Dead(m) => m # n /\ m \in Namespaces
    BY <1>2 DEF Dead, RowsInv, RowsTypeOK
  <2> QED
    BY <1>1, <1>3, <2>1, CeilingKept DEF Dead, Count
<1> QED BY <1>4, <1>5, <1>6, <1>7, <1>8 DEF RowsInv

\* The next open of a namespace gets the next fence.
LEMMA ClaimFence ==
  ASSUME RowsInv, NEW n \in Namespaces, Claim(n)
  PROVE  /\ FenceInv'
         /\ activeFence' \in [Namespaces -> Nat] /\ fenceSerial' \in [Namespaces -> Nat]
         /\ holders' \subseteq [namespace : Namespaces, open : Nat, fence : Nat]
         /\ \A m \in Namespaces : m # n => activeFence'[m] = activeFence[m]
<1> DEFINE new == Handle(n, Opens(n) + 1, NextFence(n))
           at(m) == {h \in holders : h.namespace = m}
<1>1. /\ activeFence' = [activeFence EXCEPT ![n] = NextFence(n)]
      /\ fenceSerial' = [fenceSerial EXCEPT ![n] = NextFence(n)]
      /\ holders' = holders \cup {new}
  BY DEF Claim
<1>2. NextFence(n) \in Nat /\ NextFence(n) = Opens(n) + 1 /\ NextFence(n) = fenceSerial[n] + 1
  BY Types DEF NextFence, RowsInv, FenceInv
<1>3. new.namespace = n /\ new.open = new.fence /\ new.fence = fenceSerial[n] + 1
      /\ new \in [namespace : Namespaces, open : Nat, fence : Nat]
  BY <1>2 DEF Handle
<1>4. new \notin at(n)
  BY <1>3, Types DEF RowsInv, FenceInv
<1>5. IsFiniteSet(holders) /\ \A m : IsFiniteSet(at(m))
  BY FS_Subset DEF RowsInv, FenceInv
<1>6. /\ Opens(n) = Cardinality(at(n)) /\ Opens(n)' = Cardinality(at(n) \cup {new})
      /\ \A m : m # n => Opens(m)' = Opens(m)
  <2>1. /\ {h \in holders' : h.namespace = n} = at(n) \cup {new}
        /\ \A m : m # n => {h \in holders' : h.namespace = m} = at(m)
    BY <1>1, <1>3
  <2> QED BY <2>1 DEF Opens
<1> HIDE DEF new, at
<1>7. Opens(n)' = Opens(n) + 1
  BY <1>4, <1>5, <1>6, FS_AddElement
<1>8. IsFiniteSet(holders')
  BY <1>1, <1>5, FS_AddElement
<1>9. \A m \in Namespaces : fenceSerial'[m] = Opens(m)' /\ activeFence'[m] \in {0, fenceSerial'[m]}
  BY <1>1, <1>2, <1>6, <1>7 DEF RowsInv, FenceInv, RowsTypeOK
<1>10. \A h \in holders' : h.open = h.fence /\ h.fence \in 1..fenceSerial'[h.namespace]
  BY <1>1, <1>2, <1>3, Types DEF RowsInv, FenceInv, RowsTypeOK
<1> QED
  BY <1>1, <1>2, <1>3, <1>8, <1>9, <1>10 DEF FenceInv, RowsInv, RowsTypeOK

LEMMA ReopenInv ==
  ASSUME RowsInv, NEW n \in Namespaces, Reopen(n)
  PROVE  RowsInv' /\ record' = record
<1>1. /\ UNCHANGED <<now, wall, present, record, purged>>
      /\ clockHighWater' = [clockHighWater EXCEPT ![n] = Greater(wall, clockHighWater[n])]
      /\ Greater(now, clockHighWater[n]) <= RetainUntil[n]
      /\ Claim(n)
  BY DEF Reopen, clockVars
<1>2. Greater(wall, clockHighWater[n]) \in Nat /\ clockHighWater[n] <= RetainUntil[n]
  <2>1. now \in Nat /\ wall \in Nat /\ clockHighWater[n] \in Nat /\ RetainUntil[n] \in Nat
    BY Types
  <2>2. Greater(now, clockHighWater[n]) \in Nat
        /\ clockHighWater[n] <= Greater(now, clockHighWater[n])
    BY <2>1, GreaterFacts
  <2>3. Greater(wall, clockHighWater[n]) \in Nat
    BY <2>1, GreaterFacts
  <2>4. clockHighWater[n] <= RetainUntil[n]
    BY <1>1, <2>1, <2>2
  <2> QED
    BY <2>3, <2>4
<1>3. \A m \in Namespaces : m # n => clockHighWater'[m] = clockHighWater[m]
  BY <1>1 DEF RowsInv, RowsTypeOK
<1>4. RowsTypeOK'
  BY <1>1, <1>2, ClaimFence DEF RowsInv, RowsTypeOK
<1>5. LegalInv' /\ PurgedInv'
  BY <1>1, <1>2, <1>3, Types DEF RowsInv, LegalInv, PurgedInv
<1>6. CeilingInv'
  <2>1. \A m \in present : Dead(m) => m # n /\ m \in Namespaces
    BY <1>2, Types DEF Dead, RowsInv, RowsTypeOK
  <2> QED
    BY <1>1, <1>3, <2>1, ClaimFence, CeilingKept DEF Dead, Count
<1> QED BY <1>1, <1>4, <1>5, <1>6, ClaimFence DEF RowsInv

\* A new namespace, below the ceiling or after what can be was retired.
LEMMA InsertInv ==
  ASSUME RowsInv, NEW n \in Namespaces, n \notin present,
         NEW retired \in {{}, Retired}, Insert(n, retired),
         Cardinality(present \ retired) < MaxNamespaces
  PROVE  RowsInv' /\ \A m \in Namespaces, o \in Operations : Advances(record[m][o], record'[m][o])
<1>1. /\ UNCHANGED <<now, wall>>
      /\ present' = present \cup {n}
      /\ Claim(n)
      /\ clockHighWater' = [HighWater(retired) EXCEPT ![n] = wall]
      /\ record' = Emptied(retired)
      /\ purged' = purged \cup Lost(retired)
  BY DEF Insert, clockVars
<1>2. /\ retired \subseteq present
      /\ \A m \in Namespaces : HighWater(retired)[m] \in Nat
                            /\ clockHighWater[m] <= HighWater(retired)[m]
      /\ \A m \in retired : HighWater(retired)[m] > RetainUntil[m] /\ activeFence[m] = 0
      /\ \A m \in Namespaces \ retired : HighWater(retired)[m] = clockHighWater[m]
      /\ \A m \in Namespaces, o \in Operations :
           /\ record'[m][o] = IF m \in retired THEN NoRow ELSE record[m][o]
           /\ Advances(record[m][o], record'[m][o])
           /\ <<m, o>> \in Lost(retired) => m \in retired
      /\ Lost(retired) \subseteq Namespaces \X Operations
  <2>1. CASE retired = Retired
    BY <1>1, <2>1, RetiredEffect
  <2>2. CASE retired = {}
    <3>1. \A m \in Namespaces, o \in Operations : Advances(record[m][o], record[m][o])
      BY DEF Advances
    <3>2. HighWater(retired) = clockHighWater /\ record' = record /\ Lost(retired) = {}
      BY <1>1, <2>2, NoneRetired
    <3> QED BY <2>2, <3>1, <3>2, Types
  <2> QED BY <2>1, <2>2
<1>3. \A m \in Namespaces : clockHighWater'[m] = IF m = n THEN wall ELSE HighWater(retired)[m]
  BY <1>1 DEF HighWater
<1>4. DOMAIN record' = Namespaces /\ \A m \in Namespaces : record'[m] \in [Operations -> Record]
  BY <1>1, RowFields DEF Emptied, RowsInv, RowsTypeOK
<1>5. clockHighWater' \in [Namespaces -> Nat] /\ record' \in [Namespaces -> [Operations -> Record]]
  <2>1. record' = [m \in Namespaces |-> record'[m]]
    BY <1>1 DEF Emptied
  <2>2. clockHighWater' = [m \in Namespaces |-> clockHighWater'[m]]
    BY <1>1 DEF HighWater
  <2>3. \A m \in Namespaces : clockHighWater'[m] \in Nat
    BY <1>2, <1>3, Types
  <2> QED BY <1>4, <2>1, <2>2, <2>3
<1>6. RowsTypeOK'
  BY <1>1, <1>2, <1>5, ClaimFence DEF RowsInv, RowsTypeOK
<1>7. LegalInv'
  BY ZenonT(60), <1>2, RowFields DEF RowsInv, LegalInv
<1>8. PurgedInv'
  <2> SUFFICES ASSUME NEW m \in Namespaces, NEW o \in Operations, <<m, o>> \in purged'
               PROVE  m \in present' /\ clockHighWater'[m] > RetainUntil[m] /\ ~Exists(record'[m][o])
    BY DEF PurgedInv
  <2>1. m \in present /\ m # n
    BY <1>1, <1>2 DEF RowsInv, PurgedInv
  <2>2. CASE m \in retired
    BY <1>1, <1>2, <1>3, <2>1, <2>2, RowFields
  <2>3. CASE m \notin retired
    BY <1>1, <1>2, <1>3, <2>1, <2>3 DEF RowsInv, PurgedInv
  <2> QED BY <2>2, <2>3
<1>9. CeilingInv'
  <2>1. IsFiniteSet(present) /\ IsFiniteSet(present') /\ IsFiniteSet(present \ retired)
    BY <1>1, FS_AddElement, FS_Subset DEF RowsInv, CeilingInv
  <2>2. \A m \in retired : Dead(m)'
    <3> SUFFICES ASSUME NEW m \in retired PROVE Dead(m)'
      OBVIOUS
    <3>1. m \in Namespaces /\ m # n
      BY <1>2 DEF RowsInv, RowsTypeOK
    <3>2. {o \in Operations : Exists(record'[m][o])} = {}
      BY <1>2, <3>1, RowFields
    <3>3. Count(m)' = 0
      BY <3>2, FS_EmptySet DEF Count
    <3> QED
      BY <1>2, <1>3, <3>1, <3>3, ClaimFence, <1>1 DEF Dead
  <2>3. Live' \subseteq (present \ retired) \cup {n}
    BY <1>1, <2>2 DEF Live
  <2>4. /\ IsFiniteSet((present \ retired) \cup {n})
        /\ Cardinality((present \ retired) \cup {n}) = Cardinality(present \ retired) + 1
    BY <2>1, FS_AddElement
  <2>5. IsFiniteSet(Live') /\ Cardinality(Live') <= Cardinality((present \ retired) \cup {n})
    BY <2>3, <2>4, FS_Subset
  <2> QED
    BY <2>1, <2>4, <2>5, FS_CardinalityType, RecordsAssumption DEF CeilingInv
<1> QED BY <1>1, <1>2, <1>6, <1>7, <1>8, <1>9, ClaimFence DEF RowsInv

LEMMA RefusedRetiringInv ==
  ASSUME RowsInv, NEW n \in Namespaces, OpenRefusedRetiring(n)
  PROVE  RowsInv' /\ \A m \in Namespaces, o \in Operations : Advances(record[m][o], record'[m][o])
<1>1. /\ UNCHANGED <<now, wall, present, activeFence, fenceSerial, holders>>
      /\ clockHighWater' = HighWater(Retired)
      /\ record' = Emptied(Retired)
      /\ purged' = purged \cup Lost(Retired)
  BY DEF OpenRefusedRetiring, clockVars
<1>2. record' \in [Namespaces -> [Operations -> Record]] /\ clockHighWater' \in [Namespaces -> Nat]
  <2>1. \A m \in Namespaces : record'[m] \in [Operations -> Record] /\ clockHighWater'[m] \in Nat
    BY <1>1, RowFields, RetiredEffect DEF Emptied, RowsInv, RowsTypeOK
  <2>2. /\ record' = [m \in Namespaces |-> record'[m]]
        /\ clockHighWater' = [m \in Namespaces |-> clockHighWater'[m]]
    BY <1>1 DEF Emptied, HighWater
  <2> QED BY <2>1, <2>2
<1>3. RowsTypeOK'
  BY <1>1, <1>2, RetiredEffect DEF RowsInv, RowsTypeOK
<1>4. LegalInv'
  BY <1>1, RowFields, RetiredEffect DEF RowsInv, LegalInv
<1>5. PurgedInv'
  <2> SUFFICES ASSUME NEW m \in Namespaces, NEW o \in Operations, <<m, o>> \in purged'
               PROVE  m \in present /\ clockHighWater'[m] > RetainUntil[m] /\ ~Exists(record'[m][o])
    BY <1>1 DEF PurgedInv
  <2>1. CASE m \in Retired
    BY <1>1, <2>1, RetiredEffect, RowFields
  <2>2. CASE m \notin Retired
    BY <1>1, <2>2, RetiredEffect DEF RowsInv, PurgedInv
  <2> QED BY <2>1, <2>2
<1>6. FenceInv'
  BY <1>1, FenceKept
<1>7. CeilingInv'
  <2>1. \A m \in present : Dead(m) => Dead(m)'
    <3> SUFFICES ASSUME NEW m \in present, Dead(m) PROVE Dead(m)'
      OBVIOUS
    <3>1. m \in Namespaces
      BY DEF RowsInv, RowsTypeOK
    <3>2. CASE m \notin Retired
      <4>1. Count(m)' = Count(m)
        BY <1>1, <3>1, <3>2, RetiredEffect DEF Count
      <4> QED
        BY <1>1, <3>1, <3>2, <4>1, RetiredEffect DEF Dead
    <3>3. CASE m \in Retired
      <4>1. {o \in Operations : Exists(record'[m][o])} = {}
        BY <1>1, <3>1, <3>3, RetiredEffect, RowFields
      <4>2. Count(m)' = 0
        BY <4>1, FS_EmptySet DEF Count
      <4> QED
        BY <1>1, <3>3, <4>2, RetiredEffect DEF Dead
    <3> QED BY <3>2, <3>3
  <2> QED BY <1>1, <2>1, CeilingKept
<1> QED BY <1>1, <1>3, <1>4, <1>5, <1>6, <1>7, RetiredEffect DEF RowsInv

\* Every step keeps the invariant and moves each record along its life.
LEMMA RowsStep ==
  ASSUME RowsInv, [RowsNext]_recordVars
  PROVE  RowsInv' /\ \A m \in Namespaces, o \in Operations : Advances(record[m][o], record'[m][o])
<1>1. CASE UNCHANGED recordVars
  <2>1. record' = record
    BY <1>1 DEF recordVars
  <2>2. RowsInv'
    BY ZenonT(60), <1>1
     DEF recordVars, clockVars, rowVars, RowsInv, RowsTypeOK, LegalInv, PurgedInv, FenceInv,
         CeilingInv,
       Live, Dead, Count, Opens
  <2> QED BY <2>1, <2>2 DEF Advances
<1>2. CASE \/ \E w \in 0..MaxTime, elapsed \in 0..1 : Clock(w, elapsed)
           \/ \E w \in 0..MaxTime : Restart(w)
           \/ \E h \in holders : CloseNamespace(h)
           \/ \E n \in Namespaces : Reopen(n)
  <2>1. RowsInv' /\ record' = record
    BY <1>2, TimeInv, CloseInv, ReopenInv
  <2> QED BY <2>1 DEF Advances
<1>3. CASE \E n \in Namespaces : OpenNew(n) \/ OpenNewRetiring(n)
  <2>1. PICK n \in Namespaces : OpenNew(n) \/ OpenNewRetiring(n)
    BY <1>3
  <2>2. CASE OpenNew(n)
    <3>1. n \notin present /\ Insert(n, {}) /\ Cardinality(present \ {}) < MaxNamespaces
      <4>1. present \ {} = present
        OBVIOUS
      <4> QED BY <2>2, <4>1 DEF OpenNew
    <3> QED BY <3>1, InsertInv
  <2>3. CASE OpenNewRetiring(n)
    BY <2>3, InsertInv DEF OpenNewRetiring
  <2> QED BY <2>1, <2>2, <2>3
<1>4. CASE \E n \in Namespaces : OpenRefusedRetiring(n)
  BY <1>4, RefusedRetiringInv
<1>5. CASE \/ \E h \in holders, o \in Operations : ReserveIntent(h, o) \/ MarkDispatch(h, o)
           \/ \E h \in holders, o \in Operations, e \in 1..2, dispatched \in BOOLEAN,
                 status \in Terminals \ {"none"} : CommitTerminal(h, o, e, dispatched, status)
  <2>1. PICK h \in holders, o \in Operations, r \in LegalRows :
          Write(h, o, r) /\ Advances(record[h.namespace][o], r)
    BY <1>5, WritesAdvance
  <2>2. RowsInv'
    BY <2>1, WriteInv
  <2>3. record' = [record EXCEPT ![h.namespace][o] = r]
    BY <2>1 DEF Write
  <2>4. \A m \in Namespaces, p \in Operations :
          record'[m][p] = IF m = h.namespace /\ p = o THEN r ELSE record[m][p]
    BY <2>3, Types DEF RowsInv, RowsTypeOK
  <2>5. \A m \in Namespaces, p \in Operations : Advances(record[m][p], record[m][p])
    BY DEF Advances
  <2> QED BY <2>1, <2>2, <2>4, <2>5
<1> QED BY <1>1, <1>2, <1>3, <1>4, <1>5 DEF RowsNext

\* Rows, fences and tombstones agree with one another, whatever the clock does.
THEOREM RowsInvariant == RowsSpec => []RowsInv
BY RowsInitInv, RowsStep, PTL DEF RowsSpec

\* A purged operation id is never admitted again.
THEOREM PurgedForGood == RowsSpec => []PurgedStaysPurged
<1>1. RowsInv => PurgedStaysPurged
  BY DEF RowsInv, PurgedInv, PurgedStaysPurged
<1> QED BY <1>1, RowsInvariant, PTL

\* Only the holder of the latest fence writes.
THEOREM LatestHolderWrites == RowsSpec => []OnlyLatestHolderWrites
<1>1. RowsInv => OnlyLatestHolderWrites
  BY Types DEF RowsInv, FenceInv, OnlyLatestHolderWrites, Admitted
<1> QED BY <1>1, RowsInvariant, PTL

\* Live namespaces stay within the ceiling.
THEOREM CeilingHolds == RowsSpec => []LiveWithinCeiling
<1>1. RowsInv => LiveWithinCeiling
  BY DEF RowsInv, CeilingInv, LiveWithinCeiling, Live, Dead
<1> QED BY <1>1, RowsInvariant, PTL

\* A record moves along its life only.
THEOREM RecordsAdvance == RowsSpec => RecordsOnlyAdvance
<1>1. RowsInv /\ [RowsNext]_recordVars =>
        [\A n \in Namespaces, o \in Operations : Advances(record[n][o], record'[n][o])]_recordVars
  BY RowsStep
<1> QED BY <1>1, RowsInvariant, PTL DEF RowsSpec, RecordsOnlyAdvance, Advances

\* What the rows promise together (journal-sqlite-records.ts).
THEOREM RowsKeepTheirPromise == RowsSpec => RowsHold
BY PurgedForGood, LatestHolderWrites, CeilingHolds, RecordsAdvance, PTL DEF RowsHold

-------------------------------------------------------------------------------
(* The files: what the next owner may find, and what it accepts of that.      *)

\* No two databases end with the same nonce, and no nonce is ahead of the draw.
NoncesAgree ==
  /\ \A d \in Databases \ {NoDatabase} : Last(d) \in 1 .. drawn
  /\ \A a \in Anchors : a.file \in Nat \X Nat => a.file[2] \in 1 .. drawn
  /\ \A d, e \in Databases \ {NoDatabase} : Last(d) = Last(e) => d = e

\* Nothing was acknowledged before the store existed.
OwnerInv ==
  /\ ~owned => storePhase = "down"
  /\ ~owned \/ storePhase \in {"init_owner", "init_reserved"} => acked = {}

Working == {"idle", "begun", "committed", "synced", "pending", "renamed"}

\* The database under the owner has every acknowledged commit, and its last one
\* is acknowledged only when the directory and the anchor are where it needs them.
WorkInv ==
  /\ storePhase \in Working => data # NoDatabase /\ acked \subseteq ToSet(data)
  /\ storePhase = "idle" => AcceptsPair(data, anchor)
  /\ storePhase \in {"committed", "synced", "pending", "renamed"} => Last(data) \notin acked
  /\ storePhase \in {"synced", "pending", "renamed"} => dataDisk = {data}
  /\ storePhase = "renamed" => anchor = [file |-> Witness(data), pending |-> FALSE]

\* What a power loss could still take back was not acknowledged.
SettledInv ==
  /\ dataDisk # {data} => data # NoDatabase /\ Last(data) \notin acked
  /\ anchorDisk # {anchor} /\ ~anchor.pending =>
       anchor.file \in Nat \X Nat /\ anchor.file[2] \notin acked

StoreInv ==
  /\ StoreTypeOK
  /\ NoncesAgree
  /\ OwnerInv
  /\ AcknowledgedKept
  /\ WorkInv
  /\ SettledInv

-----------------------------------------------------------------------------
(* Sequences and witnesses.                                                *)

\* A nonempty database ends in one of its nonces.
LEMMA LastIsIn ==
  ASSUME NEW d \in Seq(Nat), d # NoDatabase
  PROVE  Last(d) \in ToSet(d) /\ Last(d) \in Nat /\ Len(d) \in Nat
<1>1. Len(d) \in Nat \ {0} /\ Len(d) \in DOMAIN d
  BY DEF NoDatabase
<1> QED
  BY <1>1 DEF Last, ToSet

\* A commit adds its nonce at the end and keeps the others.
LEMMA AppendAdds ==
  ASSUME NEW d \in Seq(Nat), NEW n \in Nat
  PROVE  /\ Append(d, n) \in Seq(Nat)
         /\ Append(d, n) # NoDatabase
         /\ Last(Append(d, n)) = n
         /\ ToSet(d) \subseteq ToSet(Append(d, n))
<1>1. Append(d, n) \in Seq(Nat) /\ Len(Append(d, n)) = Len(d) + 1 /\ Len(d) \in Nat
  OBVIOUS
<1>2. \A i \in DOMAIN d : i \in DOMAIN Append(d, n) /\ Append(d, n)[i] = d[i]
  OBVIOUS
<1>3. Append(d, n)[Len(d) + 1] = n
  OBVIOUS
<1>4. Append(d, n) # NoDatabase
  BY <1>1 DEF NoDatabase
<1> QED
  BY <1>1, <1>2, <1>3, <1>4 DEF Last, ToSet

\* A witness names the last nonce and is never one of the anchor's other contents.
LEMMA WitnessNames ==
  ASSUME NEW d \in Seq(Nat), d # NoDatabase
  PROVE  Witness(d) \in Nat \X Nat /\ Witness(d)[2] = Last(d)
BY LastIsIn DEF Witness

LEMMA NoWitness == Absent \notin Nat \X Nat /\ Malformed \notin Nat \X Nat
BY DEF Absent, Malformed

\* An accepted pair agrees on the last nonce.
LEMMA AcceptedNonce ==
  ASSUME NEW d \in Seq(Nat), NEW a, AcceptsPair(d, a)
  PROVE  d # NoDatabase /\ a.file \in Nat \X Nat /\ a.file[2] = Last(d) /\ ~a.pending
BY WitnessNames DEF AcceptsPair

-----------------------------------------------------------------------------
(* One lemma per group of steps.                                           *)

LEMMA StoreInitInv == StoreInit => StoreInv
<1> SUFFICES ASSUME StoreInit PROVE StoreInv
  OBVIOUS
<1>1. Databases = {NoDatabase} /\ Anchors = {[file |-> Absent, pending |-> FALSE]}
  BY DEF StoreInit, Databases, Anchors
<1>2. StoreTypeOK
  <2>1. NoDatabase \in Seq(Nat)
    BY DEF NoDatabase
  <2>2. [file |-> Absent, pending |-> FALSE] \in AnchorState
    BY DEF AnchorState
  <2> QED
    BY <1>1, <2>1, <2>2 DEF StoreInit, StoreTypeOK
<1>3. NoncesAgree
  BY <1>1, NoWitness DEF NoncesAgree
<1>4. OwnerInv /\ AcknowledgedKept /\ WorkInv /\ SettledInv
  BY DEF StoreInit, OwnerInv, AcknowledgedKept, WorkInv, SettledInv, Working
<1> QED
  BY <1>2, <1>3, <1>4 DEF StoreInv

\* A step that leaves what is on disk and what was acknowledged alone.
LEMMA StoreQuietInv ==
  ASSUME StoreInv,
         InitOwner \/ OpenStore \/ CloseStore \/ CloseStoreFails \/ BeginMutation \/ Fail
           \/ Crash \/ Backup
  PROVE  StoreInv'
<1>1. /\ UNCHANGED <<dataVars, anchorVars, drawn, acked>>
      /\ Databases' = Databases /\ Anchors' = Anchors
  BY DEF InitOwner, OpenStore, CloseStore, CloseStoreFails, BeginMutation, Fail, Crash, Backup,
         dataVars, anchorVars, outside, Databases, Anchors
<1>2. StoreTypeOK'
  BY <1>1 DEF StoreInv, StoreTypeOK, InitOwner, OpenStore, CloseStore, CloseStoreFails,
         BeginMutation, Fail, Crash, Backup, outside, Mutating
<1>3. NoncesAgree'
  BY <1>1 DEF StoreInv, NoncesAgree
<1>4. AcknowledgedKept'
  BY <1>1 DEF StoreInv, AcknowledgedKept
<1>5. SettledInv'
  BY <1>1 DEF StoreInv, SettledInv, dataVars, anchorVars
<1>6. OwnerInv'
  BY <1>1 DEF StoreInv, OwnerInv, InitOwner, OpenStore, CloseStore, CloseStoreFails,
         BeginMutation, Fail, Crash, Backup, outside, Mutating
<1>7. WorkInv'
  <2>1. CASE InitOwner \/ CloseStore \/ CloseStoreFails \/ Fail \/ Crash
    BY <2>1 DEF WorkInv, Working, InitOwner, CloseStore, CloseStoreFails, Fail, Crash
  <2>2. CASE Backup
    BY <2>2, <1>1 DEF StoreInv, WorkInv, Working, Backup, dataVars, anchorVars
  <2>3. CASE BeginMutation
    BY <2>3, <1>1 DEF StoreInv, WorkInv, Working, BeginMutation, dataVars, anchorVars
  <2>4. CASE OpenStore
    <3>1. AcceptsPair(data, anchor) /\ acked \subseteq ToSet(data) /\ data # NoDatabase
      BY <2>4 DEF OpenStore, StoreInv, AcknowledgedKept, AcceptsPair, Databases, Anchors
    <3> QED
      BY <2>4, <3>1, <1>1 DEF WorkInv, Working, OpenStore, dataVars, anchorVars
  <2> QED
    BY <2>1, <2>2, <2>3, <2>4
<1> QED
  BY <1>2, <1>3, <1>4, <1>5, <1>6, <1>7 DEF StoreInv

LEMMA InitAnchorInv ==
  ASSUME StoreInv, InitAnchor
  PROVE  StoreInv'
<1>1. /\ anchor' = [file |-> Malformed, pending |-> FALSE]
      /\ Anchors' = {anchor'} /\ Databases' = Databases
  BY DEF InitAnchor, Databases, Anchors, dataVars, outside
<1>2. StoreTypeOK'
  BY <1>1 DEF StoreInv, StoreTypeOK, AnchorState, InitAnchor, outside, Mutating
<1>3. NoncesAgree'
  BY <1>1, NoWitness DEF StoreInv, NoncesAgree, InitAnchor, outside
<1>4. acked' = {}
  BY DEF StoreInv, OwnerInv, InitAnchor
<1>5. OwnerInv' /\ AcknowledgedKept' /\ WorkInv' /\ SettledInv'
  BY <1>1, <1>4 DEF StoreInv, OwnerInv, AcknowledgedKept, WorkInv, SettledInv, Working, InitAnchor,
         dataVars, outside
<1> QED
  BY <1>2, <1>3, <1>5 DEF StoreInv

\* A new database ends with a nonce no other database and no anchor has.
LEMMA CommitInv ==
  ASSUME StoreInv, Commit \/ CommitThrows
  PROVE  StoreInv'
<1> DEFINE new == Append(data, drawn + 1)
<1>1. /\ storePhase \in {"begun", "init_reserved"} /\ storePhase' \in {"committed", "sealed"}
      /\ drawn' = drawn + 1 /\ data' = new /\ dataDisk' = dataDisk \cup {new}
      /\ UNCHANGED <<owned, anchor, anchorDisk, acked, backups>>
  BY DEF Commit, CommitThrows, Committed, anchorVars
<1>2. /\ data \in Seq(Nat) /\ drawn \in Nat
      /\ new \in Seq(Nat) /\ new # NoDatabase /\ Last(new) = drawn + 1
      /\ ToSet(data) \subseteq ToSet(new)
  BY AppendAdds DEF StoreInv, StoreTypeOK, Databases
<1>3. Databases' \subseteq Databases \cup {new} /\ Anchors' = Anchors
  BY <1>1 DEF Databases, Anchors
<1> HIDE DEF new
<1>4. StoreTypeOK'
  BY <1>1, <1>2, <1>3 DEF StoreInv, StoreTypeOK, Mutating
<1>5. NoncesAgree'
  <2>1. \A d \in Databases \ {NoDatabase} : Last(d) \in 1 .. drawn
    BY DEF StoreInv, NoncesAgree
  <2>2. \A d \in Databases' \ {NoDatabase} : d = new \/ Last(d) \in 1 .. drawn
    BY <1>3, <2>1
  <2>3. \A d, e \in Databases' \ {NoDatabase} : Last(d) = Last(e) => d = e
    BY <1>2, <1>3, <2>1, <2>2 DEF StoreInv, NoncesAgree
  <2> QED
    BY <1>1, <1>2, <1>3, <2>2, <2>3 DEF StoreInv, NoncesAgree
<1>6. acked' = acked /\ acked \subseteq ToSet(new) /\ Last(new) \notin acked
  BY <1>1, <1>2 DEF StoreInv, StoreTypeOK, OwnerInv, WorkInv, Working
<1>7. OwnerInv'
  BY <1>1 DEF StoreInv, OwnerInv
<1>8. AcknowledgedKept'
  BY <1>3, <1>6 DEF StoreInv, AcknowledgedKept
<1>9. WorkInv' /\ SettledInv'
  BY <1>1, <1>2, <1>6 DEF StoreInv, WorkInv, SettledInv, Working
<1> QED
  BY <1>4, <1>5, <1>7, <1>8, <1>9 DEF StoreInv

LEMMA SyncInv ==
  ASSUME StoreInv, SyncDirectory
  PROVE  StoreInv'
<1>1. Databases' \subseteq Databases /\ Anchors' = Anchors
  BY DEF SyncDirectory, Databases, Anchors, anchorVars, outside
<1>2. StoreTypeOK' /\ NoncesAgree' /\ AcknowledgedKept'
  BY <1>1 DEF StoreInv, StoreTypeOK, NoncesAgree, AcknowledgedKept, SyncDirectory, outside, Mutating
<1>3. OwnerInv' /\ WorkInv' /\ SettledInv'
  BY DEF StoreInv, OwnerInv, WorkInv, SettledInv, Working, SyncDirectory, anchorVars, outside
<1> QED
  BY <1>2, <1>3 DEF StoreInv

LEMMA CreatePendingInv ==
  ASSUME StoreInv, CreatePending
  PROVE  StoreInv'
<1>1. /\ Anchors' \subseteq Anchors \cup {anchor'} /\ Databases' = Databases
      /\ anchor' \in AnchorState /\ anchor'.file = anchor.file /\ anchor'.pending = TRUE
  <2>1. anchor \in AnchorState
    BY DEF StoreInv, StoreTypeOK, Anchors
  <2>2. anchor' \in AnchorState /\ anchor'.file = anchor.file /\ anchor'.pending = TRUE
    BY <2>1 DEF CreatePending, AnchorState
  <2>3. Anchors' \subseteq Anchors \cup {anchor'} /\ Databases' = Databases
    BY DEF CreatePending, Databases, Anchors, dataVars, outside
  <2> QED
    BY <2>2, <2>3
<1>2. StoreTypeOK'
  BY <1>1 DEF StoreInv, StoreTypeOK, CreatePending, outside, Mutating
<1>3. NoncesAgree'
  BY <1>1 DEF StoreInv, NoncesAgree, CreatePending, outside, Anchors
<1>4. AcknowledgedKept'
  BY <1>1 DEF StoreInv, AcknowledgedKept, CreatePending, AcceptsPair
<1>5. OwnerInv' /\ WorkInv' /\ SettledInv'
  BY <1>1 DEF StoreInv, OwnerInv, WorkInv, SettledInv, Working, CreatePending, dataVars, outside
<1> QED
  BY <1>2, <1>3, <1>4, <1>5 DEF StoreInv

\* The renamed anchor accepts the one database that ends with its nonce.
LEMMA RenameInv ==
  ASSUME StoreInv, Rename
  PROVE  StoreInv'
<1>1. /\ anchor' = [file |-> Witness(data), pending |-> FALSE]
      /\ Anchors' \subseteq Anchors \cup {anchor'} /\ Databases' = Databases
  BY DEF Rename, Databases, Anchors, dataVars, outside
<1>2. /\ data \in Databases /\ data \in Seq(Nat) /\ data # NoDatabase /\ acked \subseteq ToSet(data)
      /\ Last(data) \notin acked /\ dataDisk = {data}
  BY DEF StoreInv, StoreTypeOK, WorkInv, Working, Rename, Databases
<1>3. Witness(data) \in Nat \X Nat /\ Witness(data)[2] = Last(data)
  BY <1>2, WitnessNames
<1>4. StoreTypeOK'
  <2>1. anchor' \in AnchorState
    BY <1>1, <1>3 DEF AnchorState
  <2> QED
    BY <1>1, <2>1 DEF StoreInv, StoreTypeOK, Rename, outside, Mutating
<1>5. NoncesAgree'
  BY <1>1, <1>2, <1>3 DEF StoreInv, NoncesAgree, Rename, outside
<1>6. AcknowledgedKept'
  <2> SUFFICES ASSUME NEW d \in Databases, AcceptsPair(d, anchor')
               PROVE  acked \subseteq ToSet(d)
    BY <1>1 DEF StoreInv, AcknowledgedKept, Rename
  <2>1. d \in Seq(Nat) /\ d # NoDatabase /\ Last(d) = Last(data)
    BY <1>1, <1>3, AcceptedNonce DEF StoreInv, StoreTypeOK
  <2>2. d = data
    BY <1>2, <2>1 DEF StoreInv, NoncesAgree
  <2> QED
    BY <1>2, <2>2
<1>7. OwnerInv' /\ WorkInv' /\ SettledInv'
  BY <1>1, <1>2, <1>3 DEF StoreInv, OwnerInv, WorkInv, SettledInv, Working, Rename, dataVars,
         outside
<1> QED
  BY <1>4, <1>5, <1>6, <1>7 DEF StoreInv

LEMMA AcknowledgeInv ==
  ASSUME StoreInv, AcknowledgeCommit
  PROVE  StoreInv'
<1>1. /\ acked' = acked \cup {Last(data)} /\ anchor' = anchor /\ anchorDisk' = {anchor}
      /\ Anchors' = {anchor} /\ Databases' = Databases
      /\ UNCHANGED <<data, dataDisk, owned, drawn, backups>> /\ storePhase' = "idle"
  BY DEF AcknowledgeCommit, Databases, Anchors, dataVars, outside
<1>2. /\ data \in Databases /\ data \in Seq(Nat) /\ data # NoDatabase /\ acked \subseteq ToSet(data)
      /\ dataDisk = {data} /\ anchor = [file |-> Witness(data), pending |-> FALSE]
      /\ anchor \in Anchors
  BY DEF StoreInv, StoreTypeOK, WorkInv, Working, AcknowledgeCommit, Databases, Anchors
<1>3. Last(data) \in ToSet(data) /\ Last(data) \in 1 .. drawn /\ Witness(data) \in Nat \X Nat
      /\ Witness(data)[2] = Last(data)
  BY <1>2, LastIsIn, WitnessNames DEF StoreInv, NoncesAgree
<1>4. StoreTypeOK'
  BY <1>1, <1>2, <1>3 DEF StoreInv, StoreTypeOK
<1>5. NoncesAgree'
  BY <1>1, <1>2 DEF StoreInv, NoncesAgree
<1>6. AcknowledgedKept'
  <2> SUFFICES ASSUME NEW d \in Databases, AcceptsPair(d, anchor)
               PROVE  acked' \subseteq ToSet(d)
    BY <1>1 DEF AcknowledgedKept
  <2>1. d \in Seq(Nat) /\ d # NoDatabase /\ Last(d) = Last(data)
    BY <1>2, <1>3, AcceptedNonce DEF StoreInv, StoreTypeOK
  <2>2. d = data
    BY <1>2, <2>1 DEF StoreInv, NoncesAgree
  <2> QED
    BY <1>1, <1>2, <1>3, <2>2
<1>7. OwnerInv' /\ WorkInv' /\ SettledInv'
  BY <1>1, <1>2, <1>3 DEF StoreInv, OwnerInv, WorkInv, SettledInv, Working, AcceptsPair,
         AcknowledgeCommit
<1> QED
  BY <1>4, <1>5, <1>6, <1>7 DEF StoreInv

\* What is left after a power loss, or put back, was among what could be found.
LEMMA LossInv ==
  ASSUME StoreInv, PowerLoss \/ \E d \in backups : Restore(d)
  PROVE  StoreInv'
<1>1. /\ Databases' \subseteq Databases /\ Anchors' \subseteq Anchors
      /\ storePhase' = "down" /\ dataDisk' = {data'}
      /\ UNCHANGED <<owned, drawn, acked>>
      /\ anchorDisk' = {anchor'} \/ UNCHANGED <<anchor, anchorDisk>>
  BY DEF PowerLoss, Restore, Databases, Anchors, anchorVars, outside
<1>2. StoreTypeOK' /\ NoncesAgree' /\ AcknowledgedKept'
  BY <1>1 DEF StoreInv, StoreTypeOK, NoncesAgree, AcknowledgedKept
<1>3. OwnerInv' /\ WorkInv' /\ SettledInv'
  BY <1>1 DEF StoreInv, OwnerInv, WorkInv, SettledInv, Working
<1> QED
  BY <1>2, <1>3 DEF StoreInv

LEMMA StoreStepInv == StoreInv /\ [StoreNext]_storeVars => StoreInv'
<1> SUFFICES ASSUME StoreInv, [StoreNext]_storeVars PROVE StoreInv'
  OBVIOUS
<1>1. CASE UNCHANGED storeVars
  BY <1>1 DEF storeVars, StoreInv, StoreTypeOK, NoncesAgree, OwnerInv, AcknowledgedKept, WorkInv,
         SettledInv, Databases, Anchors
<1>2. CASE StoreNext
  BY <1>2, StoreQuietInv, InitAnchorInv, CommitInv, SyncInv, CreatePendingInv, RenameInv,
     AcknowledgeInv,
     LossInv DEF StoreNext
<1> QED
  BY <1>1, <1>2

\* Every reachable state of the store: nonces name one database each, and the owner
\* works on one that has every acknowledged commit.
THEOREM StoreInvariant == StoreSpec => []StoreInv
BY StoreInitInv, StoreStepInv, PTL DEF StoreSpec

\* An acknowledged commit survives every crash, power loss and restored backup, and a
\* settled store can be opened after any of them (journal-sqlite-store.ts, mutate and
\* openJournalSqliteStore).
THEOREM CommitsSurvive == StoreSpec => []AcknowledgedSurvives
<1>1. StoreInv => AcknowledgedSurvives
  <2> SUFFICES ASSUME StoreInv PROVE AcknowledgedReopens
    BY DEF StoreInv, AcknowledgedSurvives
  <2> SUFFICES ASSUME storePhase = "idle", Last(data) \in acked
               PROVE  \A d \in dataDisk, a \in anchorDisk : AcceptsPair(d, a)
    BY DEF AcknowledgedReopens
  <2>1. AcceptsPair(data, anchor) /\ data \in Seq(Nat)
    BY DEF StoreInv, WorkInv, StoreTypeOK, Databases
  <2>2. anchor.file[2] = Last(data) /\ ~anchor.pending
    BY <2>1, AcceptedNonce
  <2>3. dataDisk = {data} /\ anchorDisk = {anchor}
    BY <2>2 DEF StoreInv, SettledInv
  <2> QED
    BY <2>1, <2>3
<1> QED
  BY <1>1, StoreInvariant, PTL

-----------------------------------------------------------------------------
(* The operator's recovery (JournalRecovery).                              *)

\* What the state s of a record, the place u of its own run and whether its effect
\* happened, e, say of one another.
Agrees(s, u, e) ==
  /\ s \in {"absent", "intent", "closed", "rejected"} => ~e
  /\ s = "committed" => e
  /\ u = "marked" => s \in {"dispatched", "unknown"} /\ ~e

\* Every record that could be acted on when a call began, and still can, is in a
\* namespace the call has yet to search, could not read, or found it in.
Covered(q, k) ==
  \A r \in k :
    /\ kept[r] # "absent"
    /\ q.at = "search" /\ r \in Actionable =>
         \/ NamespaceOf[r] \in q.left \cup q.unread \cup Refusals
         \/ \E f \in q.found : f.id = r
    /\ q.at = "answered" /\ q.kind = "absent" => r \notin Actionable

\* A call's writes stand: nothing rewrites what was settled.
Stands(q) ==
  /\ q.at \in {"idle", "search", "lost"} => q.wrote = {}
  /\ \A r \in q.wrote : kept[r] \in Writes(q.verb)

RecoveryInv ==
  /\ RecoveryTypeOK
  /\ \A r \in Records : Agrees(kept[r], run[r], effect[r])
  /\ \A c \in RecoveryCalls : recovery[c].at = "search" => up
  /\ \A c \in RecoveryCalls : Covered(recovery[c], known[c]) /\ Stands(recovery[c])

-----------------------------------------------------------------------------
\* A record moves from one that is not settled, and is there ever after.
Moved(was, is) == is = was \/ (was \in {"absent", "intent", "dispatched"} /\ is # "absent")

LEMMA WriteEffect ==
  ASSUME RecoveryTypeOK, NEW r \in Records, NEW expected, NEW value \in RecordStates,
         ConditionalWrite(r, expected, value)
  PROVE  /\ kept' \in [Records -> RecordStates]
         /\ journalHealth' \in [Configured -> {"open", "lost"}]
         /\ \A s \in Records \ {r} : kept'[s] = kept[s]
         /\ kept'[r] = kept[r] \/ (kept[r] = expected /\ kept'[r] = value)
         /\ Acknowledged(r, value) => kept[r] = expected /\ kept'[r] = value
<1>1. NamespaceOf[r] \in Configured
  BY RecoveryAssumption
<1>2. [journalHealth EXCEPT ![NamespaceOf[r]] = "lost"] \in [Configured -> {"open", "lost"}]
  BY <1>1 DEF RecoveryTypeOK
<1>3. journalHealth' \in [Configured -> {"open", "lost"}]
  BY <1>2 DEF RecoveryTypeOK, ConditionalWrite
<1>4. kept' = kept \/ (kept[r] = expected /\ kept' = [kept EXCEPT ![r] = value])
  BY DEF ConditionalWrite
<1>5. kept' \in [Records -> RecordStates] /\ \A s \in Records \ {r} : kept'[s] = kept[s]
  BY <1>4 DEF RecoveryTypeOK
<1>6. kept'[r] = kept[r] \/ (kept[r] = expected /\ kept'[r] = value)
  BY <1>4 DEF RecoveryTypeOK
<1>7. Acknowledged(r, value) => kept[r] = expected /\ kept'[r] = value
  BY <1>4 DEF Acknowledged
<1>. QED BY <1>3, <1>5, <1>6, <1>7

\* What a call knows and wrote stands while records only move on.
LEMMA CallKept ==
  ASSUME RecoveryInv, UNCHANGED <<journal, known>>, NEW c \in RecoveryCalls,
         recovery'[c] = recovery[c], \A r \in Records : Moved(kept[r], kept'[r])
  PROVE  Covered(recovery[c], known[c])' /\ Stands(recovery[c])'
<1>. DEFINE q == recovery[c]
            k == known[c]
<1>1. q \in RecoveryCall /\ k \in SUBSET Records /\ Covered(q, k) /\ Stands(q)
  BY DEF RecoveryInv, RecoveryTypeOK
<1>2. recovery'[c] = q /\ known'[c] = k /\ Refusals' = Refusals
  BY DEF Refusals
<1>3. \A r \in k : r \in Records /\ kept[r] # "absent"
  BY <1>1 DEF Covered
<1>4. \A r \in k : kept'[r] # "absent" /\ (r \in Actionable' => r \in Actionable)
  BY <1>3 DEF Moved, Actionable
<1>5. \A r \in q.wrote : r \in Records /\ kept[r] \in Writes(q.verb)
  BY <1>1 DEF Stands, RecoveryCall
<1>6. Writes(q.verb) \cap {"absent", "intent", "dispatched"} = {}
  BY DEF Writes
<1>7. \A r \in q.wrote : kept'[r] \in Writes(q.verb)
  BY <1>5, <1>6 DEF Moved
<1>. HIDE DEF q, k
<1>8. Covered(recovery[c], known[c])'
  BY <1>1, <1>2, <1>4 DEF Covered
<1>9. Stands(recovery[c])'
  BY <1>1, <1>2, <1>7 DEF Stands
<1>. QED BY <1>8, <1>9

\* One call takes another record, and nothing else changes.
LEMMA CallMoves ==
  ASSUME RecoveryInv, NEW c \in RecoveryCalls, NEW q \in RecoveryCall,
         recovery' = [recovery EXCEPT ![c] = q], q.at = "search" => up,
         UNCHANGED <<up, starts, journal, journalHealth, horizon, kept, run, effect, known>>,
         Covered(q, known[c]), Stands(q)
  PROVE  RecoveryInv'
<1>1. /\ recovery' \in [RecoveryCalls -> RecoveryCall] /\ recovery'[c] = q
      /\ \A d \in RecoveryCalls \ {c} : recovery'[d] = recovery[d]
  BY DEF RecoveryInv, RecoveryTypeOK
<1>2. RecoveryTypeOK'
  BY <1>1 DEF RecoveryInv, RecoveryTypeOK
<1>3. \A r \in Records : Agrees(kept[r], run[r], effect[r])'
  BY DEF RecoveryInv
<1>4. \A d \in RecoveryCalls : recovery'[d].at = "search" => up'
  BY <1>1 DEF RecoveryInv
<1>5. \A d \in RecoveryCalls \ {c} : Covered(recovery[d], known[d])' /\ Stands(recovery[d])'
  <2>. SUFFICES ASSUME NEW d \in RecoveryCalls \ {c}
                PROVE  Covered(recovery[d], known[d])' /\ Stands(recovery[d])'
    OBVIOUS
  <2>. QED BY <1>1, CallKept DEF Moved
<1>6. Covered(recovery[c], known[c])' /\ Stands(recovery[c])'
  BY <1>1 DEF Covered, Stands, Actionable, Refusals
<1>. QED BY <1>2, <1>3, <1>4, <1>5, <1>6 DEF RecoveryInv

\* An answer of a call that has begun its search or its writes.
LEMMA AnswerRecord ==
  ASSUME RecoveryInv, NEW c \in RecoveryCalls,
         NEW what \in {"unavailable", "absent", "unread", "conflict", "done"}, Answer(c, what)
  PROVE  \E q \in RecoveryCall :
           /\ recovery' = [recovery EXCEPT ![c] = q]
           /\ q.at = "answered" /\ q.kind = what /\ q.verb = recovery[c].verb
           /\ q.wrote = recovery[c].wrote
<1>. DEFINE q == [NoCall EXCEPT !.at = "answered", !.kind = what,
                                !.verb = recovery[c].verb, !.wrote = recovery[c].wrote]
<1>1. recovery[c] \in RecoveryCall
  BY DEF RecoveryInv, RecoveryTypeOK
<1>2. /\ q \in RecoveryCall /\ q.at = "answered" /\ q.kind = what /\ q.verb = recovery[c].verb
      /\ q.wrote = recovery[c].wrote
  BY <1>1 DEF NoCall, RecoveryCall
<1>3. recovery' = [recovery EXCEPT ![c] = q]
  BY DEF Answer
<1>. QED BY <1>2, <1>3

-----------------------------------------------------------------------------
RunStates == {"none", "reserved", "marked", "completed", "failed", "over"}

\* A conditional write that leaves its record and its run in agreement.
LEMMA WriteKeeps ==
  ASSUME RecoveryInv, NEW r \in Records, NEW expected \in {"absent", "intent", "dispatched"},
         NEW value \in RecordStates \ {"absent"}, ConditionalWrite(r, expected, value),
         NEW u \in RunStates, run' = [run EXCEPT ![r] = u], Agrees(kept'[r], u, effect[r]),
         UNCHANGED <<up, starts, journal, horizon, effect, known>>
  PROVE  /\ recovery' \in [RecoveryCalls -> RecoveryCall] => RecoveryTypeOK'
         /\ \A s \in Records : Agrees(kept[s], run[s], effect[s])'
         /\ \A c \in RecoveryCalls : recovery'[c] = recovery[c]
              => Covered(recovery[c], known[c])' /\ Stands(recovery[c])'
<1>1. /\ kept' \in [Records -> RecordStates]
      /\ journalHealth' \in [Configured -> {"open", "lost"}]
      /\ \A s \in Records \ {r} : kept'[s] = kept[s]
      /\ kept'[r] = kept[r] \/ (kept[r] = expected /\ kept'[r] = value)
  BY WriteEffect DEF RecoveryInv
<1>2. /\ run' \in [Records -> RunStates] /\ run'[r] = u
      /\ \A s \in Records \ {r} : run'[s] = run[s]
  BY DEF RecoveryInv, RecoveryTypeOK, RunStates
<1>3. recovery' \in [RecoveryCalls -> RecoveryCall] => RecoveryTypeOK'
  BY <1>1, <1>2 DEF RecoveryInv, RecoveryTypeOK, RunStates
<1>4. \A s \in Records : Agrees(kept[s], run[s], effect[s])'
  BY <1>1, <1>2 DEF RecoveryInv
<1>5. \A s \in Records : Moved(kept[s], kept'[s])
  BY <1>1 DEF Moved
<1>6. \A c \in RecoveryCalls : recovery'[c] = recovery[c]
        => Covered(recovery[c], known[c])' /\ Stands(recovery[c])'
  BY <1>5, CallKept
<1>. QED BY <1>3, <1>4, <1>6

LEMMA RunStep ==
  ASSUME RecoveryInv, NEW r \in Records,
         Reserve(r) \/ RunMarks(r) \/ CommitResult(r)
  PROVE  RecoveryInv'
<1>1. Agrees(kept[r], run[r], effect[r]) /\ recovery \in [RecoveryCalls -> RecoveryCall]
      /\ \A c \in RecoveryCalls : recovery[c].at = "search" => up
  BY DEF RecoveryInv, RecoveryTypeOK
<1>2. ASSUME NEW expect \in {"absent", "intent", "dispatched"},
             NEW value \in RecordStates \ {"absent"}, ConditionalWrite(r, expect, value),
             NEW u \in RunStates, run' = [run EXCEPT ![r] = u],
             Agrees(kept'[r], u, effect[r]),
             UNCHANGED <<up, starts, journal, horizon, effect, recovery, known>>
      PROVE  RecoveryInv'
  <2>1. /\ RecoveryTypeOK' /\ \A s \in Records : Agrees(kept[s], run[s], effect[s])'
        /\ \A c \in RecoveryCalls : Covered(recovery[c], known[c])' /\ Stands(recovery[c])'
    BY <1>1, <1>2, WriteKeeps
  <2>2. \A c \in RecoveryCalls : recovery'[c].at = "search" => up'
    BY <1>1, <1>2
  <2>. QED BY <2>1, <2>2 DEF RecoveryInv
<1>3. CASE Reserve(r)
  <2>. DEFINE u == IF Acknowledged(r, "intent") THEN "reserved" ELSE "none"
  <2>1. /\ ConditionalWrite(r, "absent", "intent") /\ run' = [run EXCEPT ![r] = u]
        /\ u \in RunStates /\ u # "marked" /\ kept[r] = "absent"
        /\ UNCHANGED <<up, starts, journal, horizon, effect, recovery, known>>
    BY <1>3 DEF Reserve, RunStates
  <2>2. "intent" \in RecordStates \ {"absent"}
    BY DEF RecordStates
  <2>3. kept'[r] \in {"absent", "intent"}
    BY <2>1, <2>2, WriteEffect DEF RecoveryInv
  <2>4. Agrees(kept'[r], u, effect[r])
    BY <1>1, <2>1, <2>3 DEF Agrees
  <2>. QED BY <1>2, <2>1, <2>2, <2>4
<1>4. CASE RunMarks(r)
  <2>. DEFINE u == IF Acknowledged(r, "dispatched") THEN "marked" ELSE "over"
  <2>1. /\ ConditionalWrite(r, "intent", "dispatched") /\ run' = [run EXCEPT ![r] = u]
        /\ u \in RunStates
        /\ UNCHANGED <<up, starts, journal, horizon, effect, recovery, known>>
    BY <1>4 DEF RunMarks, RunStates
  <2>2. "dispatched" \in RecordStates \ {"absent"}
    BY DEF RecordStates
  <2>3. /\ kept'[r] = kept[r] \/ (kept[r] = "intent" /\ kept'[r] = "dispatched")
        /\ Acknowledged(r, "dispatched") => kept[r] = "intent" /\ kept'[r] = "dispatched"
    BY <2>1, <2>2, WriteEffect DEF RecoveryInv
  <2>4. Agrees(kept'[r], u, effect[r])
    BY <1>1, <2>1, <2>3 DEF Agrees
  <2>. QED BY <1>2, <2>1, <2>2, <2>4
<1>5. CASE CommitResult(r)
  <2>1. /\ ConditionalWrite(r, "dispatched", run[r]) /\ run' = [run EXCEPT ![r] = "over"]
        /\ run[r] \in {"completed", "failed"} /\ "over" \in RunStates
        /\ UNCHANGED <<up, starts, journal, horizon, effect, recovery, known>>
    BY <1>5 DEF CommitResult, RunStates
  <2>2. run[r] \in RecordStates \ {"absent"}
    BY <2>1 DEF RecordStates
  <2>3. kept'[r] = kept[r] \/ kept'[r] \in {"completed", "failed"}
    BY <2>1, <2>2, WriteEffect DEF RecoveryInv
  <2>4. Agrees(kept'[r], "over", effect[r])
    BY <1>1, <2>3 DEF Agrees
  <2>. QED BY <1>2, <2>1, <2>2, <2>4
<1>. QED BY <1>3, <1>4, <1>5

\* The effect of a marked run, the clock, a start and a crash.
LEMMA QuietStep ==
  ASSUME RecoveryInv,
         \/ Start \/ StartAborted \/ ServiceCrash
         \/ \E n \in Configured : HorizonPasses(n)
         \/ \E r \in Records : Effect(r)
  PROVE  RecoveryInv'
<1>1. CASE StartAborted \/ \E n \in Configured : HorizonPasses(n)
  <2>1. /\ UNCHANGED <<up, journal, journalHealth, kept, run, effect, recovery, known>>
        /\ starts' \in Nat
        /\ horizon' \in [Configured -> {"ahead", "past"}]
    BY <1>1 DEF StartAborted, HorizonPasses, RecoveryInv, RecoveryTypeOK
  <2>2. RecoveryTypeOK'
    BY <2>1 DEF RecoveryInv, RecoveryTypeOK
  <2>3. \A c \in RecoveryCalls : Covered(recovery[c], known[c])' /\ Stands(recovery[c])'
    BY <2>1, CallKept DEF Moved
  <2>. QED BY <2>1, <2>2, <2>3 DEF RecoveryInv
<1>2. CASE \E r \in Records : Effect(r)
  <2>1. PICK r \in Records : Effect(r)
    BY <1>2
  <2>2. /\ run[r] = "marked" /\ Agrees(kept[r], run[r], effect[r])
        /\ UNCHANGED <<up, starts, journal, journalHealth, horizon, kept, recovery, known>>
    BY <2>1 DEF Effect, RecoveryInv
  <2>3. /\ run' \in [Records -> RunStates] /\ run'[r] \in {"completed", "failed"}
        /\ effect' \in [Records -> BOOLEAN]
        /\ \A s \in Records \ {r} : run'[s] = run[s] /\ effect'[s] = effect[s]
    <3>1. run \in [Records -> RunStates] /\ effect \in [Records -> BOOLEAN]
      BY DEF RecoveryInv, RecoveryTypeOK, RunStates
    <3>2. CASE effect' = [effect EXCEPT ![r] = TRUE] /\ run' = [run EXCEPT ![r] = "completed"]
      BY <3>1, <3>2 DEF RunStates
    <3>3. CASE run' = [run EXCEPT ![r] = "failed"] /\ UNCHANGED effect
      BY <3>1, <3>3 DEF RunStates
    <3>. QED BY <2>1, <3>2, <3>3 DEF Effect
  <2>4. RecoveryTypeOK'
    BY <2>2, <2>3 DEF RecoveryInv, RecoveryTypeOK, RunStates
  <2>5. \A s \in Records : Agrees(kept[s], run[s], effect[s])'
    BY <2>2, <2>3 DEF Agrees, RecoveryInv
  <2>6. \A c \in RecoveryCalls : Covered(recovery[c], known[c])' /\ Stands(recovery[c])'
    BY <2>2, CallKept DEF Moved
  <2>. QED BY <2>2, <2>4, <2>5, <2>6 DEF RecoveryInv
<1>3. CASE Start
  <2>1. /\ ~up /\ up' = TRUE /\ starts' \in Nat
        /\ journal' \in [Configured -> {"none", "full", "recover", "refused"}]
        /\ journalHealth' \in [Configured -> {"open", "lost"}]
        /\ UNCHANGED <<horizon, kept, run, effect, recovery, known>>
    BY <1>3 DEF Start, RecoveryInv, RecoveryTypeOK
  <2>2. RecoveryTypeOK'
    BY <2>1 DEF RecoveryInv, RecoveryTypeOK
  <2>3. \A c \in RecoveryCalls : recovery[c].at # "search"
    BY <2>1 DEF RecoveryInv
  <2>4. \A c \in RecoveryCalls : Covered(recovery[c], known[c])' /\ Stands(recovery[c])'
    BY <2>1, <2>3 DEF RecoveryInv, Covered, Stands, Actionable
  <2>. QED BY <2>1, <2>2, <2>4 DEF RecoveryInv
<1>4. CASE ServiceCrash
  <2>. DEFINE Left(c) == IF recovery[c].at = "answered" THEN recovery[c]
                         ELSE [NoCall EXCEPT !.at = "lost"]
  <2>1. /\ up' = FALSE /\ run' = [r \in Records |-> "none"]
        /\ journal' = [n \in Configured |-> "none"]
        /\ recovery' = [c \in RecoveryCalls |-> Left(c)]
        /\ UNCHANGED <<starts, journalHealth, horizon, kept, effect, known>>
    BY <1>4 DEF ServiceCrash
  <2>2. [NoCall EXCEPT !.at = "lost"] \in RecoveryCall
        /\ [NoCall EXCEPT !.at = "lost"].at = "lost" /\ [NoCall EXCEPT !.at = "lost"].wrote = {}
    BY DEF NoCall, RecoveryCall
  <2>3. \A c \in RecoveryCalls :
          /\ Left(c) \in RecoveryCall /\ Left(c).at \in {"answered", "lost"}
          /\ Left(c).at = "answered" => Left(c) = recovery[c]
          /\ Left(c).at = "lost" => Left(c).wrote = {}
    BY <2>2 DEF RecoveryInv, RecoveryTypeOK
  <2>. HIDE DEF Left
  <2>4. RecoveryTypeOK'
    BY <2>1, <2>3 DEF RecoveryInv, RecoveryTypeOK
  <2>5. \A r \in Records : Agrees(kept[r], run[r], effect[r])'
    BY <2>1 DEF RecoveryInv, Agrees
  <2>6. \A c \in RecoveryCalls : recovery'[c] = Left(c)
    BY <2>1
  <2>7. \A c \in RecoveryCalls : Covered(recovery[c], known[c])'
    BY <2>1, <2>3, <2>6 DEF RecoveryInv, Covered, Actionable
  <2>8. \A c \in RecoveryCalls : Stands(recovery[c])'
    BY <2>1, <2>3, <2>6 DEF RecoveryInv, Stands
  <2>9. \A c \in RecoveryCalls : recovery'[c].at = "search" => up'
    BY <2>3, <2>6
  <2>. QED BY <2>4, <2>5, <2>7, <2>8, <2>9 DEF RecoveryInv
<1>. QED BY <1>1, <1>2, <1>3, <1>4

LEMMA BeginStep ==
  ASSUME RecoveryInv, NEW c \in RecoveryCalls, NEW verb \in {"close", "settle", "reconcile"},
         BeginCall(c, verb)
  PROVE  RecoveryInv'
<1>1. /\ recovery[c] \in RecoveryCall /\ recovery[c].at = "idle" /\ up
      /\ Covered(recovery[c], known[c]) /\ Stands(recovery[c])
      /\ UNCHANGED <<up, starts, journal, journalHealth, horizon, kept, run, effect>>
  BY DEF BeginCall, RecoveryInv, RecoveryTypeOK
<1>2. CASE Answer(c, "unavailable") /\ UNCHANGED known
  <2>1. PICK q \in RecoveryCall :
           /\ recovery' = [recovery EXCEPT ![c] = q]
           /\ q.at = "answered" /\ q.kind = "unavailable" /\ q.verb = recovery[c].verb
           /\ q.wrote = recovery[c].wrote
    BY <1>2, AnswerRecord
  <2>2. Covered(q, known[c]) /\ Stands(q)
    BY <1>1, <2>1 DEF Covered, Stands
  <2>. QED BY <1>1, <1>2, <2>1, <2>2, CallMoves
<1>3. ASSUME recovery' = [recovery EXCEPT
               ![c].at = "search", ![c].verb = verb, ![c].left = Searched],
             known' = [known EXCEPT ![c] = {r \in Actionable : journal[NamespaceOf[r]] # "none"}]
      PROVE  RecoveryInv'
  <2>. DEFINE q == [recovery[c] EXCEPT !.at = "search", !.verb = verb, !.left = Searched]
              k == {r \in Actionable : journal[NamespaceOf[r]] # "none"}
  <2>1. Searched \in SUBSET Configured /\ k \in SUBSET Records
    BY DEF Searched, Actionable
  <2>2. /\ q \in RecoveryCall /\ q.at = "search" /\ q.left = Searched
        /\ q.wrote = recovery[c].wrote
    BY <1>1, <2>1 DEF RecoveryCall
  <2>3. /\ recovery' = [recovery EXCEPT ![c] = q]
        /\ known' = [known EXCEPT ![c] = k]
    BY <1>1, <1>3 DEF RecoveryCall
  <2>4. Stands(q)
    BY <1>1, <2>2 DEF Stands
  <2>5. Covered(q, k)
    <3>1. \A r \in k : r \in Records /\ kept[r] # "absent"
      BY DEF Actionable
    <3>2. \A r \in k : NamespaceOf[r] \in Searched \cup Refusals
      BY <3>1, RecoveryAssumption DEF Searched, Refusals, RecoveryInv, RecoveryTypeOK
    <3>. HIDE DEF q, k
    <3>. QED BY <2>2, <3>1, <3>2 DEF Covered
  <2>. HIDE DEF q, k
  <2>6. /\ recovery' \in [RecoveryCalls -> RecoveryCall] /\ recovery'[c] = q
        /\ known' \in [RecoveryCalls -> SUBSET Records] /\ known'[c] = k
        /\ \A d \in RecoveryCalls \ {c} : recovery'[d] = recovery[d] /\ known'[d] = known[d]
    BY <2>1, <2>2, <2>3 DEF RecoveryInv, RecoveryTypeOK
  <2>7. RecoveryTypeOK' /\ \A r \in Records : Agrees(kept[r], run[r], effect[r])'
    BY <1>1, <2>6 DEF RecoveryInv, RecoveryTypeOK
  <2>8. \A d \in RecoveryCalls : recovery'[d].at = "search" => up'
    BY <1>1
  <2>9. \A d \in RecoveryCalls : Covered(recovery[d], known[d])' /\ Stands(recovery[d])'
    <3>1. /\ \A d \in RecoveryCalls \ {c} : Covered(recovery'[d], known'[d]) /\ Stands(recovery'[d])
          /\ Covered(recovery'[c], known'[c]) /\ Stands(recovery'[c])
      BY <2>4, <2>5, <2>6 DEF RecoveryInv
    <3>. QED BY <1>1, <3>1 DEF Covered, Stands, Actionable, Refusals
  <2>. QED BY <2>7, <2>8, <2>9 DEF RecoveryInv
<1>. QED BY <1>2, <1>3 DEF BeginCall

LEMMA SearchStep ==
  ASSUME RecoveryInv, NEW c \in RecoveryCalls, Search(c)
  PROVE  RecoveryInv'
<1>. DEFINE begun == recovery[c]
            k == known[c]
<1>1. /\ begun \in RecoveryCall /\ begun.at = "search" /\ up
      /\ Covered(begun, k) /\ Stands(begun) /\ k \in SUBSET Records
      /\ UNCHANGED <<up, starts, journal, journalHealth, horizon, kept, run, effect, known>>
  BY DEF Search, RecoveryInv, RecoveryTypeOK
<1>2. PICK n \in begun.left :
        \/ recovery' = [recovery EXCEPT
             ![c].left = @ \ {n},
             ![c].found = @ \cup {[id |-> r, was |-> kept[r]] :
                                   r \in {q \in Actionable : NamespaceOf[q] = n}}]
        \/ recovery' = [recovery EXCEPT ![c].left = @ \ {n}, ![c].unread = @ \cup {n}]
  BY DEF Search
<1>3. n \in Configured
  BY <1>1 DEF RecoveryCall
<1>4. CASE recovery' = [recovery EXCEPT ![c].left = @ \ {n}, ![c].unread = @ \cup {n}]
  <2>. DEFINE q == [begun EXCEPT !.left = @ \ {n}, !.unread = @ \cup {n}]
  <2>1. /\ q \in RecoveryCall /\ q.at = "search" /\ q.left = begun.left \ {n}
        /\ q.unread = begun.unread \cup {n} /\ q.found = begun.found /\ q.wrote = begun.wrote
    BY <1>1, <1>3 DEF RecoveryCall
  <2>2. recovery' = [recovery EXCEPT ![c] = q]
    BY <1>1, <1>4 DEF RecoveryCall
  <2>. HIDE DEF q
  <2>3. q.left \cup q.unread = begun.left \cup begun.unread
    BY <1>2, <2>1
  <2>4. Covered(q, k)
    BY <1>1, <2>1, <2>3 DEF Covered
  <2>5. Stands(q)
    BY <1>1, <2>1 DEF Stands
  <2>. QED BY <1>1, <2>1, <2>2, <2>4, <2>5, CallMoves
<1>5. ASSUME recovery' = [recovery EXCEPT
               ![c].left = @ \ {n},
               ![c].found = @ \cup {[id |-> r, was |-> kept[r]] :
                                     r \in {q \in Actionable : NamespaceOf[q] = n}}]
      PROVE  RecoveryInv'
  <2>. DEFINE new == {[id |-> r, was |-> kept[r]] : r \in {q \in Actionable : NamespaceOf[q] = n}}
              q == [begun EXCEPT !.left = @ \ {n}, !.found = @ \cup new]
  <2>1. new \in SUBSET [id : Records, was : {"intent", "dispatched"}]
    BY DEF Actionable
  <2>2. /\ \A r \in Actionable : NamespaceOf[r] = n => \E f \in new : f.id = r
    <3>. SUFFICES ASSUME NEW r \in Actionable, NamespaceOf[r] = n
                  PROVE  \E f \in new : f.id = r
      OBVIOUS
    <3>1. [id |-> r, was |-> kept[r]] \in new
      OBVIOUS
    <3>. QED BY <3>1
  <2>. HIDE DEF new
  <2>3. /\ q \in RecoveryCall /\ q.at = "search" /\ q.left = begun.left \ {n}
        /\ q.unread = begun.unread /\ q.found = begun.found \cup new /\ q.wrote = begun.wrote
    BY <1>1, <2>1 DEF RecoveryCall
  <2>4. recovery' = [recovery EXCEPT ![c] = q]
    BY <1>1, <1>5 DEF RecoveryCall, new
  <2>. HIDE DEF q
  <2>5. Covered(q, k)
    BY <1>1, <2>2, <2>3 DEF Covered
  <2>6. Stands(q)
    BY <1>1, <2>3 DEF Stands
  <2>. QED BY <1>1, <2>3, <2>4, <2>5, <2>6, CallMoves
<1>. QED BY <1>2, <1>4, <1>5

LEMMA JudgeStep ==
  ASSUME RecoveryInv, NEW c \in RecoveryCalls, Judge(c)
  PROVE  RecoveryInv'
<1>. DEFINE k == known[c]
<1>1. /\ recovery[c] \in RecoveryCall /\ recovery[c].at = "search" /\ recovery[c].left = {}
      /\ Covered(recovery[c], k) /\ Stands(recovery[c]) /\ k \in SUBSET Records
      /\ UNCHANGED <<up, starts, journal, journalHealth, horizon, kept, run, effect, known>>
  BY DEF Judge, RecoveryInv, RecoveryTypeOK
<1>2. ASSUME NEW what \in {"absent", "unread", "conflict"}, Answer(c, what),
             what = "absent" => recovery[c].found = {} /\ Unread(c) = {}
      PROVE  RecoveryInv'
  <2>1. PICK q \in RecoveryCall :
           /\ recovery' = [recovery EXCEPT ![c] = q]
           /\ q.at = "answered" /\ q.kind = what /\ q.verb = recovery[c].verb
           /\ q.wrote = recovery[c].wrote
    BY <1>2, AnswerRecord
  <2>2. what = "absent" => \A r \in k : r \notin Actionable
    BY <1>1, <1>2 DEF Covered, Unread
  <2>3. Covered(q, k)
    BY <1>1, <2>1, <2>2 DEF Covered
  <2>4. Stands(q)
    BY <1>1, <2>1 DEF Stands
  <2>. QED BY <1>1, <2>1, <2>3, <2>4, CallMoves
<1>3. ASSUME recovery' = [recovery EXCEPT ![c] =
                 [NoCall EXCEPT !.at = "write", !.verb = recovery[c].verb,
                                !.todo = EligibleIds(c), !.unread = Unread(c)]]
      PROVE  RecoveryInv'
  <2>. DEFINE q == [NoCall EXCEPT !.at = "write", !.verb = recovery[c].verb,
                                  !.todo = EligibleIds(c), !.unread = Unread(c)]
  <2>1. EligibleIds(c) \subseteq Records /\ Unread(c) \subseteq Configured
    BY <1>1 DEF EligibleIds, Eligible, Unread, Refusals, RecoveryCall
  <2>2. q \in RecoveryCall /\ q.at = "write" /\ q.wrote = {}
    BY <1>1, <2>1 DEF NoCall, RecoveryCall
  <2>3. recovery' = [recovery EXCEPT ![c] = q]
    BY <1>3
  <2>. HIDE DEF q
  <2>4. Covered(q, k) /\ Stands(q)
    BY <1>1, <2>2 DEF Covered, Stands
  <2>. QED BY <1>1, <2>2, <2>3, <2>4, CallMoves
<1>. QED BY <1>2, <1>3 DEF Judge

LEMMA FinishStep ==
  ASSUME RecoveryInv, NEW c \in RecoveryCalls, FinishCall(c)
  PROVE  RecoveryInv'
<1>1. /\ recovery[c].at = "write" /\ Answer(c, "done")
      /\ Covered(recovery[c], known[c]) /\ Stands(recovery[c])
      /\ UNCHANGED <<up, starts, journal, journalHealth, horizon, kept, run, effect, known>>
  BY DEF FinishCall, RecoveryInv
<1>2. PICK q \in RecoveryCall :
         /\ recovery' = [recovery EXCEPT ![c] = q]
         /\ q.at = "answered" /\ q.kind = "done" /\ q.verb = recovery[c].verb
         /\ q.wrote = recovery[c].wrote
  BY <1>1, AnswerRecord
<1>3. Covered(q, known[c])
  BY <1>1, <1>2 DEF Covered
<1>4. Stands(q)
  BY <1>1, <1>2 DEF Stands
<1>. QED BY <1>1, <1>2, <1>3, <1>4, CallMoves

\* What an operator's write may be, and what its record then says with its run.
LEMMA VerdictFacts ==
  ASSUME RecoveryInv, NEW c \in RecoveryCalls, NEW r \in Records, NEW v \in Verdicts(c, r),
         v # "unresolved"
  PROVE  /\ v \in RecordStates \ {"absent", "intent", "dispatched"}
         /\ v \in Writes(recovery[c].verb)
         /\ kept[r] = Wanted(recovery[c].verb) => Agrees(v, run[r], effect[r])
<1>1. Agrees(kept[r], run[r], effect[r])
  BY DEF RecoveryInv
<1>2. CASE recovery[c].verb = "close"
  BY <1>1, <1>2 DEF Verdicts, Writes, Wanted, Agrees, RecordStates
<1>3. CASE recovery[c].verb = "settle"
  BY <1>1, <1>3 DEF Verdicts, Writes, Wanted, Agrees, RecordStates
<1>4. CASE recovery[c].verb \notin {"close", "settle"}
  <2>1. /\ v \in AdapterSays(r) /\ Writes(recovery[c].verb) = {"committed", "rejected"}
        /\ Wanted(recovery[c].verb) = "dispatched"
    BY <1>4 DEF Verdicts, Writes, Wanted
  <2>2. \/ v = "committed" /\ effect[r]
        \/ v = "rejected" /\ ~effect[r] /\ run[r] # "marked"
    BY <2>1 DEF AdapterSays
  <2>. QED BY <1>1, <2>1, <2>2 DEF Agrees, RecordStates
<1>. QED BY <1>2, <1>3, <1>4

LEMMA ApplyStep ==
  ASSUME RecoveryInv, NEW c \in RecoveryCalls, Apply(c)
  PROVE  RecoveryInv'
<1>1. /\ recovery[c] \in RecoveryCall /\ recovery[c].at = "write"
      /\ Covered(recovery[c], known[c]) /\ Stands(recovery[c])
      /\ known[c] \in SUBSET Records
      /\ UNCHANGED <<up, starts, journal, horizon, run, effect, known>>
  BY DEF Apply, RecoveryInv, RecoveryTypeOK
<1>2. PICK r \in recovery[c].todo : \E v \in Verdicts(c, r) : ApplyTo(c, r, v)
  BY DEF Apply
<1>3. PICK v \in Verdicts(c, r) : ApplyTo(c, r, v)
  BY <1>2
<1>4. r \in Records /\ run[r] \in RunStates /\ Agrees(kept[r], run[r], effect[r])
      /\ run' = [run EXCEPT ![r] = run[r]]
  BY <1>1 DEF RecoveryCall, RecoveryInv, RecoveryTypeOK, RunStates
<1>. DEFINE shorter == [recovery[c] EXCEPT !.todo = @ \ {r}]
            longer == [recovery[c] EXCEPT !.todo = @ \ {r}, !.wrote = @ \cup {r}]
<1>5. /\ shorter \in RecoveryCall /\ shorter.at = "write" /\ shorter.verb = recovery[c].verb
      /\ shorter.wrote = recovery[c].wrote
      /\ longer \in RecoveryCall /\ longer.at = "write" /\ longer.verb = recovery[c].verb
      /\ longer.wrote = recovery[c].wrote \cup {r}
  BY <1>1, <1>4 DEF RecoveryCall
<1>6. /\ [recovery EXCEPT ![c].todo = @ \ {r}] = [recovery EXCEPT ![c] = shorter]
      /\ [recovery EXCEPT ![c].todo = @ \ {r}, ![c].wrote = @ \cup {r}]
           = [recovery EXCEPT ![c] = longer]
  BY <1>1 DEF RecoveryCall
<1>. HIDE DEF shorter, longer
<1>7. ASSUME v = "unresolved", recovery' = [recovery EXCEPT ![c].todo = @ \ {r}],
             UNCHANGED <<kept, journalHealth>>
      PROVE  RecoveryInv'
  <2>1. Covered(shorter, known[c]) /\ Stands(shorter)
    BY <1>1, <1>5 DEF Covered, Stands
  <2>. QED BY <1>1, <1>5, <1>6, <1>7, <2>1, CallMoves
<1>8. ASSUME Answer(c, "conflict"), UNCHANGED <<kept, journalHealth>>
      PROVE  RecoveryInv'
  <2>1. PICK q \in RecoveryCall :
           /\ recovery' = [recovery EXCEPT ![c] = q]
           /\ q.at = "answered" /\ q.kind = "conflict" /\ q.verb = recovery[c].verb
           /\ q.wrote = recovery[c].wrote
    BY <1>8, AnswerRecord
  <2>2. Covered(q, known[c]) /\ Stands(q)
    BY <1>1, <2>1 DEF Covered, Stands
  <2>. QED BY <1>1, <1>8, <2>1, <2>2, CallMoves
<1>9. ASSUME v # "unresolved", ConditionalWrite(r, Wanted(recovery[c].verb), v),
             IF Acknowledged(r, v)
             THEN recovery' = [recovery EXCEPT ![c].todo = @ \ {r}, ![c].wrote = @ \cup {r}]
             ELSE Answer(c, "conflict")
      PROVE  RecoveryInv'
  <2>. DEFINE wanted == Wanted(recovery[c].verb)
  <2>1. /\ v \in RecordStates \ {"absent", "intent", "dispatched"}
        /\ v \in Writes(recovery[c].verb)
        /\ kept[r] = wanted => Agrees(v, run[r], effect[r])
    BY <1>3, <1>4, <1>9, VerdictFacts
  <2>2. wanted \in {"absent", "intent", "dispatched"}
    BY DEF Wanted
  <2>. HIDE DEF wanted
  <2>3. /\ kept' \in [Records -> RecordStates]
        /\ \A s \in Records \ {r} : kept'[s] = kept[s]
        /\ kept'[r] = kept[r] \/ (kept[r] = wanted /\ kept'[r] = v)
        /\ Acknowledged(r, v) => kept[r] = wanted /\ kept'[r] = v
    BY <1>4, <1>9, <2>1, WriteEffect DEF RecoveryInv, wanted
  <2>4. Agrees(kept'[r], run[r], effect[r])
    BY <1>4, <2>1, <2>3
  <2>5. /\ recovery' \in [RecoveryCalls -> RecoveryCall] => RecoveryTypeOK'
        /\ \A s \in Records : Agrees(kept[s], run[s], effect[s])'
        /\ \A d \in RecoveryCalls : recovery'[d] = recovery[d]
             => Covered(recovery[d], known[d])' /\ Stands(recovery[d])'
    <3>1. ConditionalWrite(r, wanted, v) /\ v \in RecordStates \ {"absent"}
      BY <1>9, <2>1 DEF wanted
    <3>. QED BY <1>1, <1>4, <2>2, <2>4, <3>1, WriteKeeps
  <2>6. PICK q \in RecoveryCall :
           /\ recovery' = [recovery EXCEPT ![c] = q]
           /\ q.at # "search" /\ (q.at = "answered" => q.kind # "absent")
           /\ q.at \notin {"idle", "lost"} /\ q.verb = recovery[c].verb
           /\ \/ q.wrote = recovery[c].wrote
              \/ q.wrote = recovery[c].wrote \cup {r} /\ kept'[r] = v
    <3>1. CASE Acknowledged(r, v)
      BY <1>5, <1>6, <1>9, <2>3, <3>1
    <3>2. CASE ~Acknowledged(r, v)
      <4>1. Answer(c, "conflict")
        BY <1>9, <3>2
      <4>2. PICK q \in RecoveryCall :
               /\ recovery' = [recovery EXCEPT ![c] = q]
               /\ q.at = "answered" /\ q.kind = "conflict" /\ q.verb = recovery[c].verb
               /\ q.wrote = recovery[c].wrote
        BY <4>1, AnswerRecord
      <4>. QED BY <4>2
    <3>. QED BY <3>1, <3>2
  <2>7. /\ recovery' \in [RecoveryCalls -> RecoveryCall] /\ recovery'[c] = q
        /\ \A d \in RecoveryCalls \ {c} : recovery'[d] = recovery[d]
    BY <2>6 DEF RecoveryInv, RecoveryTypeOK
  <2>8. \A s \in Records : Moved(kept[s], kept'[s])
    BY <2>1, <2>2, <2>3 DEF Moved
  <2>9. Covered(recovery[c], known[c])'
    <3>1. \A s \in known[c] : s \in Records /\ kept[s] # "absent"
      BY <1>1 DEF Covered
    <3>2. \A s \in known[c] : kept'[s] # "absent"
      BY <2>8, <3>1 DEF Moved
    <3>. QED BY <1>1, <2>6, <2>7, <3>2 DEF Covered
  <2>10. Stands(recovery[c])'
    <3>1. \A s \in recovery[c].wrote : s \in Records /\ kept[s] \in Writes(recovery[c].verb)
      BY <1>1 DEF Stands, RecoveryCall
    <3>2. Writes(recovery[c].verb) \cap {"absent", "intent", "dispatched"} = {}
      BY DEF Writes
    <3>3. \A s \in recovery[c].wrote : kept'[s] \in Writes(recovery[c].verb)
      BY <2>8, <3>1, <3>2 DEF Moved
    <3>4. \A s \in q.wrote : kept'[s] \in Writes(q.verb)
      BY <2>1, <2>6, <3>3
    <3>. QED BY <2>6, <2>7, <3>4 DEF Stands
  <2>11. \A d \in RecoveryCalls : recovery'[d].at = "search" => up'
    BY <1>1, <2>6, <2>7 DEF RecoveryInv
  <2>. QED BY <2>5, <2>7, <2>9, <2>10, <2>11 DEF RecoveryInv
<1>. QED BY <1>3, <1>7, <1>8, <1>9 DEF ApplyTo

LEMMA RecoveryInitInv == RecoveryInit => RecoveryInv
<1>. SUFFICES ASSUME RecoveryInit PROVE RecoveryInv
  OBVIOUS
<1>1. NoCall \in RecoveryCall /\ NoCall.at = "idle" /\ NoCall.wrote = {}
  BY DEF NoCall, RecoveryCall
<1>2. RecoveryTypeOK
  BY <1>1 DEF RecoveryInit, RecoveryTypeOK, RecordStates
<1>3. \A r \in Records : Agrees(kept[r], run[r], effect[r])
  BY DEF RecoveryInit, Agrees
<1>4. \A c \in RecoveryCalls : recovery[c] = NoCall /\ known[c] = {}
  BY DEF RecoveryInit
<1>. QED BY <1>1, <1>2, <1>3, <1>4 DEF RecoveryInv, Covered, Stands

LEMMA RecoveryStepInv == RecoveryInv /\ [RecoveryNext]_recoveryVars => RecoveryInv'
<1>. SUFFICES ASSUME RecoveryInv, [RecoveryNext]_recoveryVars PROVE RecoveryInv'
  OBVIOUS
<1>1. CASE UNCHANGED recoveryVars
  BY <1>1 DEF recoveryVars, RecoveryInv, RecoveryTypeOK, Covered, Stands, Actionable, Refusals
<1>2. CASE Start \/ StartAborted \/ ServiceCrash \/ \E n \in Configured : HorizonPasses(n)
  BY <1>2, QuietStep
<1>3. CASE \E r \in Records : Reserve(r) \/ RunMarks(r) \/ Effect(r) \/ CommitResult(r)
  BY <1>3, QuietStep, RunStep
<1>4. CASE \E c \in RecoveryCalls, verb \in {"close", "settle", "reconcile"} : BeginCall(c, verb)
  BY <1>4, BeginStep
<1>5. CASE \E c \in RecoveryCalls : Search(c) \/ Judge(c) \/ Apply(c) \/ FinishCall(c)
  BY <1>5, SearchStep, JudgeStep, ApplyStep, FinishStep
<1>. QED BY <1>1, <1>2, <1>3, <1>4, <1>5 DEF RecoveryNext

\* The inductive invariant of recovery, for any records, namespaces and calls: a record
\* agrees with its run and its effect, a search covers what it has yet to find, and what
\* a call wrote stands (service.ts:4416-4640).
THEOREM RecoveryInvariant == RecoverySpec => []RecoveryInv
BY RecoveryInitInv, RecoveryStepInv, PTL DEF RecoverySpec

\* What is on record of an operation agrees with what was done, whoever wrote it, and an
\* operator's answer covers every journal it speaks of, across restarts and lost answers.
THEOREM RecoveryTold == RecoverySpec => []RecoveryIsTrue
<1>1. RecoveryInv => RecoveryIsTrue
  <2>. SUFFICES ASSUME RecoveryInv PROVE RecoveryIsTrue
    OBVIOUS
  <2>1. EffectsAreAsRecorded
    BY DEF RecoveryInv, Agrees, EffectsAreAsRecorded
  <2>2. AnswersCoverTheJournals
    BY DEF RecoveryInv, Covered, Stands, AnswersCoverTheJournals
  <2>. QED BY <2>1, <2>2 DEF RecoveryInv, RecoveryIsTrue
<1>. QED BY <1>1, RecoveryInvariant, PTL

-----------------------------------------------------------------------------
(* The storage process: its requests, its replies and the handles it serves. *)

Told == {"not_opened", "opened", "not_written", "written", "closed", "uncertain"}
ProcessCall == [op : {"none", "open", "write", "close"}, ns : Spaces \cup {NoFence},
                fence : Nat \cup {NoFence}, answer : Told \cup {"none", "pending"},
                applied : BOOLEAN]
ProcessReply == [call : ProcessCalls, answer : Told]
Fences == [Spaces -> Nat \cup {NoFence}]

ProcessTypeOK ==
  /\ call \in [ProcessCalls -> ProcessCall]
  /\ \A c \in ProcessCalls : IF call[c].op = "none" THEN call[c] = NotAsked
                             ELSE call[c].ns \in Spaces
  /\ manager \in [dead : BOOLEAN, live : Fences]
  /\ child \in [state : {"up", "left", "gone"}, live : Fences]
  /\ toChild \in Seq(ProcessCalls)
  /\ toParent \in Seq(ProcessReply)
  /\ active \in Fences
  /\ fences \in Nat

OnItsWay(x, channel) == \E i \in 1 .. Len(channel) : channel[i] = x

True(answer, k) ==
  /\ answer \in {"not_opened", "not_written"} => ~k.applied
  /\ answer \in {"opened", "written"} => k.applied

\* A request is in the channel once, has had no acts yet, and was not replied to.
RequestInv ==
  /\ \A i, j \in 1 .. Len(toChild) : toChild[i] = toChild[j] => i = j
  /\ \A c \in ProcessCalls : OnItsWay(c, toChild) =>
       /\ call[c].op # "none" /\ ~call[c].applied
       /\ call[c].answer \in {"pending", "uncertain"}
       /\ \A m \in ProcessReply : OnItsWay(m, toParent) => m.call # c

\* A reply is of a call that was made, and true of it.
ReplyInv ==
  \A m \in ProcessReply : OnItsWay(m, toParent) =>
    call[m.call].op # "none" /\ True(m.answer, call[m.call])

AnswerInv == \A c \in ProcessCalls : True(call[c].answer, call[c])

\* An opening the service was told of, or will be.
Opened(c) ==
  /\ call[c].op = "open"
  /\ \/ call[c].answer = "opened"
     \/ OnItsWay([call |-> c, answer |-> "opened"], toParent)
Served(c) ==
  /\ call[c].fence \in Nat
  /\ \/ child.live[call[c].ns] = call[c].fence
     \/ \E d \in ProcessCalls : call[d].op = "close" /\ call[d].fence = call[c].fence

\* The handles the child serves are the store's, a handle that was opened is served
\* until its close is asked for, and a child that leaves serves none.
HandleInv ==
  /\ \A ns \in Spaces : child.live[ns] # NoFence => active[ns] = child.live[ns]
  /\ \A c \in ProcessCalls : Opened(c) => Served(c)
  /\ child.state = "left" => Leaves(child.live)

ProcessInv == ProcessTypeOK /\ RequestInv /\ ReplyInv /\ AnswerInv /\ HandleInv

LEMMA Appended ==
  ASSUME NEW S, NEW s \in Seq(S), NEW x \in S
  PROVE  /\ Append(s, x) \in Seq(S)
         /\ \A y : OnItsWay(y, Append(s, x)) <=> OnItsWay(y, s) \/ y = x
<1>1. /\ Append(s, x) \in Seq(S) /\ Len(Append(s, x)) = Len(s) + 1 /\ Len(s) \in Nat
      /\ \A i \in 1 .. Len(s) : Append(s, x)[i] = s[i]
      /\ Append(s, x)[Len(s) + 1] = x
  OBVIOUS
<1>. QED BY <1>1 DEF OnItsWay

LEMMA Taken ==
  ASSUME NEW S, NEW s \in Seq(S), s # <<>>
  PROVE  /\ Tail(s) \in Seq(S) /\ Head(s) \in S
         /\ OnItsWay(Head(s), s)
         /\ \A y : OnItsWay(y, Tail(s)) => OnItsWay(y, s)
<1>1. /\ Tail(s) \in Seq(S) /\ Len(Tail(s)) = Len(s) - 1 /\ Len(s) \in Nat /\ Len(s) >= 1
      /\ \A i \in 1 .. Len(Tail(s)) : Tail(s)[i] = s[i + 1]
      /\ Head(s) = s[1] /\ s[1] \in S
  OBVIOUS
<1>. QED BY <1>1 DEF OnItsWay

Apart(s) == \A i, j \in 1 .. Len(s) : s[i] = s[j] => i = j

LEMMA ApartTaken ==
  ASSUME NEW S, NEW s \in Seq(S), s # <<>>, Apart(s)
  PROVE  Apart(Tail(s)) /\ ~OnItsWay(Head(s), Tail(s))
<1>1. /\ Len(Tail(s)) = Len(s) - 1 /\ Len(s) \in Nat /\ Len(s) >= 1
      /\ \A i \in 1 .. Len(Tail(s)) : Tail(s)[i] = s[i + 1]
      /\ Head(s) = s[1]
  OBVIOUS
<1>2. \A i \in 1 .. Len(Tail(s)) : i + 1 \in 1 .. Len(s) /\ i + 1 # 1
  BY <1>1
<1>. QED BY <1>1, <1>2 DEF OnItsWay, Apart

LEMMA ApartAppended ==
  ASSUME NEW S, NEW s \in Seq(S), NEW x \in S, Apart(s), ~OnItsWay(x, s)
  PROVE  Apart(Append(s, x))
<1>1. /\ Len(Append(s, x)) = Len(s) + 1 /\ Len(s) \in Nat
      /\ \A i \in 1 .. Len(s) : Append(s, x)[i] = s[i]
      /\ Append(s, x)[Len(s) + 1] = x
  OBVIOUS
<1>2. \A i \in 1 .. Len(Append(s, x)) : i \in 1 .. Len(s) \/ i = Len(s) + 1
  BY <1>1
<1>. QED BY <1>1, <1>2 DEF OnItsWay, Apart

LEMMA ProcessInitHolds == ProcessInit => ProcessInv
<1>. SUFFICES ASSUME ProcessInit PROVE ProcessInv
  OBVIOUS
<1>1. ProcessTypeOK
  BY DEF ProcessInit, ProcessTypeOK, ProcessCall, NotAsked, NoneLive, Fences, Told
<1>2. \A x : ~OnItsWay(x, toChild) /\ ~OnItsWay(x, toParent)
  BY DEF ProcessInit, OnItsWay
<1>3. Len(toChild) = 0
  BY DEF ProcessInit
<1>. QED
  BY <1>1, <1>2, <1>3
  DEF ProcessInit, ProcessInv, RequestInv, ReplyInv, AnswerInv, HandleInv, True, NotAsked,
      Opened, NoneLive, Leaves, Apart

\* A call is made: it is answered on the spot, or sent.
LEMMA AskedKeeps ==
  ASSUME ProcessInv, NEW c \in ProcessCalls, NEW k \in ProcessCall,
         call[c].op = "none", call' = [call EXCEPT ![c] = k],
         k.op # "none", k.ns \in Spaces, ~k.applied,
         k.answer \in {"pending", "uncertain", "not_opened"},
         \/ toChild' = toChild
         \/ k.answer # "not_opened" /\ toChild' = Append(toChild, c),
         UNCHANGED <<manager, child, toParent, active, fences>>
  PROVE  ProcessInv'
<1>1. /\ call \in [ProcessCalls -> ProcessCall] /\ toChild \in Seq(ProcessCalls)
      /\ call' \in [ProcessCalls -> ProcessCall] /\ call'[c] = k
      /\ \A d \in ProcessCalls \ {c} : call'[d] = call[d]
  BY DEF ProcessInv, ProcessTypeOK
<1>2. /\ toChild' \in Seq(ProcessCalls)
      /\ \A y : OnItsWay(y, toChild') =>
           \/ OnItsWay(y, toChild)
           \/ y = c /\ k.answer \in {"pending", "uncertain"}
  <2>1. CASE toChild' = toChild
    BY <1>1, <2>1
  <2>2. CASE k.answer # "not_opened" /\ toChild' = Append(toChild, c)
    <3>1. /\ Append(toChild, c) \in Seq(ProcessCalls)
          /\ \A y : OnItsWay(y, Append(toChild, c)) <=> OnItsWay(y, toChild) \/ y = c
      BY <1>1, Appended
    <3>. QED BY <2>2, <3>1
  <2>. QED BY <2>1, <2>2
<1>3. ~OnItsWay(c, toChild) /\ \A m \in ProcessReply : OnItsWay(m, toParent) => m.call # c
  BY DEF ProcessInv, RequestInv, ReplyInv
<1>4. ProcessTypeOK'
  BY <1>1, <1>2 DEF ProcessInv, ProcessTypeOK
<1>5. RequestInv'
  <2>1. Apart(toChild')
    BY <1>1, <1>3, ApartAppended DEF ProcessInv, RequestInv, Apart
  <2>2. ASSUME NEW d \in ProcessCalls, OnItsWay(d, toChild')
        PROVE  /\ call'[d].op # "none" /\ ~call'[d].applied
               /\ call'[d].answer \in {"pending", "uncertain"}
               /\ \A m \in ProcessReply : OnItsWay(m, toParent') => m.call # d
    BY <1>1, <1>2, <1>3, <2>2 DEF ProcessInv, RequestInv
  <2>. QED BY <2>1, <2>2 DEF RequestInv, Apart
<1>6. ReplyInv'
  BY <1>1, <1>3 DEF ProcessInv, ReplyInv, True, ProcessReply
<1>7. AnswerInv'
  BY <1>1 DEF ProcessInv, AnswerInv, True
<1>8. HandleInv'
  <2>1. ASSUME NEW d \in ProcessCalls, Opened(d)'
        PROVE  Served(d)'
    <3>1. d # c
      <4>1. k.answer # "opened" /\ [call |-> c, answer |-> "opened"] \in ProcessReply
        BY DEF ProcessReply, Told
      <4>. QED BY <1>1, <1>3, <2>1, <4>1 DEF Opened
    <3>2. Opened(d)
      BY <1>1, <2>1, <3>1 DEF Opened
    <3>3. Served(d)
      BY <3>2 DEF ProcessInv, HandleInv
    <3>. QED BY <1>1, <3>1, <3>3 DEF Served
  <2>. QED BY <2>1 DEF ProcessInv, HandleInv
<1>. QED BY <1>4, <1>5, <1>6, <1>7, <1>8 DEF ProcessInv

LEMMA OpenCallKeeps ==
  ASSUME ProcessInv, NEW c \in ProcessCalls, NEW ns \in Spaces, OpenCall(c, ns)
  PROVE  ProcessInv'
<1> DEFINE refused == ~manager.dead /\ manager.live[ns] # NoFence
           a == IF manager.dead THEN "uncertain" ELSE IF refused THEN "not_opened" ELSE "pending"
           k == [op |-> "open", ns |-> ns, fence |-> NoFence, answer |-> a, applied |-> FALSE]
<1>1. /\ call[c].op = "none" /\ call' = [call EXCEPT ![c] = k]
      /\ ~refused => Send(c)
      /\ refused => UNCHANGED toChild
      /\ UNCHANGED <<manager, child, toParent, active, fences>>
  BY DEF OpenCall, Ask
<1>2. a \in {"pending", "uncertain", "not_opened"} /\ (~refused => a # "not_opened")
  OBVIOUS
<1>3. \/ toChild' = toChild
      \/ a # "not_opened" /\ toChild' = Append(toChild, c)
  BY <1>1, <1>2 DEF Send
<1> HIDE DEF a, refused
<1>4. k \in ProcessCall /\ k.op # "none" /\ k.ns \in Spaces /\ ~k.applied /\ k.answer = a
  BY <1>2 DEF ProcessCall, Told
<1> HIDE DEF k
<1>. QED BY <1>1, <1>2, <1>3, <1>4, AskedKeeps

LEMMA UseKeeps ==
  ASSUME ProcessInv, NEW c \in ProcessCalls, NEW opener \in ProcessCalls,
         NEW f \in {"write", "close"}, Use(c, f, opener)
  PROVE  ProcessInv'
<1> DEFINE a == IF manager.dead THEN "uncertain" ELSE "pending"
           k == [op |-> f, ns |-> call[opener].ns, fence |-> call[opener].fence,
                 answer |-> a, applied |-> FALSE]
<1>1. /\ call[c].op = "none" /\ call' = [call EXCEPT ![c] = k]
      /\ Send(c) /\ call[opener].op = "open"
      /\ UNCHANGED <<manager, child, toParent, active, fences>>
  BY DEF Use, Ask
<1>2. a \in {"pending", "uncertain"}
  OBVIOUS
<1> HIDE DEF a
<1>3. /\ call[opener].ns \in Spaces /\ call[opener].fence \in Nat \cup {NoFence}
  BY <1>1 DEF ProcessInv, ProcessTypeOK, ProcessCall
<1>4. k \in ProcessCall /\ k.op # "none" /\ k.ns \in Spaces /\ ~k.applied /\ k.answer = a
  BY <1>2, <1>3 DEF ProcessCall, Told
<1> HIDE DEF k
<1>. QED BY <1>1, <1>2, <1>4, AskedKeeps DEF Send

LEMMA ReplyKeeps == ASSUME ProcessInv, Reply PROVE ProcessInv'
<1> DEFINE m == Head(toParent)
<1>1. PICK r \in ProcessReply : r = m
  BY Taken DEF ProcessInv, ProcessTypeOK, Reply
<1>2. /\ r.call \in ProcessCalls /\ r.answer \in Told
      /\ OnItsWay(r, toParent) /\ toParent' \in Seq(ProcessReply)
      /\ \A y : OnItsWay(y, toParent') => OnItsWay(y, toParent)
  BY <1>1, Taken DEF ProcessInv, ProcessTypeOK, Reply, ProcessReply
<1>3. /\ call \in [ProcessCalls -> ProcessCall]
      /\ call' = [call EXCEPT ![r.call] = [call[r.call] EXCEPT !.answer = r.answer]]
      /\ UNCHANGED <<child, toChild, active, fences>>
  BY <1>1 DEF ProcessInv, ProcessTypeOK, Reply
<1>4. PICK k \in ProcessCall : k = [call[r.call] EXCEPT !.answer = r.answer]
  BY SMTT(30), <1>2, <1>3 DEF ProcessCall
<1>5. /\ k.op = call[r.call].op /\ k.ns = call[r.call].ns /\ k.fence = call[r.call].fence
      /\ k.applied = call[r.call].applied /\ k.answer = r.answer
  BY <1>2, <1>3, <1>4 DEF ProcessCall
<1>6. /\ call' \in [ProcessCalls -> ProcessCall] /\ call'[r.call] = k
      /\ \A d \in ProcessCalls \ {r.call} : call'[d] = call[d]
  BY <1>2, <1>3, <1>4
<1>7. call[r.call].op # "none" /\ True(r.answer, k) /\ ~OnItsWay(r.call, toChild)
  BY <1>2, <1>5 DEF ProcessInv, ReplyInv, RequestInv, True
<1>8. ProcessTypeOK'
  <2>1. manager' \in [dead : BOOLEAN, live : Fences]
    <3> DEFINE ns == call[r.call].ns
               f == IF call[r.call].op = "close" THEN NoFence
                    ELSE IF r.answer = "opened" THEN call[r.call].fence ELSE manager.live[ns]
    <3>1. manager' = [manager EXCEPT !.live[ns] = f]
      BY <1>1 DEF Reply
    <3>2. ns \in Spaces /\ f \in Nat \cup {NoFence}
      BY <1>2, <1>3, <1>7 DEF ProcessInv, ProcessTypeOK, ProcessCall, Fences
    <3> HIDE DEF ns, f
    <3>. QED BY <3>1, <3>2 DEF ProcessInv, ProcessTypeOK, Fences
  <2>. QED BY <1>2, <1>3, <1>5, <1>6, <1>7, <2>1 DEF ProcessInv, ProcessTypeOK
<1>9. RequestInv' /\ ReplyInv' /\ AnswerInv'
  <2>1. RequestInv'
    BY <1>2, <1>3, <1>6, <1>7 DEF ProcessInv, RequestInv
  <2>2. ReplyInv'
    BY <1>2, <1>5, <1>6, <1>7 DEF ProcessInv, ReplyInv, True, ProcessReply
  <2>3. AnswerInv'
    BY <1>5, <1>6, <1>7 DEF ProcessInv, AnswerInv, True
  <2>. QED BY <2>1, <2>2, <2>3
<1>10. HandleInv'
  <2>1. ASSUME NEW d \in ProcessCalls, Opened(d)'
        PROVE  Served(d)'
    <3>1. Opened(d)
      <4>1. CASE d = r.call /\ r.answer = "opened"
        <5>1. r = [call |-> d, answer |-> "opened"]
          BY <4>1 DEF ProcessReply
        <5>. QED BY <1>2, <1>5, <1>6, <2>1, <4>1, <5>1 DEF Opened
      <4>2. CASE ~(d = r.call /\ r.answer = "opened")
        BY <1>2, <1>5, <1>6, <2>1, <4>2 DEF Opened
      <4>. QED BY <4>1, <4>2
    <3>2. Served(d)
      BY <3>1 DEF ProcessInv, HandleInv
    <3>3. \A e \in ProcessCalls : /\ call'[e].fence = call[e].fence /\ call'[e].op = call[e].op
                                  /\ call'[e].ns = call[e].ns
      BY <1>5, <1>6
    <3>. QED BY <1>3, <3>2, <3>3 DEF Served
  <2>. QED BY <1>3, <2>1 DEF ProcessInv, HandleInv
<1>. QED BY <1>8, <1>9, <1>10 DEF ProcessInv

\* The manager gives up: calls that waited are uncertain, which is never false.
LEMMA ManagerDiesKeeps ==
  ASSUME ProcessInv, ManagerDies, UNCHANGED <<child, toChild, toParent, active, fences>>
  PROVE  ProcessInv'
<1>1. /\ call \in [ProcessCalls -> ProcessCall] /\ DOMAIN call' = ProcessCalls
      /\ \A c \in ProcessCalls :
           /\ call'[c] \in ProcessCall
           /\ call'[c].op = call[c].op /\ call'[c].ns = call[c].ns
           /\ call'[c].fence = call[c].fence /\ call'[c].applied = call[c].applied
           /\ \/ call'[c] = call[c]
              \/ call[c].answer = "pending" /\ call'[c].answer = "uncertain"
  BY ZenonT(60) DEF ProcessInv, ProcessTypeOK, ManagerDies, Pending, ProcessCall, Told
<1>2. call' \in [ProcessCalls -> ProcessCall]
  BY <1>1 DEF ManagerDies
<1>3. ProcessTypeOK'
  <2>1. \A c \in ProcessCalls : IF call'[c].op = "none" THEN call'[c] = NotAsked
                                 ELSE call'[c].ns \in Spaces
    BY <1>1 DEF ProcessInv, ProcessTypeOK, NotAsked
  <2>2. manager' \in [dead : BOOLEAN, live : Fences]
    BY DEF ManagerDies, Fences
  <2>. QED BY <1>2, <2>1, <2>2 DEF ProcessInv, ProcessTypeOK
<1>4. RequestInv' /\ ReplyInv' /\ AnswerInv'
  <2>1. RequestInv'
    BY <1>1 DEF ProcessInv, RequestInv
  <2>2. ReplyInv'
    BY <1>1 DEF ProcessInv, ReplyInv, True, ProcessReply
  <2>3. AnswerInv'
    BY <1>1 DEF ProcessInv, AnswerInv, True
  <2>. QED BY <2>1, <2>2, <2>3
<1>5. HandleInv'
  <2>1. \A d \in ProcessCalls : Opened(d)' => Opened(d)
    BY <1>1 DEF Opened
  <2>2. \A d \in ProcessCalls : Served(d) => Served(d)'
    BY <1>1 DEF Served
  <2>. QED BY <2>1, <2>2 DEF ProcessInv, HandleInv
<1>. QED BY <1>3, <1>4, <1>5 DEF ProcessInv

\* The child handles the request at the head of its channel and replies.
LEMMA HandledKeeps ==
  ASSUME ProcessInv, NEW c \in ProcessCalls, NEW k \in ProcessCall, NEW a \in Told,
         toChild # <<>>, c = Head(toChild), toChild' = Tail(toChild),
         call' = [call EXCEPT ![c] = k],
         k.op = call[c].op, k.ns = call[c].ns, k.answer = call[c].answer, True(a, k),
         Replies(c, a), UNCHANGED manager,
         child' \in [state : {"up", "left", "gone"}, live : Fences],
         active' \in Fences, fences' \in Nat,
         \A ns \in Spaces : child'.live[ns] # NoFence => active'[ns] = child'.live[ns],
         child'.state = "left" => Leaves(child'.live),
         \A d \in ProcessCalls \ {c} : Served(d) => Served(d)',
         k.op = "open" /\ a = "opened" => Served(c)'
  PROVE  ProcessInv'
<1> DEFINE m == [call |-> c, answer |-> a]
<1>1. /\ call \in [ProcessCalls -> ProcessCall] /\ toChild \in Seq(ProcessCalls)
      /\ toParent \in Seq(ProcessReply) /\ m \in ProcessReply
      /\ call' \in [ProcessCalls -> ProcessCall] /\ call'[c] = k
      /\ \A d \in ProcessCalls \ {c} : call'[d] = call[d]
  BY DEF ProcessInv, ProcessTypeOK, ProcessReply
<1>2. /\ toChild' \in Seq(ProcessCalls) /\ OnItsWay(c, toChild)
      /\ \A y : OnItsWay(y, toChild') => OnItsWay(y, toChild)
  BY <1>1, Taken
<1>3. Apart(toChild') /\ ~OnItsWay(c, toChild')
  BY <1>1, ApartTaken DEF ProcessInv, RequestInv, Apart
<1>4. /\ toParent' \in Seq(ProcessReply)
      /\ \A y : OnItsWay(y, toParent') <=> OnItsWay(y, toParent) \/ y = m
  <2> HIDE DEF m
  <2>1. toParent' = Append(toParent, m)
    BY DEF Replies, m
  <2>. QED BY <1>1, <2>1, Appended
<1>5. /\ call[c].op # "none" /\ ~call[c].applied
      /\ call[c].answer \in {"pending", "uncertain"}
      /\ \A n \in ProcessReply : OnItsWay(n, toParent) => n.call # c
  BY <1>2 DEF ProcessInv, RequestInv
<1>6. m.call = c /\ m.answer = a
  OBVIOUS
<1>7. ProcessTypeOK'
  BY <1>1, <1>2, <1>4, <1>5 DEF ProcessInv, ProcessTypeOK
<1>8. RequestInv'
  <2>1. ASSUME NEW d \in ProcessCalls, OnItsWay(d, toChild')
        PROVE  /\ call'[d].op # "none" /\ ~call'[d].applied
               /\ call'[d].answer \in {"pending", "uncertain"}
               /\ \A n \in ProcessReply : OnItsWay(n, toParent') => n.call # d
    BY <1>1, <1>2, <1>3, <1>4, <1>6, <2>1 DEF ProcessInv, RequestInv
  <2>. QED BY <1>3, <2>1 DEF RequestInv, Apart
<1>9. ReplyInv'
  <2>1. ASSUME NEW n \in ProcessReply, OnItsWay(n, toParent')
        PROVE  call'[n.call].op # "none" /\ True(n.answer, call'[n.call])
    <3>1. CASE n = m
      BY <1>1, <1>5, <1>6, <3>1
    <3>2. CASE OnItsWay(n, toParent)
      <4>1. n.call \in ProcessCalls \ {c}
        BY <1>5, <3>2 DEF ProcessReply
      <4>. QED BY <1>1, <3>2, <4>1 DEF ProcessInv, ReplyInv
    <3>. QED BY <1>4, <2>1, <3>1, <3>2
  <2>. QED BY <2>1 DEF ReplyInv
<1>10. AnswerInv'
  BY <1>1, <1>5 DEF ProcessInv, AnswerInv, True
<1>11. HandleInv'
  <2>1. ASSUME NEW d \in ProcessCalls, Opened(d)'
        PROVE  Served(d)'
    <3>1. CASE d = c
      <4>1. k.op = "open" /\ call'[c].answer # "opened"
        BY <1>1, <1>5, <2>1, <3>1 DEF Opened
      <4>2. [call |-> c, answer |-> "opened"] \in ProcessReply
        BY DEF ProcessReply, Told
      <4>3. a = "opened"
        BY <1>4, <1>5, <2>1, <3>1, <4>1, <4>2 DEF Opened
      <4>. QED BY <3>1, <4>1, <4>3
    <3>2. CASE d # c
      <4>1. [call |-> d, answer |-> "opened"] # m
        BY <3>2
      <4>2. Opened(d)
        BY <1>1, <1>4, <2>1, <3>2, <4>1 DEF Opened
      <4>. QED BY <3>2, <4>2 DEF ProcessInv, HandleInv
    <3>. QED BY <3>1, <3>2
  <2>. QED BY <2>1 DEF HandleInv
<1>. QED BY <1>7, <1>8, <1>9, <1>10, <1>11 DEF ProcessInv

\* What holds of the request the child takes.
LEMMA TakenRequest ==
  ASSUME ProcessInv, toChild # <<>>, NEW c, c = Head(toChild)
  PROVE  /\ c \in ProcessCalls /\ call[c] \in ProcessCall /\ call[c].ns \in Spaces
         /\ ~call[c].applied /\ call[c].op # "none"
<1>1. c \in ProcessCalls /\ OnItsWay(c, toChild)
  BY Taken DEF ProcessInv, ProcessTypeOK
<1>. QED BY <1>1 DEF ProcessInv, ProcessTypeOK, RequestInv

LEMMA TakesOpenKeeps ==
  ASSUME ProcessInv, NEW c, NEW throws \in BOOLEAN, NEW stays \in BOOLEAN,
         toChild # <<>>, c = Head(toChild), toChild' = Tail(toChild), UNCHANGED manager,
         child.state = "up", TakesOpen(c, throws, stays)
  PROVE  ProcessInv'
<1> DEFINE ns == call[c].ns
           refused == child.live[ns] # NoFence \/ (active[ns] # NoFence /\ ~throws)
           opened == ~refused /\ ~throws
           acts == ~refused /\ (opened \/ stays) /\ active[ns] = NoFence
           k == IF acts THEN [call[c] EXCEPT !.applied = TRUE, !.fence = fences + 1]
                ELSE call[c]
           a == IF refused THEN "not_opened" ELSE IF opened THEN "opened" ELSE "uncertain"
<1>1. /\ c \in ProcessCalls /\ call[c] \in ProcessCall /\ ns \in Spaces
      /\ ~call[c].applied /\ call[c].op = "open"
  BY TakenRequest DEF TakesOpen
<1>2. /\ call \in [ProcessCalls -> ProcessCall] /\ fences \in Nat /\ fences + 1 \in Nat
      /\ active \in Fences /\ child \in [state : {"up", "left", "gone"}, live : Fences]
      /\ fences + 1 # NoFence
  BY ProcessAssumption DEF ProcessInv, ProcessTypeOK
<1>3. /\ fences' = IF acts THEN fences + 1 ELSE fences
      /\ active' = IF acts THEN [active EXCEPT ![ns] = fences + 1] ELSE active
      /\ call' = IF acts
                 THEN [call EXCEPT ![c] = [call[c] EXCEPT !.applied = TRUE, !.fence = fences + 1]]
                 ELSE call
      /\ child' = IF opened THEN [child EXCEPT !.live[ns] = fences + 1] ELSE child
      /\ Replies(c, a)
  BY DEF TakesOpen
<1>4. /\ acts \in BOOLEAN /\ opened \in BOOLEAN /\ refused \in BOOLEAN
      /\ opened => acts
      /\ refused => ~acts
      /\ ~refused => child.live[ns] = NoFence
      /\ acts => active[ns] = NoFence
  OBVIOUS
<1>5. a \in Told /\ (a = "not_opened" <=> refused) /\ (a = "opened" <=> opened)
      /\ a \notin {"not_written", "written"}
  BY DEF Told
<1> HIDE DEF a, refused, opened, acts
<1>6. /\ k \in ProcessCall /\ k.op = call[c].op /\ k.ns = ns /\ k.answer = call[c].answer
      /\ IF acts THEN k.applied /\ k.fence = fences + 1
         ELSE k.applied = call[c].applied /\ k.fence = call[c].fence
  <2>1. CASE acts
    BY <1>1, <1>2, <2>1 DEF ProcessCall
  <2>2. CASE ~acts
    BY <1>1, <2>2 DEF ProcessCall
  <2>. QED BY <2>1, <2>2
<1>7. call' = [call EXCEPT ![c] = k]
  BY <1>1, <1>2, <1>3, <1>4
<1> HIDE DEF k
<1>8. True(a, k)
  BY <1>1, <1>4, <1>5, <1>6 DEF True
<1>9. /\ child' \in [state : {"up", "left", "gone"}, live : Fences]
      /\ child'.state = "up"
      /\ \A n \in Spaces : child'.live[n] = IF opened /\ n = ns THEN fences + 1
                                           ELSE child.live[n]
  BY <1>1, <1>2, <1>3, <1>4 DEF Fences
<1>10. /\ active' \in Fences /\ fences' \in Nat
       /\ \A n \in Spaces : active'[n] = IF acts /\ n = ns THEN fences + 1 ELSE active[n]
  BY <1>1, <1>2, <1>3, <1>4 DEF Fences
<1>11. \A n \in Spaces : child'.live[n] # NoFence => active'[n] = child'.live[n]
  BY <1>1, <1>2, <1>4, <1>9, <1>10 DEF ProcessInv, HandleInv
<1>12. \A d \in ProcessCalls : d # c => call'[d] = call[d]
  BY <1>2, <1>7
<1>13. call'[c] = k
  BY <1>1, <1>2, <1>7
<1>14. ASSUME NEW d \in ProcessCalls \ {c}, Served(d)
       PROVE  Served(d)'
  <2>1. call'[d] = call[d] /\ call[d].fence \in Nat /\ call[d].fence # NoFence
    BY <1>12, <1>14, ProcessAssumption DEF Served
  <2>2. CASE child.live[call[d].ns] = call[d].fence
    <3>1. call[d].ns \in Spaces
      <4>1. CASE call[d].op = "none"
        BY <2>1, <4>1 DEF ProcessInv, ProcessTypeOK, NotAsked
      <4>2. CASE call[d].op # "none"
        BY <4>2 DEF ProcessInv, ProcessTypeOK
      <4>. QED BY <4>1, <4>2
    <3>. QED BY <1>4, <1>9, <2>1, <2>2, <3>1 DEF Served
  <2>3. CASE \E e \in ProcessCalls : call[e].op = "close" /\ call[e].fence = call[d].fence
    <3>1. PICK e \in ProcessCalls : call[e].op = "close" /\ call[e].fence = call[d].fence
      BY <2>3
    <3>2. call'[e] = call[e]
      BY <1>1, <1>12, <3>1
    <3>. QED BY <2>1, <3>1, <3>2 DEF Served
  <2>. QED BY <1>14, <2>2, <2>3 DEF Served
<1>15. a = "opened" => Served(c)'
  BY <1>1, <1>2, <1>4, <1>5, <1>6, <1>9, <1>13 DEF Served
<1>. QED
  BY <1>1, <1>3, <1>5, <1>6, <1>7, <1>8, <1>9, <1>10, <1>11, <1>14, <1>15, HandledKeeps

LEMMA TakesStaleKeeps ==
  ASSUME ProcessInv, NEW c, toChild # <<>>, c = Head(toChild), toChild' = Tail(toChild),
         UNCHANGED manager, child.state = "up", TakesStale(c)
  PROVE  ProcessInv'
<1> DEFINE a == IF call[c].op = "close" THEN "closed" ELSE "not_written"
<1>1. /\ c \in ProcessCalls /\ call[c] \in ProcessCall
      /\ ~call[c].applied /\ call[c].op \in {"write", "close"}
  BY TakenRequest DEF TakesStale, ProcessCall
<1>2. /\ call \in [ProcessCalls -> ProcessCall] /\ fences \in Nat /\ active \in Fences
      /\ child \in [state : {"up", "left", "gone"}, live : Fences]
  BY DEF ProcessInv, ProcessTypeOK
<1>3. /\ UNCHANGED <<call, active, fences>> /\ Replies(c, a)
      /\ IF call[c].op = "close" THEN After(child.live) ELSE UNCHANGED child
  BY DEF TakesStale
<1>4. a \in Told \ {"opened", "written"}
  BY DEF Told
<1> HIDE DEF a
<1>5. PICK k \in ProcessCall : k = call[c]
  BY <1>1
<1>6. call' = [call EXCEPT ![c] = k] /\ True(a, k)
  BY <1>1, <1>2, <1>3, <1>4, <1>5 DEF True
<1>7. /\ child' \in [state : {"up", "left", "gone"}, live : Fences]
      /\ child'.live = child.live
      /\ child'.state = "left" => Leaves(child'.live)
  BY <1>2, <1>3 DEF After
<1>8. \A n \in Spaces : child'.live[n] # NoFence => active'[n] = child'.live[n]
  BY <1>3, <1>7 DEF ProcessInv, HandleInv
<1>9. \A d \in ProcessCalls \ {c} : Served(d) => Served(d)'
  BY <1>3, <1>7 DEF Served
<1>. QED BY <1>1, <1>2, <1>3, <1>4, <1>5, <1>6, <1>7, <1>8, <1>9, HandledKeeps

LEMMA TakesCallKeeps ==
  ASSUME ProcessInv, NEW c, NEW throws \in BOOLEAN, NEW stays \in BOOLEAN,
         toChild # <<>>, c = Head(toChild), toChild' = Tail(toChild), UNCHANGED manager,
         child.state = "up", TakesCall(c, throws, stays)
  PROVE  ProcessInv'
<1> DEFINE ns == call[c].ns
           close == call[c].op = "close"
           acts == ~throws \/ stays
           k == IF acts THEN [call[c] EXCEPT !.applied = TRUE] ELSE call[c]
           a == IF throws THEN "uncertain" ELSE IF close THEN "closed" ELSE "written"
           lives == IF close THEN [child.live EXCEPT ![ns] = NoFence] ELSE child.live
<1>1. /\ c \in ProcessCalls /\ call[c] \in ProcessCall /\ ns \in Spaces
      /\ ~call[c].applied /\ call[c].op \in {"write", "close"}
      /\ child.live[ns] = call[c].fence
  BY TakenRequest DEF TakesCall, ProcessCall, Holder
<1>2. /\ call \in [ProcessCalls -> ProcessCall] /\ fences \in Nat /\ active \in Fences
      /\ child \in [state : {"up", "left", "gone"}, live : Fences]
  BY DEF ProcessInv, ProcessTypeOK
<1>3. /\ active' = IF close /\ acts THEN [active EXCEPT ![ns] = NoFence] ELSE active
      /\ call' = IF acts THEN [call EXCEPT ![c] = [call[c] EXCEPT !.applied = TRUE]] ELSE call
      /\ Replies(c, a) /\ After(lives) /\ UNCHANGED fences
  BY DEF TakesCall
<1>4. /\ acts \in BOOLEAN /\ close \in BOOLEAN /\ (throws \/ acts)
  OBVIOUS
<1>5. /\ a \in Told \ {"opened", "not_opened", "not_written"}
      /\ a = "written" => ~throws
  BY DEF Told
<1>6. /\ lives \in Fences
      /\ \A n \in Spaces : lives[n] = IF close /\ n = ns THEN NoFence ELSE child.live[n]
  BY <1>1, <1>2 DEF Fences
<1> HIDE DEF a, acts, lives
<1>7. /\ k \in ProcessCall /\ k.op = call[c].op /\ k.ns = ns /\ k.answer = call[c].answer
      /\ k.fence = call[c].fence /\ (acts => k.applied)
  <2>1. CASE acts
    BY <1>1, <2>1 DEF ProcessCall
  <2>2. CASE ~acts
    BY <1>1, <2>2 DEF ProcessCall
  <2>. QED BY <2>1, <2>2
<1>8. call' = [call EXCEPT ![c] = k]
  BY <1>1, <1>2, <1>3, <1>4
<1> HIDE DEF k
<1>9. True(a, k)
  BY <1>4, <1>5, <1>7 DEF True
<1>10. /\ child' \in [state : {"up", "left", "gone"}, live : Fences]
       /\ child'.live = lives
       /\ child'.state = "left" => Leaves(child'.live)
  BY <1>3, <1>6 DEF After
<1>11. /\ active' \in Fences
       /\ \A n \in Spaces : active'[n] # active[n] => close /\ n = ns
  BY <1>1, <1>2, <1>3 DEF Fences
<1>12. \A n \in Spaces : child'.live[n] # NoFence => active'[n] = child'.live[n]
  BY <1>6, <1>10, <1>11 DEF ProcessInv, HandleInv
<1>13. /\ \A d \in ProcessCalls : d # c => call'[d] = call[d]
       /\ call'[c] = k
  BY <1>1, <1>2, <1>8
<1>14. ASSUME NEW d \in ProcessCalls \ {c}, Served(d)
       PROVE  Served(d)'
  <2>1. call'[d] = call[d] /\ call[d].fence \in Nat /\ call[d].fence # NoFence
    BY <1>13, <1>14, ProcessAssumption DEF Served
  <2>2. CASE child.live[call[d].ns] = call[d].fence
    <3>1. call[d].ns \in Spaces
      <4>1. CASE call[d].op = "none"
        BY <2>1, <4>1 DEF ProcessInv, ProcessTypeOK, NotAsked
      <4>2. CASE call[d].op # "none"
        BY <4>2 DEF ProcessInv, ProcessTypeOK
      <4>. QED BY <4>1, <4>2
    <3>2. CASE close /\ call[d].ns = ns
      BY <1>1, <1>7, <1>13, <2>1, <2>2, <3>2 DEF Served
    <3>3. CASE ~(close /\ call[d].ns = ns)
      BY <1>6, <1>10, <2>1, <2>2, <3>1, <3>3 DEF Served
    <3>. QED BY <3>2, <3>3
  <2>3. CASE \E e \in ProcessCalls : call[e].op = "close" /\ call[e].fence = call[d].fence
    <3>1. PICK e \in ProcessCalls : call[e].op = "close" /\ call[e].fence = call[d].fence
      BY <2>3
    <3>2. call'[e].op = "close" /\ call'[e].fence = call[d].fence
      BY <1>7, <1>13, <3>1
    <3>. QED BY <2>1, <3>1, <3>2 DEF Served
  <2>. QED BY <1>14, <2>2, <2>3 DEF Served
<1>. QED
  BY <1>1, <1>2, <1>3, <1>5, <1>7, <1>8, <1>9, <1>10, <1>11, <1>12, <1>14, HandledKeeps

LEMMA ChildTakesKeeps == ASSUME ProcessInv, ChildTakes PROVE ProcessInv'
<1>1. PICK c : c = Head(toChild)
  OBVIOUS
<1>2. /\ \/ \E throws, stays \in BOOLEAN :
              TakesOpen(c, throws, stays) \/ TakesCall(c, throws, stays)
         \/ TakesStale(c)
      /\ child.state = "up" /\ toChild # <<>> /\ toChild' = Tail(toChild) /\ UNCHANGED manager
  BY <1>1 DEF ChildTakes
<1>3. CASE TakesStale(c)
  BY <1>1, <1>2, <1>3, TakesStaleKeeps
<1>4. CASE \E throws, stays \in BOOLEAN : TakesOpen(c, throws, stays) \/ TakesCall(c, throws, stays)
  <2>1. PICK throws \in BOOLEAN, stays \in BOOLEAN :
          TakesOpen(c, throws, stays) \/ TakesCall(c, throws, stays)
    BY <1>4
  <2>2. CASE TakesOpen(c, throws, stays)
    BY <1>1, <1>2, <2>2, TakesOpenKeeps
  <2>3. CASE TakesCall(c, throws, stays)
    BY <1>1, <1>2, <2>3, TakesCallKeeps
  <2>. QED BY <2>1, <2>2, <2>3
<1>. QED BY <1>2, <1>3, <1>4

\* The child goes, or nothing happens.
LEMMA ChildGoesKeeps ==
  ASSUME ProcessInv, UNCHANGED <<call, manager, toChild, toParent, active, fences>>,
         child' = child \/ child' = [child EXCEPT !.state = "gone"]
  PROVE  ProcessInv'
<1>1. /\ child' \in [state : {"up", "left", "gone"}, live : Fences]
      /\ child'.live = child.live
      /\ child'.state = "left" => child.state = "left"
  BY DEF ProcessInv, ProcessTypeOK
<1>2. ProcessTypeOK' /\ RequestInv' /\ ReplyInv' /\ AnswerInv'
  BY <1>1 DEF ProcessInv, ProcessTypeOK, RequestInv, ReplyInv, AnswerInv
<1>3. HandleInv'
  BY <1>1 DEF ProcessInv, HandleInv, Opened, Served, Leaves
<1>. QED BY <1>2, <1>3 DEF ProcessInv

LEMMA ProcessStepKeeps == ASSUME ProcessInv, [ProcessNext]_processVars PROVE ProcessInv'
<1>1. CASE UNCHANGED processVars
  BY <1>1, ChildGoesKeeps DEF processVars
<1>2. CASE \E c \in ProcessCalls, ns \in Spaces : OpenCall(c, ns)
  BY <1>2, OpenCallKeeps
<1>3. CASE \E c, opener \in ProcessCalls, f \in {"write", "close"} : Use(c, f, opener)
  BY <1>3, UseKeeps
<1>4. CASE Reply
  BY <1>4, ReplyKeeps
<1>5. CASE HearExit \/ ChannelFails
  BY <1>5, ManagerDiesKeeps DEF HearExit, ChannelFails
<1>6. CASE ChildTakes
  BY <1>6, ChildTakesKeeps
<1>7. CASE ChildEnds \/ ChildDies
  BY <1>7, ChildGoesKeeps DEF ChildEnds, ChildDies
<1>. QED BY <1>1, <1>2, <1>3, <1>4, <1>5, <1>6, <1>7 DEF ProcessNext

\* The storage process keeps its inductive invariant, for any calls and namespaces.
THEOREM ProcessInvariant == ProcessSpec => []ProcessInv
<1>1. ProcessInit => ProcessInv
  BY ProcessInitHolds
<1>2. ProcessInv /\ [ProcessNext]_processVars => ProcessInv'
  BY ProcessStepKeeps
<1>. QED BY <1>1, <1>2, PTL DEF ProcessSpec

\* What a caller is told of the store is so, however the child and the channels end, and a
\* handle is served until its close is asked for (journal-sqlite-child.ts, maybeShutdown).
THEOREM RepliesTrue == ProcessSpec => []RepliesAreTrue
<1>1. ASSUME ProcessInv PROVE RepliesAreTrue
  <2>1. AnswersAreTrue
    BY <1>1 DEF ProcessInv, AnswerInv, True, AnswersAreTrue
  <2>2. ASSUME child.state = "left", NEW c \in ProcessCalls, call[c].op = "open",
               call[c].answer = "opened"
        PROVE  \E d \in ProcessCalls : call[d].op = "close" /\ call[d].fence = call[c].fence
    <3>1. Served(c) /\ call[c].ns \in Spaces
      BY <1>1, <2>2 DEF ProcessInv, HandleInv, Opened, ProcessTypeOK
    <3>2. child.live[call[c].ns] = NoFence
      BY <1>1, <2>2, <3>1 DEF ProcessInv, HandleInv, Leaves
    <3>. QED BY <3>1, <3>2, ProcessAssumption DEF Served
  <2>3. HandleIsServed
    BY <1>1, <2>2 DEF ProcessInv, HandleInv, HandleIsServed
  <2>. QED BY <2>1, <2>3 DEF RepliesAreTrue
<1>. QED BY <1>1, ProcessInvariant, PTL
=============================================================================
