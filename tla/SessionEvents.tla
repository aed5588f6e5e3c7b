---------------------------- MODULE SessionEvents ----------------------------
(***************************************************************************)
(* A session's event history (packages/api/src/service.ts, over the        *)
(* JsonLedger of packages/core): two bounded streams that the page pumps   *)
(* write, dropped whole at handback and at teardown, and readers that      *)
(* follow nextCursor through them, with or without a replay filter.        *)
(*                                                                         *)
(* An event is [type, size].  Left out: its payload and redaction, the URL *)
(* pattern and status filters (a filter is the set of types it lets        *)
(* through), the unpaged reads, listeners' own failures.                   *)
(***************************************************************************)
EXTENDS Integers, Sequences, FiniteSets, SequencesExt, FiniteSetsExt

CONSTANTS
  Readers,
  EventTypes,     \* the types pages emit
  RequestTypes,   \* those of them that go to the request ledger
  Sizes,
  MaxEntries, MaxBytes, MaxEntryBytes,   \* JsonLedgerOptions
  ResponseBytes,  \* EVENT_REPLAY_MAX_RESPONSE_BYTES
  PageLimit,
  MaxEvents,      \* bound on events ever offered
  MaxHandbacks    \* bound on handbacks

Streams == {"other", "request"}
StreamOf(type) == IF type \in RequestTypes THEN "request" ELSE "other"

VARIABLES
  owner,     \* the session: "live", "aborted" (its signal), "gone"
  agentActive,     \* its control state is AGENT_ACTIVE
  ledgers,   \* stream -> its ledger, or NoLedger
  cursors,   \* reader -> what it follows
  offered,   \* events offered so far
  written,   \* history: stream -> type at each sequence of this ledger's life
  handbacks  \* history: stream ledgers dropped at handback

eventVars == <<owner, agentActive, ledgers, cursors, offered, written, handbacks>>

NoLedger == [sequence |-> -1, entries |-> <<>>]
NewLedger == [sequence |-> 0, entries |-> <<>>]
NoReader == [stream |-> "none", types |-> {}, filtered |-> FALSE, since |-> -1,
             seen |-> {}, told |-> {}, life |-> 0, began |-> 0]

-----------------------------------------------------------------------------
(* JsonLedger.                                                             *)

\* The bytes of the entries at some places of a ledger.
Bytes(entries, places) == MapThenSumSet(LAMBDA i : entries[i].size, places)

Fits(entries, size) ==
  Len(entries) < MaxEntries /\ Bytes(entries, DOMAIN entries) + size <= MaxBytes

\* The shortest run of oldest entries to evict.
Evict(entries, size) ==
  LET drop == Min({n \in 0 .. Len(entries) :
                     \/ n = Len(entries)
                     \/ Fits(SubSeq(entries, n + 1, Len(entries)), size)})
  IN  SubSeq(entries, drop + 1, Len(entries))

Accepts(event) == event.size <= Min({MaxEntryBytes, MaxBytes})

push(ledger, event) ==
  [sequence |-> ledger.sequence + 1,
   entries |-> Append(Evict(ledger.entries, event.size),
                      [seq |-> ledger.sequence, type |-> event.type, size |-> event.size])]

oldestSeq(ledger) ==
  IF ledger.entries = <<>> THEN ledger.sequence ELSE ledger.entries[1].seq

\* Slip: gap compares with one sequence too low.
GapOneLate(ledger, since) == since < oldestSeq(ledger) - 2
Gap(ledger, since) == since < oldestSeq(ledger) - 1

\* page and scanPage: the entries after the cursor, up to the one that fills
\* the page or, in a filtered read, up to the first row the budget has no room for.
Scan(ledger, since, types, filtered) ==
  LET entries == ledger.entries
      RowsIn(n) == {i \in 1 .. n : entries[i].seq > since /\ entries[i].type \in types}
      Stops(n) == /\ entries[n].seq > since
                  /\ \/ Cardinality(RowsIn(n - 1)) >= PageLimit
                     \/ filtered /\ Bytes(entries, RowsIn(n)) > ResponseBytes
      scanned == Max({n \in 0 .. Len(entries) : \A m \in 1 .. n : ~Stops(m)})
  IN  [rows |-> {entries[i].seq : i \in RowsIn(scanned)},
       lastScanned |-> IF scanned > 0 /\ entries[scanned].seq > since
                       THEN entries[scanned].seq ELSE since]

-----------------------------------------------------------------------------
(* The service.                                                            *)

EventsInit ==
  /\ owner = "live"
  /\ agentActive = TRUE
  /\ ledgers = [s \in Streams |-> NoLedger]
  /\ cursors = [r \in Readers |-> NoReader]
  /\ offered = 0
  /\ written = [s \in Streams |-> <<>>]
  /\ handbacks = 0

canPublishEvents == owner = "live" /\ agentActive

\* recordEvent makes the ledger on demand; an oversized event is dropped.
recordEvent(event) ==
  LET stream == StreamOf(event.type)
      ledger == IF ledgers[stream] = NoLedger THEN NewLedger ELSE ledgers[stream]
      next == IF Accepts(event) THEN push(ledger, event) ELSE ledger
  IN  /\ ledgers' = [ledgers EXCEPT ![stream] = next]
      /\ written' = IF Accepts(event)
                    THEN [written EXCEPT ![stream] = Append(@, event.type)]
                    ELSE written

\* pumpEvents: one event of a page, or one of the service's own scope traces.
\* A pump may outlive its session; it publishes only for the owner it captured.
PumpEvent(type, size) ==
  /\ offered < MaxEvents
  /\ offered' = offered + 1
  /\ IF canPublishEvents THEN recordEvent([type |-> type, size |-> size])
     ELSE UNCHANGED <<ledgers, written>>
  /\ UNCHANGED <<owner, agentActive, cursors, handbacks>>

\* The end of a pump whose page was never announced destroyed.
PumpEnds(type, size) ==
  /\ ledgers["other"] # NoLedger
  /\ StreamOf(type) = "other"
  /\ PumpEvent(type, size)

\* getSessionEvents with since or limit: one type, or a filter over a stream.
\* A reader passes the last nextCursor back; its first read names no cursor.
ReadEvents(r, stream, types, filtered) ==
  /\ owner = "live"
  /\ \/ cursors[r] = NoReader
     \/ <<cursors[r].stream, cursors[r].types, cursors[r].filtered>> = <<stream, types, filtered>>
  /\ LET ledger == ledgers[stream]
         first == cursors[r] = NoReader
         since == cursors[r].since
         page == IF ledger = NoLedger THEN [rows |-> {}, lastScanned |-> since]
                 ELSE Scan(ledger, since, types, filtered)
         missed == IF ledger # NoLedger /\ (first \/ Gap(ledger, since))
                   THEN 0 .. oldestSeq(ledger) - 1 ELSE {}
         Kept(known) == IF cursors[r].life = handbacks THEN known ELSE {}
     IN  cursors' = [cursors EXCEPT ![r] =
           [stream |-> stream, types |-> types, filtered |-> filtered,
            since |-> page.lastScanned,
            seen |-> Kept(cursors[r].seen) \cup page.rows,
            told |-> Kept(cursors[r].told) \cup missed,
            life |-> handbacks, began |-> IF first THEN handbacks ELSE cursors[r].began]]
  /\ UNCHANGED <<owner, agentActive, ledgers, offered, written, handbacks>>

\* A person takes the session over.
PersonTakesOver ==
  /\ owner = "live" /\ agentActive
  /\ agentActive' = FALSE
  /\ UNCHANGED <<owner, ledgers, cursors, offered, written, handbacks>>

\* The resume route: prepareResume, then invalidateControlObservations.
Handback ==
  /\ owner = "live" /\ ~agentActive
  /\ handbacks < MaxHandbacks
  /\ ledgers' = [s \in Streams |-> NoLedger]
  /\ written' = [s \in Streams |-> <<>>]
  /\ handbacks' = handbacks + 1
  /\ UNCHANGED <<owner, agentActive, cursors, offered>>

AgentResumes ==
  /\ owner = "live" /\ ~agentActive /\ handbacks > 0
  /\ agentActive' = TRUE
  /\ UNCHANGED <<owner, ledgers, cursors, offered, written, handbacks>>

\* The coordinator aborts the owner, then forgets it.
Abort ==
  /\ owner = "live"
  /\ owner' = "aborted"
  /\ UNCHANGED <<agentActive, ledgers, cursors, offered, written, handbacks>>

\* deleteSessionState, at the end of closeSession, a crash or the sweep.
deleteSessionState ==
  /\ owner = "aborted"
  /\ owner' = "gone"
  /\ ledgers' = [s \in Streams |-> NoLedger]
  /\ written' = [s \in Streams |-> <<>>]
  /\ UNCHANGED <<agentActive, cursors, offered, handbacks>>

EventsNext ==
  \/ \E type \in EventTypes, size \in Sizes : PumpEvent(type, size) \/ PumpEnds(type, size)
  \/ \E r \in Readers, stream \in Streams, filtered \in BOOLEAN :
       \E types \in SUBSET EventTypes \ {{}} :
         /\ filtered \/ Cardinality(types) = 1
         /\ ReadEvents(r, stream, types, filtered)
  \/ PersonTakesOver \/ Handback \/ AgentResumes \/ Abort \/ deleteSessionState

EventsSpec == EventsInit /\ [][EventsNext]_eventVars

-----------------------------------------------------------------------------
(* Properties.                                                             *)

EventsTypeOK ==
  /\ owner \in {"live", "aborted", "gone"} /\ agentActive \in BOOLEAN
  /\ offered \in Nat /\ handbacks \in Nat
  /\ ledgers \in [Streams ->
       [sequence : Int, entries : Seq([seq : Nat, type : EventTypes, size : Sizes])]]
  /\ written \in [Streams -> Seq(EventTypes)]
  /\ cursors \in [Readers ->
       [stream : Streams \cup {"none"}, types : SUBSET EventTypes, filtered : BOOLEAN,
        since : Int, seen : SUBSET Nat, told : SUBSET Nat, life : Nat, began : Nat]]

Owed(r) ==
  {n \in 0 .. cursors[r].since :
     n < Len(written[cursors[r].stream]) /\ written[cursors[r].stream][n + 1] \in cursors[r].types}

\* A reader that passes nextCursor back has been given every event of its kind
\* up to its cursor, or was told (gap) that events were missing before the
\* oldest one: at every eviction by count or by bytes, page boundary and budget
\* stop, for as long as the ledger it reads is the one it started on.
ReaderKnows ==
  \A r \in Readers :
    cursors[r].stream \in Streams /\ cursors[r].life = handbacks /\ cursors[r].began = handbacks
      => Owed(r) \subseteq cursors[r].seen \cup cursors[r].told

\* No pump that outlives its session leaves a ledger behind once its state was
\* dropped: nothing would ever free it.
LedgerDiesWithSession == owner = "gone" => \A s \in Streams : ledgers[s] = NoLedger

\* A page of events that follows evicted ones says so, and a ledger dies with its session.
ReaderIsTold == EventsTypeOK /\ ReaderKnows /\ LedgerDiesWithSession

\* What the envelope's gap promises of every read with a cursor ("true when
\* entries after the cursor were evicted before this read", and cursors "advance
\* past" what was examined): no event is passed over in silence.
NothingPassedSilently ==
  \A r \in Readers :
    cursors[r].stream \in Streams /\ cursors[r].life = handbacks
      => Owed(r) \subseteq cursors[r].seen \cup cursors[r].told

=============================================================================
