-------------------------- MODULE DurableOperation --------------------------
(***************************************************************************)
(* What a durable operation promises to whoever reads its journal record,  *)
(* at any time, a crash of the service included: the record never says     *)
(* less than what was done to the browser or the application, and readers  *)
(* of the live service are never told more than the record holds.          *)
(***************************************************************************)
EXTENDS FiniteSets

CONSTANT Effects   \* the effects the operation may attempt

VARIABLES
  fact,      \* the durable record: NoRecord, or a status and a dispatched flag
  told,      \* what readers of the live operation are told of it
  started,   \* effects that have begun
  settled    \* effects that are over

durableVars == <<fact, told, started, settled>>

Entry(status, dispatched) == [status |-> status, dispatched |-> dispatched]
NoRecord == Entry("none", FALSE)
Intent == Entry("in_flight", FALSE)
Marker == Entry("in_flight", TRUE)

\* A record that closes the operation.  Before the marker only "failed" can;
\* "completed" needs an effect, and every effect over.
Closing ==
  IF fact = Intent
    THEN {Entry("failed", FALSE)}
    ELSE {Entry("failed", TRUE), Entry("outcome_unknown", TRUE)}
         \cup (IF started # {} /\ settled = started THEN {Entry("completed", TRUE)} ELSE {})

DurableInit ==
  /\ fact = NoRecord
  /\ told = NoRecord
  /\ started = {}
  /\ settled = {}

Reserve == fact = NoRecord /\ fact' = Intent /\ UNCHANGED <<told, started, settled>>

Mark == fact = Intent /\ fact' = Marker /\ UNCHANGED <<told, started, settled>>

\* An effect begins only under a marker that is durable and already told.
Start(d) ==
  /\ fact = Marker
  /\ told = Marker
  /\ d \notin started
  /\ started' = started \cup {d}
  /\ UNCHANGED <<fact, told, settled>>

Settle(d) ==
  /\ d \in started \ settled
  /\ settled' = settled \cup {d}
  /\ UNCHANGED <<fact, told, started>>

Close ==
  /\ fact \in {Intent, Marker}
  /\ fact' \in Closing
  /\ UNCHANGED <<told, started, settled>>

\* Readers learn only what the record says now.
Tell == told # fact /\ told' = fact /\ UNCHANGED <<fact, started, settled>>

DurableNext ==
  \/ Reserve
  \/ Mark
  \/ \E d \in Effects : Start(d) \/ Settle(d)
  \/ Close
  \/ Tell

DurableSpec == DurableInit /\ [][DurableNext]_durableVars
=============================================================================
