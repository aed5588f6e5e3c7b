---- MODULE MCJournalParts ----
(***************************************************************************)
(* What is kept: the in-process port (OperationJournal), the run that      *)
(* writes through it (JournaledRun), the rows (JournalRecords), the files  *)
(* under them (JournalStore), the restart (JournalRecovery), and what the  *)
(* service keeps of its sessions (ServiceSessions). A behaviour is of one  *)
(* part; the others hold still.                                            *)
(***************************************************************************)
EXTENDS TLC, OperationJournal, JournaledRun, JournalRecords, JournalStore, JournalRecovery, ServiceSessions

VARIABLE part

\* The first namespace expires early, so a later one can retire it.
FirstExpiresEarly == [n \in 1 .. 3 |-> IF n = 1 THEN 1 ELSE 2]

\* A record of the current namespace and one of the namespace before it.
RecordsOf == [new |-> "current", old |-> "past"]


Parts == {"port", "run", "rows", "store", "recovery", "sessions"}

PartsInit ==
  /\ part \in Parts
  /\ Init
  /\ RunInit
  /\ RowsInit
  /\ StoreInit
  /\ RecoveryInit
  /\ part # "recovery" => horizon = [n \in Configured |-> "ahead"] /\ kept["old"] = "absent"
  /\ ServiceInit

PartsNext ==
  /\ UNCHANGED part
  /\ \/ part = "port" /\ Next
     \/ part = "run" /\ RunNext
     \/ part = "rows" /\ RowsNext
     \/ part = "store" /\ StoreNext
     \/ part = "recovery" /\ RecoveryNext
     \/ part = "sessions" /\ ServiceNext
  /\ IF part = "port" THEN TRUE ELSE UNCHANGED vars
  /\ IF part = "run" THEN TRUE ELSE UNCHANGED journaledVars
  /\ IF part = "rows" THEN TRUE ELSE UNCHANGED recordVars
  /\ IF part = "store" THEN TRUE ELSE UNCHANGED storeVars
  /\ IF part = "recovery" THEN TRUE ELSE UNCHANGED recoveryVars
  /\ IF part = "sessions" THEN TRUE ELSE UNCHANGED serviceVars

partsVars == <<part, vars, journaledVars, recordVars, storeVars, recoveryVars,
  serviceVars>>

PartsSpec == PartsInit /\ [][PartsNext]_partsVars
====
