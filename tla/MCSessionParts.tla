---- MODULE MCSessionParts ----
(***************************************************************************)
(* A session from its creation to its end: the coordinator of engine       *)
(* sessions (SessionCoordinator), the authority of its owner over two      *)
(* registrations (SessionAuthority), the events a reader is handed         *)
(* (SessionEvents), and the pages the service registers (ServicePages). A  *)
(* behaviour is of one part; the others hold still.                        *)
(***************************************************************************)
EXTENDS SessionAuthority, SessionCoordinator, SessionEvents, ServicePages

VARIABLE part


Parts == {"coordinator", "authority", "events", "registry"}

PartsInit ==
  /\ part \in Parts
  /\ CoordinatorInit
  /\ AuthorityInit
  /\ EventsInit
  /\ PagesInit

PartsNext ==
  /\ UNCHANGED part
  /\ \/ part = "coordinator" /\ CoordinatorNext
     \/ part = "authority" /\ AuthorityNext
     \/ part = "events" /\ EventsNext
     \/ part = "registry" /\ PagesNext
  /\ IF part = "coordinator" THEN TRUE ELSE UNCHANGED coordinatorVars
  /\ IF part = "authority" THEN TRUE ELSE UNCHANGED sessionVars
  /\ IF part = "events" THEN TRUE ELSE UNCHANGED eventVars
  /\ IF part = "registry" THEN TRUE ELSE UNCHANGED pagesVars

partsVars == <<part, coordinatorVars, sessionVars, eventVars, pagesVars>>

PartsSpec == PartsInit /\ [][PartsNext]_partsVars
====
