---- MODULE MCEnds ----
(***************************************************************************)
(* What must come to an end: a takeover drains (SessionAuthority), sessions*)
(* end (SessionCoordinator), a close gets through Safari's queue           *)
(* (SafariSession), a dead page leaves the registry (ServicePages), an open*)
(* dialog is settled (PageActs), a call of the storage process is answered *)
(* (JournalProcess). A behaviour is of one part; the others hold still.    *)
(***************************************************************************)
EXTENDS JournalProcess

VARIABLES
  part,
  takeover_state, takeover_epoch, takeover_review, takeover_active,
  takeover_finalized, takeover_records, takeover_tickets, takeover_inc,
  takeover_registered, takeover_agent, takeover_grants, takeover_issued,
  takeover_scopes,
  coordinator_sessions, coordinator_pendingIds, coordinator_contexts,
  coordinator_terminal, coordinator_shutdown, coordinator_shutdownWaits,
  safari_op, safari_queue, safari_pageState, safari_closing, safari_shut,
  safari_sessionGone, safari_window, safari_selected, safari_hits,
  registry_enginePage, registry_stream, registry_pages, registry_ids,
  registry_making, registry_pump, registry_chain, registry_adopting,
  registry_session,
  dialogs_pageAct, dialogs_going, dialogs_gone, dialogs_epoch,
  dialogs_mainRequest, dialogs_dialog, dialogs_timers, dialogs_pending,
  dialogs_pageClosed,
  port_opening, port_openAnswer, port_abandoned, port_handle, port_quarantined,
  port_poisoned, port_closed, port_slots, port_call, port_closing,
  port_closeWaits, port_closeAnswer,
  run_state, run_epoch, run_review, run_active, run_finalized, run_records,
  run_tickets, run_browser, run_health, run_durable, run_raw, run_answer,
  run_dispatch, run_guard, run_open, run_failed, run_phase, run_status,
  run_succeeded, run_outcome

Takeover == INSTANCE SessionAuthority WITH
  Tickets <- {"first", "second"}, NoTicket <- "no ticket",
  OpIds <- {"operation"}, NoOp <- "no operation",
  Fingerprints <- {"print"}, MaxOperations <- 1, MaxReview <- 2,
  MaxRegistrations <- 1, MaxPending <- 2, state <- takeover_state,
  epoch <- takeover_epoch, review <- takeover_review,
  active <- takeover_active, finalized <- takeover_finalized,
  records <- takeover_records, tickets <- takeover_tickets,
  inc <- takeover_inc, registered <- takeover_registered,
  agent <- takeover_agent, grants <- takeover_grants,
  issued <- takeover_issued, scopes <- takeover_scopes

Coordinator == INSTANCE SessionCoordinator WITH
  Ids <- {"only"}, MaxContexts <- 1, MaxSessions <- 2,
  MaxTerminal <- 1, sessions <- coordinator_sessions,
  pendingIds <- coordinator_pendingIds, contexts <- coordinator_contexts,
  terminal <- coordinator_terminal, shutdown <- coordinator_shutdown,
  shutdownWaits <- coordinator_shutdownWaits

Safari == INSTANCE SafariSession WITH
  Windows <- {"v", "w"}, NoWindow <- "no window", Ops <- {"a", "b"},
  Limit <- 1, op <- safari_op, queue <- safari_queue,
  pageState <- safari_pageState, closing <- safari_closing,
  shut <- safari_shut, sessionGone <- safari_sessionGone,
  window <- safari_window, selected <- safari_selected,
  hits <- safari_hits

Registry == INSTANCE ServicePages WITH
  MadePages <- {1}, PopupPages <- {3, 4}, MaxPopups <- 1, MaxIds <- 3,
  enginePage <- registry_enginePage, stream <- registry_stream,
  pages <- registry_pages, ids <- registry_ids,
  making <- registry_making, pump <- registry_pump,
  chain <- registry_chain, adopting <- registry_adopting,
  session <- registry_session

Dialogs == INSTANCE PageActs WITH
  Acts <- {"a", "b"}, Navigations <- {}, MaxRequests <- 0,
  MaxDialogs <- 2, pageAct <- dialogs_pageAct, going <- dialogs_going,
  gone <- dialogs_gone, epoch <- dialogs_epoch,
  mainRequest <- dialogs_mainRequest, dialog <- dialogs_dialog,
  timers <- dialogs_timers, pending <- dialogs_pending,
  pageClosed <- dialogs_pageClosed

Port == INSTANCE OperationJournal WITH
  Calls <- {"a", "b"}, MaxInFlight <- 1, opening <- port_opening,
  openAnswer <- port_openAnswer, abandoned <- port_abandoned,
  handle <- port_handle, quarantined <- port_quarantined,
  poisoned <- port_poisoned, closed <- port_closed, slots <- port_slots,
  call <- port_call, closing <- port_closing,
  closeWaits <- port_closeWaits, closeAnswer <- port_closeAnswer

Run == INSTANCE JournaledRun WITH
  Tickets <- {"ticket"}, NoTicket <- "no ticket",
  OpIds <- {"operation"}, NoOp <- "no operation",
  Fingerprints <- {"print"}, MaxOperations <- 1, MaxReview <- 3,
  Dispatches <- {"one"}, RunTicket <- "ticket", RunOp <- "operation",
  state <- run_state, epoch <- run_epoch, review <- run_review,
  active <- run_active, finalized <- run_finalized,
  records <- run_records, tickets <- run_tickets, browser <- run_browser,
  health <- run_health, durable <- run_durable, raw <- run_raw,
  answer <- run_answer, dispatch <- run_dispatch, guard <- run_guard,
  open <- run_open, failed <- run_failed, phase <- run_phase,
  status <- run_status, succeeded <- run_succeeded,
  outcome <- run_outcome

takeover_vars == <<takeover_state, takeover_epoch, takeover_review,
  takeover_active, takeover_finalized, takeover_records, takeover_tickets,
  takeover_inc, takeover_registered, takeover_agent, takeover_grants,
  takeover_issued, takeover_scopes>>
coordinator_vars == <<coordinator_sessions, coordinator_pendingIds,
  coordinator_contexts, coordinator_terminal, coordinator_shutdown,
  coordinator_shutdownWaits>>
safari_vars == <<safari_op, safari_queue, safari_pageState, safari_closing,
  safari_shut, safari_sessionGone, safari_window, safari_selected,
  safari_hits>>
registry_vars == <<registry_enginePage, registry_stream, registry_pages,
  registry_ids, registry_making, registry_pump, registry_chain,
  registry_adopting, registry_session>>
dialogs_vars == <<dialogs_pageAct, dialogs_going, dialogs_gone, dialogs_epoch,
  dialogs_mainRequest, dialogs_dialog, dialogs_timers, dialogs_pending,
  dialogs_pageClosed>>
port_vars == <<port_opening, port_openAnswer, port_abandoned, port_handle,
  port_quarantined, port_poisoned, port_closed, port_slots, port_call,
  port_closing, port_closeWaits, port_closeAnswer>>
run_vars == <<run_state, run_epoch, run_review, run_active, run_finalized,
  run_records, run_tickets, run_browser, run_health, run_durable, run_raw,
  run_answer, run_dispatch, run_guard, run_open, run_failed, run_phase,
  run_status, run_succeeded, run_outcome>>

Parts == {"takeover", "coordinator", "safari", "registry", "dialogs", "port",
          "process", "run"}

PartsInit ==
  /\ part \in Parts
  /\ Takeover!AuthorityInit
  /\ Coordinator!CoordinatorInit
  /\ Safari!SafariInit
  /\ part # "safari" => safari_selected = "v"
  /\ Registry!PagesInit
  /\ Dialogs!ActsInit
  /\ Port!Init
  /\ ProcessInit
  /\ Run!RunInit

PartsNext ==
  /\ UNCHANGED part
  /\ \/ part = "takeover" /\ Takeover!AuthorityNext
     \/ part = "coordinator" /\ Coordinator!CoordinatorNext
     \/ part = "safari" /\ Safari!SafariNext
     \/ part = "registry" /\ Registry!PagesNext
     \/ part = "dialogs" /\ Dialogs!ActsNext
     \/ part = "port" /\ Port!Next
     \/ part = "process" /\ ProcessNext
     \/ part = "run" /\ Run!RunNext
  /\ IF part = "takeover" THEN TRUE ELSE UNCHANGED takeover_vars
  /\ IF part = "coordinator" THEN TRUE ELSE UNCHANGED coordinator_vars
  /\ IF part = "safari" THEN TRUE ELSE UNCHANGED safari_vars
  /\ IF part = "registry" THEN TRUE ELSE UNCHANGED registry_vars
  /\ IF part = "dialogs" THEN TRUE ELSE UNCHANGED dialogs_vars
  /\ IF part = "port" THEN TRUE ELSE UNCHANGED port_vars
  /\ IF part = "process" THEN TRUE ELSE UNCHANGED processVars
  /\ IF part = "run" THEN TRUE ELSE UNCHANGED run_vars

partsVars == <<part, takeover_vars, coordinator_vars, safari_vars,
  registry_vars, dialogs_vars, port_vars, processVars, run_vars>>

\* The fairness of the parts, each while the behaviour is of it.
PartsFairness ==
  /\ \A t \in {"first", "second"} : WF_takeover_vars(part = "takeover" /\ Takeover!Settles(t))
  /\ \A t \in {"first", "second"} : WF_takeover_vars(part = "takeover" /\ Takeover!Continues(t))
  /\ WF_coordinator_vars(part = "coordinator" /\ Coordinator!Cleanup)
  /\ \A c \in {1} : WF_coordinator_vars(part = "coordinator" /\ Coordinator!Expires(c))
  /\ \A o \in {"a", "b"} : WF_safari_vars(part = "safari" /\ Safari!Serve(o))
  /\ WF_registry_vars(part = "registry" /\ Registry!Pumps)
  /\ WF_registry_vars(part = "registry" /\ Registry!DropsEnded)
  /\ \A d \in 1 .. 2 : WF_dialogs_vars(part = "dialogs" /\ Dialogs!GraceEnds(d))
  /\ WF_port_vars(part = "port" /\ Port!OpenExpires)
  /\ WF_port_vars(part = "port" /\ Port!OpenDelivers)
  /\ WF_port_vars(part = "port" /\ Port!OpenStarts)
  /\ \A c \in {"a", "b"} : WF_port_vars(part = "port" /\ Port!Enqueue(c))
  /\ \A c \in {"a", "b"} : WF_port_vars(part = "port" /\ Port!StartRaw(c))
  /\ \A c \in {"a", "b"} : WF_port_vars(part = "port" /\ Port!WaitExpires(c))
  /\ WF_port_vars(part = "port" /\ Port!RawClose)
  /\ WF_port_vars(part = "port" /\ Port!CloseExpires)
  /\ WF_processVars(part = "process" /\ Reply)
  /\ WF_processVars(part = "process" /\ ChildTakes)
  /\ WF_processVars(part = "process" /\ ChildEnds)
  /\ WF_processVars(part = "process" /\ HearExit)
  /\ \A c \in Run!RunCalls : WF_run_vars(part = "run" /\ Run!CallExpires(c))
  /\ WF_run_vars(part = "run" /\ Run!Continuations)

PartsSpec == PartsInit /\ [][PartsNext]_partsVars /\ PartsFairness

\* A pause that was requested is reached: the admitted work ends.
TakeoverDrains == part = "takeover" => Takeover!TakeoverDrains

\* A session with a lifetime ends.
SessionsEnd == part = "coordinator" => Coordinator!SessionsEnd

\* A close is served, however full the queue is.
CloseGetsThrough == part = "safari" => Safari!CloseGetsThrough

\* Every caller of the journal port, of the storage process and of a
\* journaled run is answered, whatever the layers below do.
JournalCallsAreAnswered ==
  /\ part = "port" => Port!CallersAnswered
  /\ part = "process" => EveryCallSettles
  /\ part = "run" => Run!CallerAlwaysAnswered

\* A registry entry whose page is gone leaves, and a dialog nobody answers is
\* settled after its grace.
PageEventsAreServed ==
  /\ part = "registry" => Registry!DeadPageLeaves
  /\ part = "dialogs" => Dialogs!DialogSettled
====
