---- MODULE MCServiceParts ----
(***************************************************************************)
(* What the service does with a session: the plan (PlanRun), the           *)
(* application outcome (ApplicationOutcome), autofill (Autofill), the      *)
(* engagement scope (EngagementScope), and downloads (Downloads). A        *)
(* behaviour is of one part; the others hold still.                        *)
(***************************************************************************)
EXTENDS TLC, Downloads, PlanRun, ApplicationOutcome, EngagementScope, Autofill

VARIABLE part

\* A request of the program, one its path rule refuses, one of a dependency.
Asked ==
  {[host |-> "program", kind |-> "page", breaks |-> {}],
   [host |-> "program", kind |-> "page", breaks |-> {"path"}],
   [host |-> "vendor", kind |-> "dependency", breaks |-> {}]}

\* The engagement scope does not tell its requests apart.
Alike == Permutations(Queries)

Parts == {"downloads", "plan", "application", "autofill", "scope"}

PartsInit ==
  /\ part \in Parts
  /\ DownloadsInit
  /\ PlanInit
  /\ part # "plan" => dom = <<"saved">> /\ churn = 0
  /\ OutcomeInit
  /\ FillInit
  /\ part # "autofill" => options.onVerifyFail = "fail" /\ ~options.scope /\ ~options.verify /\
       ~options.skipsAmbiguous /\ ~options.widget /\
       controls[1].shown = "ready" /\ controls[2].shown = "ready"
  /\ ScopeInit
  /\ part # "scope" => rate = 0

PartsNext ==
  /\ UNCHANGED part
  /\ \/ part = "downloads" /\ Next
     \/ part = "plan" /\ PlanNext
     \/ part = "application" /\ OutcomeNext
     \/ part = "autofill" /\ FillNext
     \/ part = "scope" /\ ScopeNext
  /\ IF part = "downloads" THEN TRUE ELSE UNCHANGED vars
  /\ IF part = "plan" THEN TRUE ELSE UNCHANGED planVars
  /\ IF part = "application" THEN TRUE ELSE UNCHANGED outcomeVars
  /\ IF part = "autofill" THEN TRUE ELSE UNCHANGED fillVars
  /\ IF part = "scope" THEN TRUE ELSE UNCHANGED scopeVars

partsVars == <<part, vars, planVars, outcomeVars, fillVars, scopeVars>>

PartsSpec == PartsInit /\ [][PartsNext]_partsVars
====
