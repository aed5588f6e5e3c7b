---- MODULE MCEngineParts ----
(***************************************************************************)
(* What the Playwright engine does inside one session and across them: its *)
(* browsers (EngineLifecycle), the page and file registry (SessionPages),  *)
(* references (PageRefs), page input (PageInput), acts and dialogs         *)
(* (PageActs), reads (PageRead), the request choke point (ChokePoint), and *)
(* form identity (FormIdentity); and a session of the Safari engine        *)
(* (SafariSession). A behaviour is of one part; the others hold still.     *)
(***************************************************************************)
EXTENDS TLC, EngineLifecycle, PageRead, ChokePoint, PageInput, PageActs, PageRefs, FormIdentity,
        SessionPages, SafariSession

CONSTANTS s3

VARIABLE part

\* The requests the choke point meets: a document, a body for the page's own origin or
\* for another one, and a probe of each lane.
Judged == {[body |-> FALSE, cross |-> FALSE, probe |-> FALSE],
           [body |-> TRUE, cross |-> FALSE, probe |-> FALSE],
           [body |-> TRUE, cross |-> TRUE, probe |-> FALSE],
           [body |-> FALSE, cross |-> FALSE, probe |-> TRUE],
           [body |-> TRUE, cross |-> FALSE, probe |-> TRUE]}

\* Pages that open popups, or one page that is sent files.
RegistryStep ==
  /\ RegistryNext
  /\ (\A f \in Files : file'[f].at = "none") \/ (\A p \in Popups : raw'[p] = "none")

\* Two sessions of any kind, or three that attach.
LifeStep ==
  Next /\ (session'[s3].kind = None \/ \A s \in Sessions : session'[s].kind \in {None, "attach"})

\* A page with popups, whose form changes under one caller; or none, and a form that
\* holds still under three callers and two frames.
PopupLists == \E c \in Combos : markup.refers[c] # {}
FormsBegin ==
  /\ FormInit
  /\ PopupLists \/ (form = "x" /\ \A e \in Lists \cup Plain : markup.id[e] = "m")
FormsStep ==
  /\ FormNext
  /\ IF PopupLists THEN frameDoc'["sub"].root = 0 /\ \A c \in FormCallers \ {"f"} : call'[c] = call[c]
     ELSE form' = form


Parts == {"life", "pages", "refs", "input", "acts", "read", "choke", "forms",
          "safari"}

PartsInit ==
  /\ part \in Parts
  /\ Init
  /\ RegistryInit
  /\ part # "pages" => attached = FALSE
  /\ RefInit
  /\ PageInputInit
  /\ ActsInit
  /\ ReadInit
  /\ ChokeInit
  /\ part # "choke" => hasGuard
  /\ FormsBegin
  /\ part # "forms" => ~PopupLists
  /\ SafariInit
  /\ part # "safari" => selected = "v"

PartsNext ==
  /\ UNCHANGED part
  /\ \/ part = "life" /\ LifeStep
     \/ part = "pages" /\ RegistryStep
     \/ part = "refs" /\ RefNext
     \/ part = "input" /\ InputNext
     \/ part = "acts" /\ ActsNext
     \/ part = "read" /\ ReadNext
     \/ part = "choke" /\ ChokeNext
     \/ part = "forms" /\ FormsStep
     \/ part = "safari" /\ SafariNext
  /\ IF part = "life" THEN TRUE ELSE UNCHANGED vars
  /\ IF part = "pages" THEN TRUE ELSE UNCHANGED registryVars
  /\ IF part = "refs" THEN TRUE ELSE UNCHANGED refVars
  /\ IF part = "input" THEN TRUE ELSE UNCHANGED inputVars
  /\ IF part = "acts" THEN TRUE ELSE UNCHANGED actsVars
  /\ IF part = "read" THEN TRUE ELSE UNCHANGED readVars
  /\ IF part = "choke" THEN TRUE ELSE UNCHANGED chokeVars
  /\ IF part = "forms" THEN TRUE ELSE UNCHANGED formVars
  /\ IF part = "safari" THEN TRUE ELSE UNCHANGED safariVars

partsVars == <<part, vars, registryVars, refVars, inputVars, actsVars,
  readVars, chokeVars, formVars, safariVars>>

PartsSpec == PartsInit /\ [][PartsNext]_partsVars
====
