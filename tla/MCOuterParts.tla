---- MODULE MCOuterParts ----
(***************************************************************************)
(* What surrounds the service: requests through the HTTP plane (HttpPlane),*)
(* two racing calls of a few routes, or one call of any route; and the     *)
(* login browser (LoginBrowser). A behaviour is of one part; the others    *)
(* hold still.                                                             *)
(***************************************************************************)
EXTENDS TLC, HttpPlane, LoginBrowser

VARIABLES
  part

Everything == {<<r.method, r.name>> : r \in RouteTable}

RouteNames == {r.name : r \in RouteTable}

Symmetry == Permutations(Tickets) \cup Permutations(Calls)

\* The routes two racing calls are offered: a write, a read of its operation, the
\* deletion of the session.
Several == {<<"POST", "act">>, <<"GET", "operation">>, <<"DELETE", "session">>}

\* Nobody has asked for anything yet.
Quiet == \A c \in Calls : At(c, "idle")

\* Of "http" both calls are sent, of "routes" one, and control changes less.
Requests ==
  \/ part = "http" /\ (Asks(Several) \/ Serves)
  \/ part = "routes" /\ (Serves \/ (Quiet /\ Asks(Offered))) /\ review' <= 3

Parts == {"http", "routes", "login"}

PartsInit ==
  /\ part \in Parts
  /\ Init
  /\ part = "login" => controlled = FALSE
  /\ LoginInit
  /\ part # "login" => chosen = "bundled"

PartsNext ==
  /\ UNCHANGED part
  /\ \/ Requests
     \/ part = "login" /\ LoginNext
  /\ IF part = "login" THEN UNCHANGED vars ELSE UNCHANGED loginVars

partsVars == <<part, vars, loginVars>>

PartsSpec == PartsInit /\ [][PartsNext]_partsVars
====
