---- MODULE MCControlParts ----
(***************************************************************************)
(* Control of a session and what it admits: control itself                 *)
(* (SessionControl), the approvals bound to sessions (ApprovalGate), and   *)
(* the reviewed acts that spend them (ReviewedAct, over the same tokens).  *)
(* A behaviour is of one part; the others hold still. The two tickets and  *)
(* the two acts of the parts are the same interchangeable pair.            *)
(***************************************************************************)
EXTENDS TLC, SessionControl, ReviewedAct

VARIABLE part

\* What the classifier and the policies may say of an act.
Reviewed ==
  {[risk |-> "routine", decision |-> "allow", deferred |-> FALSE],
   [risk |-> "unknown", decision |-> "required", deferred |-> FALSE],
   [risk |-> "unknown", decision |-> "required", deferred |-> TRUE],
   [risk |-> "high", decision |-> "required", deferred |-> TRUE],
   [risk |-> "high", decision |-> "deny", deferred |-> FALSE]}

Symmetry == Permutations(Tickets) \cup Permutations(OpIds)

Parts == {"control", "gate", "act"}

\* What the acts keep beside the gate's tokens.
actsVars == <<sessionVars, act, leaseVars, reseedVars>>

PartsInit ==
  /\ part \in Parts
  /\ ControlInit
  /\ ReviewInit
  /\ part # "act" => ~controlled /\ ~marked

PartsNext ==
  /\ UNCHANGED part
  /\ \/ part = "control" /\ ControlNext /\ UNCHANGED reviewVars
     \/ part = "gate" /\ ApprovalsNext /\ UNCHANGED <<controlVars, actsVars>>
     \/ part = "act" /\ ReviewNext /\ UNCHANGED controlVars

partsVars == <<part, controlVars, reviewVars>>

PartsSpec == PartsInit /\ [][PartsNext]_partsVars
====
