------------------------------ MODULE Autofill ------------------------------
(***************************************************************************)
(* One autofill: api/src/autofill.ts, runAutofill and its strategies.      *)
(*                                                                         *)
(* The fields are filled in order over a page that answers back: between   *)
(* any two steps a field's control may be replaced, hidden, doubled or     *)
(* rewritten and the page may leave the mapped stage.  An observation may  *)
(* come back incomplete, the time may run out and the session's authority  *)
(* may be lost.  The run reports one receipt a field and, if the stage is  *)
(* still known to be the mapped one, an artifact of the page.              *)
(*                                                                         *)
(* A native strategy writes in one action; a widget strategy takes Steps   *)
(* of them, with an observation between two.  What a value is does not     *)
(* matter, only whether the control shows the one asked for.               *)
(***************************************************************************)
EXTENDS Naturals, FiniteSets

CONSTANTS
  FieldCount,     \* fields of the request, filled in order
  Steps,          \* actions a widget strategy takes
  MaxReobserve,   \* policy: times an absence or a mismatch is looked at again
  MaxChanges      \* bound: times the page changes by itself

ASSUME AutofillAssumption == FieldCount \in Nat \ {0}

Fields == 1..FieldCount

VARIABLES
  options,        \* what was asked: scope, policy and each field's strategy
  controls,       \* field -> what its match resolves to: a node; whether that is ready,
                  \* hidden, absent or double; whether it shows the right value, or
                  \* has its value withheld
  onStage,        \* whether the page is at the mapped URL
  changes,        \* times the page changed by itself
  expired,        \* the deadline has passed
  authorityGone,  \* the session's authority is lost
  runAt,          \* where the run stands
  at,             \* the field it is at
  tries,          \* looks or actions taken there
  fieldWrite,     \* of the field's write: not_started, dispatched, completed
  identities,     \* field -> the node the run committed to, 0 for none
  pins,           \* field -> the node the mapped stage was pinned to
  scopeValid,     \* the last observation found the mapped stage
  receipts,       \* field -> its receipt
  written,        \* field -> whether an action of the run had an effect on it
  stageKnown,     \* a complete observation of the stage followed the last action
  held,           \* the fields seen right by the final observation
  artifact        \* an artifact of the page was taken

fillVars ==
  <<options, controls, onStage, changes, expired, authorityGone, runAt, at, tries,
    fieldWrite, identities, pins, scopeValid, receipts, written, stageKnown, held, artifact>>

world == <<options, controls, onStage, changes, expired, authorityGone>>
progress == <<at, tries, fieldWrite, identities>>
outcome == <<receipts, written, held, artifact>>

FillInit ==
  /\ options \in [scope : BOOLEAN, onVerifyFail : {"fail", "retry", "skip"},
                  skipsAmbiguous : BOOLEAN, widget : BOOLEAN, verify : BOOLEAN]
  /\ controls \in [Fields -> {[node |-> 1, shown |-> s, right |-> FALSE,
                           withheld |-> FALSE] : s \in {"ready", "absent"}}]
  /\ onStage = TRUE /\ changes = 0 /\ expired = FALSE /\ authorityGone = FALSE
  /\ runAt = IF options.scope THEN "preflight" ELSE "values"
  /\ at = 1 /\ tries = 0 /\ fieldWrite = "not_started"
  /\ identities = [f \in Fields |-> 0]
  /\ pins = [f \in Fields |-> 0]
  /\ scopeValid = ~options.scope
  /\ receipts = [f \in Fields |-> [status |-> "not_attempted", code |-> "none"]]
  /\ written = [f \in Fields |-> FALSE]
  /\ stageKnown = ~options.scope
  /\ held = {}
  /\ artifact = FALSE

(***************************************************************************)
(* The page, the clock and the session go their own way: the page changes  *)
(* in what this run will look at.                                          *)
(***************************************************************************)

FillRuns == runAt \notin {"done", "thrown"}

run == <<runAt, progress, pins, scopeValid, outcome, stageKnown>>

PageChanges(f) ==
  /\ FillRuns /\ changes < MaxChanges
  /\ changes' = changes + 1
  /\ \/ \E s \in {"ready", "hidden", "absent", "double"} \ {controls[f].shown} :
          controls' = [controls EXCEPT ![f].shown = s] /\ UNCHANGED onStage
     \/ controls' = [controls EXCEPT ![f].node = @ + 1, ![f].right = FALSE] /\ UNCHANGED onStage
     \/ options.verify /\ controls' = [controls EXCEPT ![f].right = ~@] /\ UNCHANGED onStage
     \/ options.verify /\ controls' = [controls EXCEPT ![f].withheld = TRUE] /\ UNCHANGED onStage
     \/ options.scope /\ onStage' = ~onStage /\ UNCHANGED controls
  /\ UNCHANGED <<options, expired, authorityGone, run>>

DeadlinePasses ==
  /\ FillRuns /\ ~expired
  /\ expired' = TRUE
  /\ UNCHANGED <<options, controls, onStage, changes, authorityGone, run>>

AuthorityLost ==
  /\ FillRuns /\ ~authorityGone
  /\ authorityGone' = TRUE
  /\ UNCHANGED <<options, controls, onStage, changes, expired, run>>

(***************************************************************************)
(* Observing.                                                              *)
(***************************************************************************)

guard == ~expired /\ ~authorityGone

Ready(f) == controls[f].shown = "ready"

\* The mapped stage: its URL, and every field one ready control that is
\* the one pinned.
OnMappedStage ==
  /\ onStage
  /\ \A f \in Fields : Ready(f) /\ pins[f] \in {0, controls[f].node}

\* A complete observation; with a scope, one that finds the mapped stage.
Observed ==
  /\ guard
  /\ options.scope => OnMappedStage

observe ==
  /\ Observed
  /\ scopeValid' = TRUE
  /\ pins' = IF options.scope THEN [f \in Fields |-> controls[f].node] ELSE pins
  /\ stageKnown' = TRUE

\* It may always come back truncated or degraded, and with a scope it then
\* leaves the scope unknown.
observeFails ==
  /\ scopeValid' = ~options.scope
  /\ UNCHANGED <<pins, stageKnown>>

Records(f, status, code) ==
  receipts' = [receipts EXCEPT ![f] = [status |-> status, code |-> code]]

To(where) == runAt' = where

\* The next field, or the end of them.
NextField ==
  /\ fieldWrite' = "not_started" /\ tries' = 0
  /\ IF at < FieldCount THEN at' = at + 1 /\ To("find") ELSE at' = at /\ To("final")

(***************************************************************************)
(* Before any write: the mapped stage is checked and the values resolved.  *)
(***************************************************************************)

Preflight ==
  /\ runAt = "preflight"
  /\ \/ /\ observe /\ To("values")
        /\ UNCHANGED receipts
     \/ /\ ~authorityGone /\ observeFails
        /\ \E f \in Fields : Records(f, "failed", "preflight")
        /\ To("artifact")
     \/ authorityGone /\ To("thrown") /\ UNCHANGED <<receipts, scopeValid, pins, stageKnown>>
  /\ UNCHANGED <<world, progress, written, held, artifact>>

\* Out of time or of authority here, or a value too long, the whole run
\* throws; nothing was written.
ResolveValues ==
  /\ runAt = "values"
  /\ (guard /\ To("find")) \/ To("thrown")
  /\ UNCHANGED <<world, progress, pins, scopeValid, stageKnown, outcome>>

(***************************************************************************)
(* One field.                                                              *)
(***************************************************************************)

\* Once a dispatch was reported the outcome is uncertain.
Failed(code) ==
  IF options.skipsAmbiguous /\ fieldWrite = "not_started" /\ code = "ambiguous"
  THEN Records(at, "skipped", code)
  ELSE Records(at, IF fieldWrite = "not_started" THEN "failed" ELSE "uncertain", code)

\* The catch of the field loop: authority lost escapes, an ambiguous field
\* may be skipped, anything else ends the loop.
Catch(code) ==
  IF authorityGone
  THEN To("thrown") /\ UNCHANGED <<receipts, at, tries, fieldWrite>>
  ELSE /\ Failed(code)
       /\ IF options.skipsAmbiguous /\ fieldWrite = "not_started" /\ code = "ambiguous"
          THEN NextField
          ELSE To("final") /\ UNCHANGED <<at, tries, fieldWrite>>

\* The control is found, once it is absent no more.
Find ==
  /\ runAt = "find"
  /\ \/ /\ observe
        /\ CASE controls[at].shown = "ready" ->
                  /\ identities' = [identities EXCEPT ![at] = controls[at].node]
                  /\ To("write") /\ tries' = 0
                  /\ UNCHANGED <<receipts, at, fieldWrite>>
             [] controls[at].shown = "hidden" ->
                  Records(at, "skipped", "hidden") /\ NextField
                  /\ UNCHANGED identities
             [] controls[at].shown = "double" ->
                  Catch("ambiguous") /\ UNCHANGED identities
             [] controls[at].shown = "absent" /\ tries < MaxReobserve ->
                  tries' = tries + 1
                  /\ UNCHANGED <<runAt, receipts, at, fieldWrite, identities>>
             [] OTHER -> Catch("not_found") /\ UNCHANGED identities
     \/ /\ observeFails
        /\ Catch("unobserved") /\ UNCHANGED identities
  /\ UNCHANGED <<world, written, held, artifact>>

LastStep == ~options.widget \/ tries + 1 = Steps

\* An action may run page code: only an observation after it can tell.
RevokedScope == scopeValid' = ~options.scope

\* One action of the strategy.  It takes effect or not, and is reported
\* dispatched if it does; it may fail after as before.
WriteAction ==
  /\ runAt = "write" /\ guard
  /\ RevokedScope
  /\ stageKnown' = ~options.scope
  /\ \E effect \in BOOLEAN, fine \in BOOLEAN, lands \in BOOLEAN :
       /\ fine => effect
       /\ written' = [written EXCEPT ![at] = @ \/ effect]
       /\ controls' = [controls EXCEPT ![at].right = IF effect THEN lands ELSE @]
       /\ lands => effect /\ LastStep
       /\ fieldWrite' = IF fine /\ LastStep THEN "completed"
                       ELSE IF effect THEN "dispatched" ELSE fieldWrite
       /\ To(IF ~fine THEN "caught" ELSE IF LastStep THEN "wrote" ELSE "between")
  /\ tries' = tries + 1
  /\ UNCHANGED <<options, onStage, changes, expired, authorityGone, at, identities, pins,
                 receipts, held, artifact>>

\* A navigation the action caused was blocked: a native write is whole, yet
\* the run stops there.
NavigationBlocked ==
  /\ runAt = "write" /\ guard
  /\ RevokedScope
  /\ stageKnown' = ~options.scope
  /\ written' = [written EXCEPT ![at] = TRUE]
  /\ \E lands \in BOOLEAN : controls' = [controls EXCEPT ![at].right = lands]
  /\ fieldWrite' = IF options.widget THEN "dispatched" ELSE "completed"
  /\ Records(at, IF ~options.widget /\ ~options.verify THEN "unverified" ELSE "uncertain",
             "navigation")
  /\ To("final")
  /\ UNCHANGED <<options, onStage, changes, expired, authorityGone, at, tries, identities,
                 pins, held, artifact>>

\* Between two actions of a widget the control is looked for again, and
\* must be the same.
Between ==
  /\ runAt = "between"
  /\ \/ /\ observe
        /\ IF Ready(at) /\ controls[at].node = identities[at]
           THEN To("write") /\ UNCHANGED <<receipts, at, tries, fieldWrite>>
           ELSE Catch("stale")
     \/ observeFails /\ Catch("unobserved")
  /\ UNCHANGED <<world, identities, written, held, artifact>>

\* Caught: the action failed, or the guard before or after it did.
Caught ==
  /\ runAt = "caught" \/ (runAt \in {"write", "wrote"} /\ ~guard)
  /\ Catch("action")
  /\ UNCHANGED <<world, identities, pins, scopeValid, stageKnown, written, held,
                 artifact>>

\* verify: none.
Unverified ==
  /\ runAt = "wrote" /\ guard /\ ~options.verify
  /\ Records(at, "unverified", "none") /\ NextField
  /\ UNCHANGED <<world, identities, pins, scopeValid, stageKnown, written, held,
                 artifact>>

Wrote ==
  /\ runAt = "wrote" /\ guard /\ options.verify
  /\ To("verify") /\ tries' = 0
  /\ UNCHANGED <<world, at, fieldWrite, identities, pins, scopeValid, stageKnown,
                 outcome>>

\* The control is not the one the run wrote, or not one control any more.
Misses(f) == controls[f].node # identities[f] \/ controls[f].shown \in {"absent", "double"}

\* The control written is looked at again, never written again.
Verify ==
  /\ runAt = "verify"
  /\ \/ /\ observe
        /\ IF Misses(at) THEN Catch("stale")
           ELSE IF controls[at].withheld
           THEN Records(at, "unverified", "withheld") /\ NextField
           ELSE IF controls[at].right
           THEN Records(at, "verified", "none") /\ NextField
           ELSE IF options.onVerifyFail = "retry" /\ tries < MaxReobserve
           THEN tries' = tries + 1 /\ UNCHANGED <<runAt, receipts, at, fieldWrite>>
           ELSE /\ Records(at, "failed", "mismatch")
                /\ IF options.onVerifyFail = "skip" THEN NextField
                   ELSE To("final") /\ UNCHANGED <<at, tries, fieldWrite>>
     \/ observeFails /\ Catch("unobserved")
  /\ UNCHANGED <<world, identities, written, held, artifact>>

(***************************************************************************)
(* After the fields: what was verified is looked at once more, together.   *)
(***************************************************************************)

Verified == {f \in Fields : receipts[f].status = "verified"}

\* Slip: what was once verified stays so.
StillVerified(f) == receipts[f]

FinalReceipt(f) ==
  IF Misses(f) THEN [status |-> "uncertain", code |-> "stale"]
  ELSE IF controls[f].right THEN receipts[f]
  ELSE IF controls[f].withheld THEN [status |-> "unverified", code |-> "withheld"]
  ELSE [status |-> "failed", code |-> "mismatch"]

NothingVerified ==
  /\ runAt = "final" /\ Verified = {}
  /\ To("artifact")
  /\ UNCHANGED <<world, progress, pins, scopeValid, stageKnown, outcome>>

FinalVerification ==
  /\ runAt = "final" /\ Verified # {}
  /\ \/ /\ observe
        /\ receipts' = [f \in Fields |-> IF f \in Verified THEN FinalReceipt(f)
                                         ELSE receipts[f]]
        /\ held' = {f \in Fields : controls[f].right /\ controls[f].node = identities[f]}
        /\ To("artifact")
     \/ /\ ~authorityGone /\ observeFails
        /\ receipts' = [f \in Fields |-> IF f \in Verified
                          THEN [status |-> "uncertain", code |-> "unavailable"]
                          ELSE receipts[f]]
        /\ To("artifact") /\ UNCHANGED held
     \/ authorityGone /\ To("thrown") /\ UNCHANGED <<receipts, held, scopeValid, pins, stageKnown>>
  /\ UNCHANGED <<world, progress, written, artifact>>

\* The artifact is of the mapped stage or it is not taken; a report is only
\* given while the authority holds.
Report ==
  /\ runAt = "artifact"
  /\ IF authorityGone THEN To("thrown") /\ UNCHANGED artifact
     ELSE To("done") /\ artifact' \in {FALSE, guard /\ scopeValid}
  /\ UNCHANGED <<world, progress, pins, scopeValid, stageKnown, receipts, written,
                 held>>

FillStep ==
  \/ Preflight \/ ResolveValues \/ Find \/ WriteAction \/ NavigationBlocked
  \/ Between \/ Caught \/ Unverified \/ Wrote \/ Verify
  \/ NothingVerified \/ FinalVerification \/ Report

FillNext ==
  \/ FillStep
  \/ \E f \in Fields : PageChanges(f)
  \/ DeadlinePasses \/ AuthorityLost

FillSpec == FillInit /\ [][FillNext]_fillVars

(***************************************************************************)
(* What the report may be relied on for.                                   *)
(***************************************************************************)

\* Fields reported verified were all seen to hold their values, in the
\* controls that were written, by one observation after the last write
\* (autofill.ts:816-874).
VerifiedWereHeld == runAt = "done" => Verified \subseteq held

\* A receipt that says its write failed, was skipped or was not attempted,
\* other than one whose value was seen not to match, is of a field nothing
\* was done to: it may be filled again (autofill.ts:789).
UnwrittenIsUntouched ==
  runAt = "done" =>
    \A f \in Fields :
      (receipts[f].status \in {"not_attempted", "skipped", "failed"}
         /\ receipts[f].code # "mismatch") => ~written[f]

\* An artifact of a mapped form is only taken after an observation that
\* found the mapped stage and that no action followed (autofill.ts:627-629).
ArtifactIsOfTheStage == artifact => stageKnown

\* However the page changes under the run, the time runs out or the authority is lost,
\* its report is of what it did: verified fields were seen right together, a field
\* reported as not written was not, and the artifact is of the mapped stage.
VerifiedTogether == VerifiedWereHeld /\ UnwrittenIsUntouched /\ ArtifactIsOfTheStage
=============================================================================
