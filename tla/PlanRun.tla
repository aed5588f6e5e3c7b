------------------------------ MODULE PlanRun ------------------------------
(***************************************************************************)
(* A batch of actions on one page: executePlan runs the steps in order,    *)
(* each through act, which checks the step's element reference against the *)
(* page revision, resolves it in the engine, waits for an approval and     *)
(* acts. References are minted by observation: `revision' and `ordinal' on *)
(* the service's side, and the same shape with the engine's own counter on *)
(* the engine's side, so the adapter translates one into the other through *)
(* the latest observation. A stale reference is healed, at most once by    *)
(* the plan (by ordinal, and on a churning page only when the element's    *)
(* label still matches) and at most once by act itself when the step asks  *)
(* for it. Meanwhile the document changes, and other callers observe it.   *)
(*                                                                         *)
(* A label stands for an element's role and name. Each wait of the code is *)
(* a state of its own, so that the page may change during it. An engine    *)
(* observation and the bookkeeping behind it are one step: no other code   *)
(* of the service runs between them, and a document that changes after the *)
(* engine read it is a document that changes after the step.               *)
(***************************************************************************)
EXTENDS Naturals, Sequences, FiniteSets

CONSTANTS Nodes,          \* the document's elements
          LabelOf,        \* an element's role and name
          Documents,      \* the sequences of elements the page may show
          ChurnLimit,     \* service.ts:4935, three in the code
          HistoryLimit,   \* service.ts:735, ten in the code
          PlanSteps,      \* bound: steps of the plan
          Others,         \* bound: observations of other callers
          Changes         \* bound: those and the changes of the document, together

Nobody == "nobody"      \* no element

None == [none |-> TRUE]

ASSUME PlanAssumption ==
  /\ Documents \subseteq Seq(Nodes) /\ Nobody \notin Nodes
  /\ ChurnLimit \in Nat /\ HistoryLimit \in Nat \ {0}
  /\ PlanSteps \in Nat /\ Others \in Nat /\ Changes \in Nat

VARIABLES
  dom,       \* the document: its elements in order
  engine,    \* PlaywrightPage: its revision and the nodes bound to its refs
  page,      \* PageContext: revision, lastObservation, history
  plan,      \* executePlan: the step it is at and what that step waits for
  churn,     \* service.ts:4921: the page's churn score
  report,    \* the plan's answer
  handed,    \* history: what each reference meant when it was handed out
  hits,      \* history: the effects, in order
  budget     \* what is left of the two bounds

planVars == <<dom, engine, page, plan, churn, report, handed, hits, budget>>

Ref(r, i) == [revision |-> r, ordinal |-> i]
Mode == IF churn >= ChurnLimit THEN "verified" ELSE "stable"

NoPlan == [at |-> "idle"]

----------------------------------------------------------------------------
(* Observation *)

\* The engine rebinds every reference, and counts a new revision when a
\* reference would no longer name the node it named.
EngineObserves ==
  [revision |-> IF engine.bound # <<>> /\ engine.bound # dom
                THEN engine.revision + 1 ELSE engine.revision,
   bound |-> dom]

\* The service counts a new revision only when the engine did and no action
\* has done so since the last observation.
ObservedRevision ==
  IF /\ page.last # None
     /\ EngineObserves.revision # page.last.engineRevision
     /\ page.revision = page.last.revision
  THEN page.revision + 1 ELSE page.revision

OldestRevision(H) == CHOOSE r \in DOMAIN H : \A s \in DOMAIN H : r <= s
Retained(H) == IF Cardinality(DOMAIN H) <= HistoryLimit THEN H
               ELSE [r \in DOMAIN H \ {OldestRevision(H)} |-> H[r]]

\* observeInternal: the references handed out, the map back to the engine's,
\* and the snapshot kept for later comparisons.
Observes ==
  LET rev == ObservedRevision
      kept == [r \in DOMAIN page.history \cup {rev} |->
                 IF r = rev THEN dom ELSE page.history[r]]
  IN /\ engine' = EngineObserves
     /\ page' = [revision |-> rev,
                 last |-> [revision |-> rev, engineRevision |-> EngineObserves.revision,
                           shown |-> dom],
                 history |-> Retained(kept)]
     /\ handed' = handed \cup {[ref |-> Ref(rev, i), node |-> dom[i]] : i \in DOMAIN dom}

\* The element a stale reference was minted for: by its own revision in the
\* history, else in the latest observation.
Baseline(ref) ==
  IF ref.revision \in DOMAIN page.history /\ ref.ordinal \in DOMAIN page.history[ref.revision]
  THEN page.history[ref.revision][ref.ordinal]
  ELSE IF page.last # None /\ ref.revision = page.last.revision
          /\ ref.ordinal \in DOMAIN page.last.shown
       THEN page.last.shown[ref.ordinal] ELSE Nobody

----------------------------------------------------------------------------
(* One action *)

\* What an act call fails with. `text': its message asks for a fresh reference
\* (the plan heals on the message); `eligible': act's own remap may heal it;
\* `unknown': an effect may have happened; `after': one certainly has.
Failure(text, eligible, unknown, after) ==
  [text |-> text, eligible |-> eligible, unknown |-> unknown, after |-> after]
StaleRevision == Failure(TRUE, TRUE, FALSE, FALSE)
Gone == Failure(FALSE, TRUE, FALSE, FALSE)
Refused == Failure(FALSE, FALSE, FALSE, FALSE)
Uncertain(text) == Failure(text, FALSE, TRUE, FALSE)
AfterEffect(text) == Failure(text, FALSE, TRUE, TRUE)

StepOf(ref, remap) ==
  [at |-> "act", index |-> plan.index, asked |-> ref, ref |-> ref, remap |-> remap,
   healed |-> FALSE, remapped |-> FALSE, mode |-> Mode, failure |-> None, count |-> plan.count]

\* The engine's answer for one of its own references: the bound node, while
\* it is still in the document.
EngineNode(eref) ==
  IF /\ eref.revision = engine.revision
     /\ eref.ordinal \in DOMAIN engine.bound
     /\ \E i \in DOMAIN dom : dom[i] = engine.bound[eref.ordinal]
  THEN engine.bound[eref.ordinal] ELSE Nobody

\* RefTranslatingPage: through the latest observation's map; a reference the
\* map does not hold goes to the engine as it is.
Translated(ref) ==
  IF page.last # None /\ ref.revision = page.last.revision
     /\ ref.ordinal \in DOMAIN page.last.shown
  THEN Ref(page.last.engineRevision, ref.ordinal) ELSE ref

\* execute, up to the engine's answer: the page must have been observed, the
\* reference must be of its revision, and the engine must still hold the node.
BeginAct ==
  /\ plan.at = "act"
  /\ \/ /\ page.last = None
        /\ plan' = [plan EXCEPT !.at = "failed", !.failure = Refused]
     \/ /\ page.last # None /\ plan.ref.revision # page.revision
        /\ plan' = [plan EXCEPT !.at = "failed", !.failure = StaleRevision]
     \/ /\ page.last # None /\ plan.ref.revision = page.revision
        /\ EngineNode(Translated(plan.ref)) = Nobody
        /\ plan' = [plan EXCEPT !.at = "failed", !.failure = Gone]
     \/ /\ page.last # None /\ plan.ref.revision = page.revision
        /\ EngineNode(Translated(plan.ref)) # Nobody
        /\ plan' = [plan EXCEPT !.at = "approve"]
  /\ UNCHANGED <<dom, engine, page, churn, report, handed, hits, budget>>

\* beforeAction: input still admitted, approval given, or refused.
Approved ==
  /\ plan.at = "approve"
  /\ \/ plan' = [plan EXCEPT !.at = "dispatch"]
     \/ plan' = [plan EXCEPT !.at = "failed", !.failure = Refused]
  /\ UNCHANGED <<dom, engine, page, churn, report, handed, hits, budget>>

\* The adapter's act and the engine's: the reference is translated and
\* resolved again, and the node is acted on. The service's revision moves on
\* once the engine answers that it was; an engine that gives up in between
\* leaves it, and the effect may or may not have happened.
Hit(answered) ==
  [answered |-> answered, asked |-> plan.asked, via |-> plan.ref,
   node |-> EngineNode(Translated(plan.ref)), step |-> plan.index, mode |-> plan.mode,
   healed |-> plan.healed, remapped |-> plan.remapped]

DispatchAct ==
  /\ plan.at = "dispatch"
  /\ LET node == EngineNode(Translated(plan.ref)) IN
     \/ /\ node = Nobody
        /\ plan' = [plan EXCEPT !.at = "failed", !.failure = Gone]
        /\ UNCHANGED <<page, hits>>
     \/ /\ node # Nobody
        /\ hits' = Append(hits, Hit(TRUE))
        /\ page' = [page EXCEPT !.revision = @ + 1]
        /\ plan' = [plan EXCEPT !.at = "followup"]
     \/ /\ node # Nobody
        /\ hits' \in {hits, Append(hits, Hit(FALSE))}
        /\ \E text \in BOOLEAN : plan' = [plan EXCEPT !.at = "failed", !.failure = Uncertain(text)]
        /\ UNCHANGED page
  /\ UNCHANGED <<dom, engine, churn, report, handed, budget>>

\* The step's own wait and read, after the effect.
FollowUp ==
  /\ plan.at = "followup"
  /\ \/ plan' = [plan EXCEPT !.at = "done"] /\ UNCHANGED <<engine, page, handed>>
     \/ plan' = [plan EXCEPT !.at = "done"] /\ Observes
     \/ /\ \E text \in BOOLEAN :
             plan' = [plan EXCEPT !.at = "failed", !.failure = AfterEffect(text)]
        /\ UNCHANGED <<engine, page, handed>>
  /\ UNCHANGED <<dom, churn, report, hits, budget>>

\* remapAct: for a step that asked for it, once: observe and take the only
\* element with the baseline's label, or refuse.
Labelled(label) == {i \in DOMAIN dom : LabelOf[dom[i]] = label}

MayRemap == /\ plan.at = "failed" /\ plan.remap /\ ~plan.remapped
            /\ plan.failure.eligible /\ Baseline(plan.ref) # Nobody

RemapAct ==
  /\ MayRemap
  /\ Observes
  /\ LET like == Labelled(LabelOf[Baseline(plan.ref)]) IN
     plan' = IF Cardinality(like) = 1
             THEN [plan EXCEPT !.at = "act", !.remapped = TRUE,
                               !.ref = Ref(ObservedRevision, CHOOSE i \in like : TRUE)]
             ELSE [plan EXCEPT !.remapped = TRUE, !.failure = Refused]
  /\ UNCHANGED <<dom, churn, report, hits, budget>>

----------------------------------------------------------------------------
(* The plan *)

Stop(ok, unknown) ==
  /\ report' = [ok |-> ok, completed |-> plan.count, unknown |-> unknown, mode |-> Mode]
  /\ plan' = NoPlan

BeginPlan ==
  /\ plan = NoPlan /\ report = None
  /\ plan' = [at |-> "step", index |-> 1, count |-> 0]
  /\ UNCHANGED <<dom, engine, page, churn, report, handed, hits, budget>>

\* A step boundary: input must still be admitted; a step names a reference
\* handed out earlier, or waits for a label and takes the one observed then.
StepBoundary ==
  /\ plan.at = "step" /\ plan.index <= PlanSteps
  /\ \/ \E m \in handed, remap \in BOOLEAN :
          plan' = StepOf(m.ref, remap) /\ UNCHANGED <<engine, page, handed, report>>
     \/ \E label \in {LabelOf[n] : n \in Nodes} :
          /\ Labelled(label) # {}
          /\ Observes
          /\ plan' = StepOf(Ref(ObservedRevision,
                                CHOOSE i \in Labelled(label) : \A j \in Labelled(label) : i <= j),
                            FALSE)
          /\ UNCHANGED report
     \/ Stop(FALSE, FALSE) /\ UNCHANGED <<engine, page, handed>>
  /\ UNCHANGED <<dom, churn, hits, budget>>

StepDone ==
  /\ plan.at = "done"
  /\ churn' = IF churn = 0 THEN 0 ELSE churn - 1
  /\ \/ /\ plan' = [at |-> "step", index |-> plan.index + 1, count |-> plan.count + 1]
        /\ UNCHANGED report
     \/ \* a navigation was blocked: the step counts, the rest is not attempted
        /\ report' = [ok |-> FALSE, completed |-> plan.count + 1, unknown |-> FALSE, mode |-> Mode]
        /\ plan' = NoPlan
  /\ UNCHANGED <<dom, engine, page, handed, hits, budget>>

PlanDone ==
  /\ plan.at = "step" /\ plan.index > PlanSteps
  /\ Stop(TRUE, FALSE)
  /\ UNCHANGED <<dom, engine, page, churn, handed, hits, budget>>

\* The plan heals a step once, on the failure's text, and never after the
\* effect.

Healable == /\ plan.at = "failed" /\ ~MayRemap
            /\ plan.failure.text /\ ~plan.failure.after /\ ~plan.healed

\* Slip: any candidate of the ordinal will do, however the page churns.
AnyCandidate(ref, mode) == ref.ordinal \in DOMAIN dom

\* The candidate is the element now at the stale reference's ordinal; on a
\* churning page it must carry the label of the element the reference meant.
Candidate(ref, mode) ==
  /\ ref.ordinal \in DOMAIN dom
  /\ mode = "verified" => /\ Baseline(ref) # Nobody
                          /\ LabelOf[dom[ref.ordinal]] = LabelOf[Baseline(ref)]

\* The page's score is bumped first, and its mode read; then it is observed
\* again, and the step retried or given up.
Heal ==
  /\ Healable
  /\ churn' = churn + 1
  /\ Observes
  /\ LET mode == IF churn' >= ChurnLimit THEN "verified" ELSE "stable"
     IN \/ /\ Candidate(plan.asked, mode)
           /\ plan' = [plan EXCEPT !.at = "act", !.healed = TRUE, !.remapped = FALSE,
                                   !.mode = mode,
                                   !.ref = Ref(ObservedRevision, plan.asked.ordinal)]
           /\ UNCHANGED report
        \/ /\ ~Candidate(plan.asked, mode)
           /\ report' = [ok |-> FALSE, completed |-> plan.count, mode |-> mode,
                         unknown |-> plan.failure.unknown /\ plan.asked.ordinal \notin DOMAIN dom]
           /\ plan' = NoPlan
  /\ UNCHANGED <<dom, hits, budget>>

StepFails ==
  /\ plan.at = "failed" /\ ~MayRemap /\ ~Healable
  /\ Stop(FALSE, plan.failure.unknown)
  /\ UNCHANGED <<dom, engine, page, churn, handed, hits, budget>>

----------------------------------------------------------------------------
(* The page and its other callers *)

DocumentChanges ==
  /\ budget.changes > 0
  /\ dom' \in Documents \ {dom}
  /\ budget' = [budget EXCEPT !.changes = @ - 1]
  /\ UNCHANGED <<engine, page, plan, churn, report, handed, hits>>

OtherObserves ==
  /\ budget.others > 0 /\ budget.changes > 0
  /\ Observes
  /\ budget' = [others |-> budget.others - 1, changes |-> budget.changes - 1]
  /\ UNCHANGED <<dom, plan, churn, report, hits>>

\* The page was opened and observed once by whoever wrote the plan.
PlanInit ==
  /\ dom \in Documents
  /\ engine = [revision |-> 1, bound |-> dom]
  /\ page = [revision |-> 1,
             last |-> [revision |-> 1, engineRevision |-> 1, shown |-> dom],
             history |-> [r \in {1} |-> dom]]
  /\ plan = NoPlan /\ report = None /\ hits = <<>>
  /\ churn \in 0 .. ChurnLimit
  /\ handed = {[ref |-> Ref(1, i), node |-> dom[i]] : i \in DOMAIN dom}
  /\ budget = [others |-> Others, changes |-> Changes]

PlanNext ==
  \/ BeginPlan \/ StepBoundary \/ BeginAct \/ Approved \/ DispatchAct \/ FollowUp
  \/ RemapAct \/ StepDone \/ PlanDone \/ Heal \/ StepFails
  \/ DocumentChanges \/ OtherObserves

PlanSpec == PlanInit /\ [][PlanNext]_planVars

----------------------------------------------------------------------------
(* Properties *)

Refs == [revision : Nat, ordinal : Nat \ {0}]
Failures == [text : BOOLEAN, eligible : BOOLEAN, unknown : BOOLEAN, after : BOOLEAN]
StepStates ==
  [at : {"act", "approve", "dispatch", "followup", "failed", "done"}, index : 1 .. PlanSteps,
   asked : Refs, ref : Refs, remap : BOOLEAN, healed : BOOLEAN, remapped : BOOLEAN,
   mode : {"stable", "verified"}, failure : Failures \cup {None}, count : Nat]
Effects ==
  [answered : BOOLEAN, asked : Refs, via : Refs, node : Nodes, step : Nat,
   mode : {"stable", "verified"}, healed : BOOLEAN, remapped : BOOLEAN]

PlanTypeOK ==
  /\ dom \in Documents
  /\ engine \in [revision : Nat, bound : Seq(Nodes)]
  /\ page.revision \in Nat
  /\ page.last \in [revision : Nat, engineRevision : Nat, shown : Seq(Nodes)]
  /\ IsFiniteSet(DOMAIN page.history) /\ Cardinality(DOMAIN page.history) <= HistoryLimit
  /\ \A r \in DOMAIN page.history : r \in Nat /\ page.history[r] \in Seq(Nodes)
  /\ plan \in {NoPlan} \cup [at : {"step"}, index : Nat \ {0}, count : Nat] \cup StepStates
  /\ churn \in Nat
  /\ handed \subseteq [ref : Refs, node : Nodes]
  /\ hits \in Seq(Effects)
  /\ budget \in [others : 0 .. Others, changes : 0 .. Changes]

Meant(ref) == {m.node : m \in {n \in handed : n.ref = ref}}
LabelsMeant(ref) == {LabelOf[n] : n \in Meant(ref)}

\* A reference that is acted on acts on the element it was handed out for,
\* whatever was observed or changed since: an element is never reached under
\* a reference it was not given.
ReferencesHold ==
  \A i \in DOMAIN hits : hits[i].node \in Meant(hits[i].via) /\ Cardinality(Meant(hits[i].via)) = 1

\* On a churning page, and wherever a step asked for a remap, an element
\* reached in place of another carries that other's label. (A step the plan
\* healed by ordinal on a calm page has no such promise from the code.)
HealsToTheSameLabel ==
  \A i \in DOMAIN hits :
    (hits[i].healed \/ hits[i].remapped) /\ (hits[i].healed => hits[i].mode = "verified")
      => LabelOf[hits[i].node] \in LabelsMeant(hits[i].asked)

\* What the docs say of both modes: a step never acts on an element other
\* than one like the element it named.
NeitherModeSubstitutes ==
  \A i \in DOMAIN hits : LabelOf[hits[i].node] \in LabelsMeant(hits[i].asked)

\* An effect the engine answered for is the last of its step: neither heal
\* runs it a second time, whatever the read after it failed with.
AnsweredEffectIsLast ==
  \A i, j \in DOMAIN hits : i < j /\ hits[i].step = hits[j].step => ~hits[i].answered

\* Nobody but the plan has observed the page yet.
Unwatched == budget.others = Others

\* What a plan promises: an answered effect is the last of its step; and until another
\* caller observes the page, a reference acts on the element it was handed out for, and
\* an element reached in place of another is like it (service.ts executePlan, act).
PlanKeepsItsWord ==
  /\ PlanTypeOK /\ AnsweredEffectIsLast
  /\ Unwatched => ReferencesHold /\ HealsToTheSameLabel

----------------------------------------------------------------------------
(* The page the model checker is given: two buttons, which may trade       *)
(* places, and the one that replaces the first once it was pressed.        *)

ShownLabels == [save |-> "Save", remove |-> "Remove", saved |-> "Save"]
ShownDocuments == {<<"save", "remove">>, <<"remove", "save">>, <<"saved">>}

=============================================================================
