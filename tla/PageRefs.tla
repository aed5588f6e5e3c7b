------------------------------- MODULE PageRefs -------------------------------
(***************************************************************************)
(* References to elements, packages/engine-playwright index.ts: observe    *)
(* mints e<revision>_<row> for the rows of a snapshot and binds each to a  *)
(* node; act resolves a reference, checks its evidence and acts on what is *)
(* bound.  Every change the engine makes or notices moves the revision on. *)
(*                                                                         *)
(* The rows are the hard case: all have the same role and name, so a row   *)
(* is told from another by its position only.  "widget" rows are those an  *)
(* include token adds (formControls, fileInputs, menu summaries).          *)
(*                                                                         *)
(* External: the page, which inserts, removes and alters nodes and moves   *)
(* to another document when it likes.  Left out: frames, the visibility    *)
(* and value reads and the evidence of forms.                              *)
(***************************************************************************)
EXTENDS Naturals, Sequences, FiniteSets, SequencesExt

CONSTANTS
  Observers,    \* observations, each made once
  Base, Widgets,\* the nodes the page may show
  Includes,     \* the include tokens asked for: subset of BOOLEAN
  Concurrent,   \* whether calls for one page overlap
  MaxActs, MaxRevision

VARIABLES
  dom,       \* the nodes of the page, in document order
  used,      \* the nodes that have been shown
  altered,   \* the nodes whose semantic state has changed
  document,  \* the number of the document
  revision,
  bindings,  \* ref -> [by, node, nth, altered]
  refStore,  \* the refs that are known
  counts,    \* last observation's [base, widgets, include]
  disposed,  \* handles released: <<observer, node>>
  obs,       \* observer -> its observation
  forgotten, \* history: refs an unchanged observation did not bind again
  acting,    \* the action under way
  actsMade   \* the actions made

page == <<dom, used, altered, document>>
refs == <<revision, bindings, refStore, disposed>>
refVars == <<page, refs, counts, obs, forgotten, acting, actsMade>>

NoElement == 0
NoMap == <<>>
NotObserved ==
  [at |-> "idle", include |-> FALSE, degraded |-> FALSE, document |-> 0, rows |-> <<>>, rev |-> 0,
   previous |-> NoMap, left |-> {}, changed |-> FALSE, got |-> NoMap, minted |-> 0]
NoAct == [at |-> "idle", ref |-> <<>>, meant |-> NoElement, bound |-> NoElement, hit |-> NoElement]

RefInit ==
  /\ dom = <<>> /\ used = {} /\ altered = {} /\ document = 1
  /\ revision = 1 /\ bindings = NoMap /\ refStore = {} /\ disposed = {} /\ forgotten = {}
  /\ counts = [base |-> 0, widgets |-> 0, include |-> FALSE]
  /\ obs = [o \in Observers |-> NotObserved]
  /\ acting = NoAct /\ actsMade = 0

Under(o) == obs[o].at \in {"captured", "binding", "minted"}
Alone == Concurrent \/ ((\A o \in Observers : ~Under(o)) /\ acting.at = "idle")

\* The k-th node of a kind, as a locator's nth(k) finds it; NoElement when there is none.
OfKind(seq, kind) == SelectSeq(seq, LAMBDA n : n \in kind)
Nth(kind, k) == LET found == OfKind(dom, kind) IN IF k \in DOMAIN found THEN found[k] ELSE NoElement
KindOf(n) == IF n \in Base THEN Base ELSE Widgets
\* The ordinal of a row among the rows of its kind.
Ordinal(rows, i) == Len(OfKind(SubSeq(rows, 1, i), KindOf(rows[i])))
Ref(rev, i) == <<rev, i>>
With(map, key, value) ==
  [k \in DOMAIN map \union {key} |-> IF k = key THEN value ELSE map[k]]
Handles(map) == {<<map[r].by, map[r].node>> : r \in DOMAIN map}

\* bumpRevision, releaseRefs.
bumpRevision ==
  /\ revision' = revision + 1
  /\ disposed' = disposed \union Handles(bindings)
  /\ bindings' = NoMap /\ refStore' = {}

-----------------------------------------------------------------------------
(* The page.                                                               *)

Insert ==
  /\ \E n \in (Base \union Widgets) \ used :
       /\ dom' \in {<<n>> \o dom, Append(dom, n)}
       /\ used' = used \union {n}
  /\ UNCHANGED <<altered, document, refs, counts, obs, forgotten, acting, actsMade>>

RemoveNode ==
  /\ \E n \in Range(dom) : dom' = SelectSeq(dom, LAMBDA m : m # n)
  /\ UNCHANGED <<used, altered, document, refs, counts, obs, forgotten, acting, actsMade>>

Alter ==
  /\ \E n \in Range(dom) \ altered : altered' = altered \union {n}
  /\ UNCHANGED <<dom, used, document, refs, counts, obs, forgotten, acting, actsMade>>

Moves ==
  /\ document = 1
  /\ document' = 2 /\ dom' = <<>>
  /\ UNCHANGED <<used, altered, refs, counts, obs, forgotten, acting, actsMade>>

-----------------------------------------------------------------------------
(* observe.                                                                *)

\* parseAriaSnapshot: the interactive rows of the accessibility snapshot.
SnapshotRows == OfKind(dom, Base)
\* getContentElements: the rows of the document itself, when the snapshot's
\* time is up.  Their nodes are at hand, and it is those that are bound.
ContentRows == OfKind(dom, Base)
\* The rows the include tokens add, in document order after the others.
WidgetRows(include) == IF include THEN OfKind(dom, Widgets) ELSE <<>>

\* observeOnce, to the end of the scans.
Snapshot(include, degraded) ==
  [at |-> "captured", include |-> include, degraded |-> degraded, document |-> document,
   rows |-> (IF degraded THEN ContentRows ELSE SnapshotRows) \o WidgetRows(include),
   rev |-> revision, previous |-> NoMap, left |-> {}, changed |-> FALSE, got |-> NoMap,
   minted |-> 0]
Snapshots(o) ==
  /\ obs[o].at = "idle" /\ Alone
  /\ \E include \in Includes, degraded \in BOOLEAN :
       obs' = [obs EXCEPT ![o] = Snapshot(include, degraded)]
  /\ UNCHANGED <<page, refs, counts, forgotten, acting, actsMade>>

\* Counts are compared like for like: widgets only when asked for both times.
Recount(o) ==
  LET base == Len(OfKind(obs[o].rows, Base))
      widgets == Len(obs[o].rows) - base
  IN /\ counts' = [base |-> base, widgets |-> widgets, include |-> obs[o].include]
     /\ obs' = [obs EXCEPT ![o].at = "binding", ![o].previous = bindings,
                           ![o].left = 1 .. Len(obs[o].rows),
                           ![o].changed = \/ counts.base > 0 /\ counts.base # base
                                          \/ /\ counts.include = obs[o].include
                                             /\ counts.widgets # widgets]

\* The ref store is rebuilt: nothing is bound until the rows are.
Rebuild(o) ==
  /\ obs[o].at = "captured"
  /\ Recount(o)
  /\ bindings' = NoMap /\ refStore' = {}
  /\ UNCHANGED <<page, revision, disposed, forgotten, acting, actsMade>>

\* A row the previous observation did not bind, a node that is another one, or
\* evidence that differs is a change of the page.
SameAsBefore(o, i, n) ==
  LET previous == obs[o].previous
      ref == Ref(obs[o].rev, i)
  IN IF ref \in DOMAIN previous
     THEN /\ previous[ref].node = n /\ previous[ref].altered = (n \in altered)
          /\ <<previous[ref].by, previous[ref].node>> \notin disposed
     ELSE DOMAIN previous = {} \/ n \in Widgets

\* bindOne's node: the one now at the row's ordinal, or the one discovered while
\* its locator still finds something.
NodeOf(o, i) ==
  LET rows == obs[o].rows
      n == Nth(KindOf(rows[i]), Ordinal(rows, i))
  IN IF obs[o].degraded /\ rows[i] \in Base /\ n # NoElement THEN rows[i] ELSE n

\* bindOne: the row's node, if there is one, is bound for good.
BindRow(o, i) ==
  /\ obs[o].at = "binding" /\ i \in obs[o].left
  /\ LET n == NodeOf(o, i)
         ref == Ref(obs[o].rev, i)
     IN IF n = NoElement
        THEN /\ obs' = [obs EXCEPT ![o].left = @ \ {i}]
             /\ UNCHANGED bindings
        ELSE /\ bindings' = With(bindings, ref, [by |-> o, node |-> n,
                                                nth |-> Ordinal(obs[o].rows, i),
                                                altered |-> n \in altered])
             /\ obs' = [obs EXCEPT ![o].left = @ \ {i},
                                   ![o].got = With(@, i, n),
                                   ![o].changed = @ \/ ~SameAsBefore(o, i, n)]
  /\ UNCHANGED <<page, revision, refStore, disposed, counts, forgotten, acting, actsMade>>

\* The rows enter the store; the handles nobody keeps are released; after a
\* change the rows move on to the references of the next revision.
Mint(o) ==
  /\ obs[o].at = "binding" /\ obs[o].left = {}
  /\ LET rev == obs[o].rev
         rows == 1 .. Len(obs[o].rows)
         next == IF obs[o].changed THEN revision + 1 ELSE revision
         Old(r) == Ref(rev, r[2])
         kept == IF obs[o].changed
                 THEN {Ref(next, i) : i \in {j \in rows : Ref(rev, j) \in DOMAIN bindings}}
                 ELSE DOMAIN bindings
     IN /\ revision' = next
        /\ bindings' = [r \in kept |-> IF obs[o].changed THEN bindings[Old(r)] ELSE bindings[r]]
        /\ refStore' = IF obs[o].changed THEN {Ref(next, i) : i \in rows}
                       ELSE refStore \union {Ref(rev, i) : i \in rows}
        /\ disposed' = disposed \union Handles(obs[o].previous)
             \union ({<<o, obs[o].got[i]>> : i \in DOMAIN obs[o].got} \ Handles(bindings))
        /\ forgotten' = IF obs[o].changed THEN forgotten
                        ELSE forgotten \union (DOMAIN obs[o].previous \ DOMAIN bindings)
        /\ obs' = [obs EXCEPT ![o].at = "minted",
                              ![o].minted = IF obs[o].changed THEN next ELSE rev]
  /\ UNCHANGED <<page, counts, acting, actsMade>>

\* The page's identity is read again before the answer.  The caller holds its
\* references, and nothing else of the observation is kept.
TheAnswer(o) == [NotObserved EXCEPT !.at = "answered", !.got = obs[o].got, !.minted = obs[o].minted]
Answers(o) ==
  /\ obs[o].at = "minted" /\ obs[o].document = document
  /\ obs' = [obs EXCEPT ![o] = TheAnswer(o)]
  /\ UNCHANGED <<page, refs, counts, forgotten, acting, actsMade>>

\* A read that fails, or a page that moved, takes every reference with it.
ObserveFails(o) ==
  /\ Under(o) /\ revision < MaxRevision
  /\ obs' = [obs EXCEPT ![o] = [NotObserved EXCEPT !.at = "failed"]]
  /\ bumpRevision
  /\ UNCHANGED <<page, counts, forgotten, acting, actsMade>>

-----------------------------------------------------------------------------
(* act.                                                                    *)

\* resolve, its first look: the reference must be known and bound.
ActStarts(o, i) ==
  /\ acting.at = "idle" /\ actsMade < MaxActs /\ Alone
  /\ obs[o].at = "answered" /\ i \in DOMAIN obs[o].got
  /\ LET ref == Ref(obs[o].minted, i) IN
     acting' = IF ref \in refStore /\ ref \in DOMAIN bindings
               THEN [at |-> "resolving", ref |-> ref, meant |-> obs[o].got[i],
                     bound |-> bindings[ref], hit |-> NoElement]
               ELSE NoAct
  /\ actsMade' = actsMade + 1
  /\ UNCHANGED <<page, refs, counts, obs, forgotten>>

\* resolve: the node is connected, its handle alive, the same role, name and ordinal still
\* finds it and its evidence is as observed.
StillHolds(b) ==
  /\ b.node \in Range(dom) /\ <<b.by, b.node>> \notin disposed
  /\ Nth(KindOf(b.node), b.nth) = b.node
  /\ (b.node \in altered) = b.altered

ActResolves ==
  /\ acting.at = "resolving"
  /\ acting' = IF StillHolds(acting.bound) THEN [acting EXCEPT !.at = "resolved"] ELSE NoAct
  /\ UNCHANGED <<page, refs, counts, obs, forgotten, actsMade>>

\* Slip: the ordinal is resolved anew when the action is dispatched.
Anew(ref) ==
  LET n == Nth(Base, ref[2]) IN IF n = NoElement THEN {} ELSE {n}
\* locatorFor: what the reference is bound to as the action is dispatched.
locatorFor(ref) ==
  IF ref \in DOMAIN bindings /\ <<bindings[ref].by, bindings[ref].node>> \notin disposed
  THEN {bindings[ref].node} ELSE {}

\* The nodes an input on the reference reaches: what is bound, still connected.
Reached == locatorFor(acting.ref) \intersect Range(dom)
Hits == acting' = [acting EXCEPT !.at = "done", !.hit = CHOOSE n \in Reached : TRUE]
GivesUp == acting' = NoAct
MovesOn == revision < MaxRevision /\ bumpRevision
StaysOn == UNCHANGED refs

\* click, dblclick, select, clear and scroll move the revision on when the
\* call returns: one that fails may have reached the node and does not.
Clicks ==
  /\ acting.at = "resolved" /\ Reached # {}
  /\ Hits /\ (MovesOn \/ StaysOn)
  /\ UNCHANGED <<page, counts, obs, forgotten, actsMade>>

\* fill, typeText, press and check move it on even when they fail.
Writes ==
  /\ acting.at = "resolved" /\ Reached # {}
  /\ Hits /\ MovesOn
  /\ UNCHANGED <<page, counts, obs, forgotten, actsMade>>

\* upload skips the visibility gate and resolves the reference itself.
Uploads ==
  /\ acting.at = "resolved" /\ Reached # {} /\ StillHolds(bindings[acting.ref])
  /\ Hits /\ MovesOn
  /\ UNCHANGED <<page, counts, obs, forgotten, actsMade>>

\* Hovering keeps every reference, and so does a box that is as wanted.
Hovers ==
  /\ acting.at = "resolved" /\ Reached # {}
  /\ Hits /\ StaysOn
  /\ UNCHANGED <<page, counts, obs, forgotten, actsMade>>

\* Nothing bound any more, or the node gone.
Refuses ==
  /\ acting.at = "resolved" /\ Reached = {}
  /\ GivesUp /\ StaysOn
  /\ UNCHANGED <<page, counts, obs, forgotten, actsMade>>

ActEnds ==
  /\ acting.at = "done"
  /\ acting' = NoAct
  /\ UNCHANGED <<page, refs, counts, obs, forgotten, actsMade>>

\* performNavigation, goBack, goForward, reload: a dispatched navigation takes
\* every reference, even a rejected one.
Navigates ==
  /\ Alone /\ revision < MaxRevision
  /\ bumpRevision
  /\ UNCHANGED <<page, counts, obs, forgotten, acting, actsMade>>

-----------------------------------------------------------------------------
Observes == \E o \in Observers :
  \/ Snapshots(o) \/ Rebuild(o) \/ Mint(o) \/ Answers(o) \/ ObserveFails(o)
  \/ \E i \in obs[o].left : BindRow(o, i)
ActSteps ==
  \/ \E o \in Observers : \E i \in DOMAIN obs[o].got : ActStarts(o, i)
  \/ ActResolves \/ ActEnds \/ Navigates
  \/ Clicks \/ Writes \/ Uploads \/ Hovers \/ Refuses
RefNext == Insert \/ RemoveNode \/ Alter \/ Moves \/ Observes \/ ActSteps

RefSpec == RefInit /\ [][RefNext]_refVars

-----------------------------------------------------------------------------
(* Properties.                                                             *)

\* "Bind once to an actual node.  An ordinal is never resolved anew at act
\* time": an input reaches the node its reference was bound to by the
\* observation whose answer the caller holds, whatever the page and the
\* observations after it have done.
ActsOnTheElementAnswered ==
  acting.at = "done" => acting.hit = acting.meant

\* The same of the references that every later observation which found no change
\* bound again, for calls of one page that do not overlap.  What an observation
\* leaves unbound without a change (rows of an include token it was not asked for,
\* or a page whose rows had all gone) the next one may bind to another node.
ReferencesStayBound ==
  acting.at = "done" /\ acting.ref \notin forgotten => acting.hit = acting.meant
=============================================================================
