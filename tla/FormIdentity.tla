----------------------------- MODULE FormIdentity -----------------------------
(***************************************************************************)
(* The identity of form controls (packages/engine-playwright index.ts):    *)
(* the identity states observations and acts share, the re-verification of *)
(* a control before it is acted on, the ownership index of combobox        *)
(* popups, and the native capture of a form.                               *)
(*                                                                         *)
(* A frame's identity state gives its nodes tokens; two states never give  *)
(* the same one.  External: documents are navigated and replaced, scripts  *)
(* change the form.  Left out: the attributes beside the tokens, which     *)
(* controls a scan finds (PageRefs), limits of size.                       *)
(***************************************************************************)
EXTENDS Naturals, FiniteSets

CONSTANTS
  Main, Subs,     \* the main frame and its child frames
  FormCallers,        \* observations and acts, each made once
  MaxFrameDocs,        \* bound on the changes of one frame's document
  MaxMints,       \* bound on identity states made
  Combos, Lists,  \* comboboxes and listboxes of the page
  Plain,          \* other elements with an id
  Names,          \* the ids in use
  Contents        \* what the form may hold

VARIABLES
  frameDoc,        \* frame -> [doc, root]: its document and that document's root
  generation, \* formIdentityGeneration
  identity,   \* frame -> its identity state: [mint, root], mint 0 for none
  cached,     \* frame -> the mint whose promise is shared, or 0
  mint,       \* mint -> [frame, generation, at]
  call,       \* caller -> [kind, frame, at, mint, token, doc]
  markup,     \* [refers: combobox -> ids, id: element -> id]; chosen once
  form        \* what the form holds now

formVars == <<frameDoc, generation, identity, cached, mint, call, markup, form>>

Frames == {Main} \cup Subs
Mints == 1 .. MaxMints
NoIdentity == [mint |-> 0, root |-> 0]
NewDoc == [doc |-> 0, root |-> 0]
NoCall == [kind |-> "observe", frame |-> Main, at |-> "idle", mint |-> 0, token |-> NoIdentity,
         doc |-> NewDoc, content |-> "none"]

FormInit ==
  /\ frameDoc = [f \in Frames |-> NewDoc] /\ generation = 0
  /\ identity = [f \in Frames |-> NoIdentity] /\ cached = [f \in Frames |-> 0]
  /\ mint = [m \in Mints |-> [frame |-> Main, generation |-> 0, at |-> "none"]]
  /\ call = [c \in FormCallers |-> NoCall]
  /\ markup \in [refers : [Combos -> SUBSET Names], id : [Lists \cup Plain -> Names]]
  /\ form \in Contents

-----------------------------------------------------------------------------
(* Documents.                                                              *)

\* framenavigated of the main frame: resetFormIdentity.
MainNavigates ==
  /\ frameDoc[Main].doc < MaxFrameDocs
  /\ frameDoc' = [f \in Frames |-> [doc |-> frameDoc[f].doc + 1, root |-> 0]]
  /\ generation' = generation + 1
  /\ identity' = [f \in Frames |-> NoIdentity] /\ cached' = [f \in Frames |-> 0]
  /\ UNCHANGED <<mint, call, markup, form>>

\* Of a child frame: its state is dropped, a mint under way is not.
SubNavigates(f) ==
  /\ f \in Subs /\ frameDoc[f].doc < MaxFrameDocs
  /\ frameDoc' = [frameDoc EXCEPT ![f] = [doc |-> @.doc + 1, root |-> 0]]
  /\ identity' = [identity EXCEPT ![f] = NoIdentity]
  /\ UNCHANGED <<generation, cached, mint, call, markup, form>>

\* External: document.open and the like; no event tells.
RootReplaced(f) ==
  /\ frameDoc[f].root < MaxFrameDocs
  /\ frameDoc' = [frameDoc EXCEPT ![f].root = @ + 1]
  /\ UNCHANGED <<generation, identity, cached, mint, call, markup, form>>

\* External: a script or the user changes what the form holds.
FormChanges ==
  /\ form' \in Contents \ {form}
  /\ UNCHANGED <<frameDoc, generation, identity, cached, mint, call, markup>>

-----------------------------------------------------------------------------
(* ensureFormIdentityState and ensureFrameIdentityState.                   *)

\* The minting promise is cached, and joined.
Joins(f) == cached[f] # 0

\* asker: the call at its await, for the state of its frame.
Ensures(c, asker) ==
  LET f == asker.frame
      waits(at, m) == call' = [call EXCEPT ![c] = [asker EXCEPT !.at = at, !.mint = m]]
  IN  \/ /\ identity[f].mint # 0 /\ waits("held", identity[f].mint)
         /\ UNCHANGED <<cached, mint>>
      \/ /\ identity[f].mint = 0 /\ Joins(f) /\ waits("minting", cached[f])
         /\ UNCHANGED <<cached, mint>>
      \/ /\ identity[f].mint = 0 /\ ~Joins(f)
         /\ \E m \in Mints :
              /\ mint[m].at = "none" /\ \A n \in 1 .. m - 1 : mint[n].at # "none"
              /\ mint' = [mint EXCEPT ![m] =
                            [frame |-> f, generation |-> generation, at |-> "running"]]
              /\ cached' = [cached EXCEPT ![f] = m]
              /\ waits("minting", m)

\* The new state arrives: it is kept if no main document came in between.
MintArrives(m) ==
  LET f == mint[m].frame
      kept == mint[m].generation = generation
  IN  /\ mint[m].at = "running"
      /\ mint' = [mint EXCEPT ![m].at = "settled"]
      /\ cached' = [cached EXCEPT ![f] = IF @ = m THEN 0 ELSE @]
      /\ identity' = IF kept THEN [identity EXCEPT ![f] = [mint |-> m, root |-> frameDoc[f].root]]
                     ELSE identity
      /\ call' = [c \in FormCallers |->
           IF call[c].at = "minting" /\ call[c].mint = m
           THEN [call[c] EXCEPT !.at = IF kept THEN "held" ELSE "failed"] ELSE call[c]]
      /\ UNCHANGED <<frameDoc, generation, markup, form>>

\* The state the call holds may be gone: the main frame's is looked up again, a
\* child's handle is dead.
StillHeld(c) == identity[call[c].frame].mint # 0
                /\ (call[c].frame \in Subs => identity[call[c].frame].mint = call[c].mint)
\* For the main frame, a state whose root was replaced starts anew.
Refreshed(f) == IF f = Main THEN [identity[f] EXCEPT !.root = frameDoc[f].root] ELSE identity[f]

-----------------------------------------------------------------------------
(* observe: the control is bound with its token.                           *)

Observe(c, f) ==
  /\ call[c].at = "idle"
  /\ Ensures(c, [NoCall EXCEPT !.frame = f])
  /\ UNCHANGED <<frameDoc, generation, identity, markup, form>>

Bind(c) ==
  LET f == call[c].frame
  IN  /\ call[c].at = "held" /\ call[c].kind = "observe"
      /\ identity' = IF StillHeld(c) THEN [identity EXCEPT ![f] = Refreshed(f)] ELSE identity
      /\ call' = [call EXCEPT ![c] =
           [call[c] EXCEPT !.at = IF StillHeld(c) THEN "bound" ELSE "failed",
                           !.token = identity'[f], !.doc = frameDoc[f]]]
      /\ UNCHANGED <<frameDoc, generation, cached, mint, markup, form>>

-----------------------------------------------------------------------------
(* act: the bound control is verified again before the dispatch.           *)

\* A binding of a child frame asks for its frame's state, one of the main frame
\* takes the state that is there.
Act(c, of) ==
  LET f == call[of].frame
      asker == [call[of] EXCEPT !.kind = "act"]
  IN  /\ call[c].at = "idle" /\ call[of].at = "bound" /\ call[of].kind = "observe"
      /\ IF f \in Subs
         THEN Ensures(c, asker)
         ELSE /\ call' = [call EXCEPT ![c] =
                   [asker EXCEPT !.at = IF identity[f].mint = 0 THEN "stale" ELSE "held"]]
              /\ UNCHANGED <<cached, mint>>
      /\ UNCHANGED <<frameDoc, generation, identity, markup, form>>

\* captureFormEvidence in the page, compared with what the binding says.
Verify(c) ==
  LET f == call[c].frame
  IN  /\ call[c].at = "held" /\ call[c].kind = "act"
      /\ call' = [call EXCEPT ![c].at =
           IF identity[f].mint = 0 THEN "failed"
           ELSE IF identity[f] = call[c].token THEN "passed" ELSE "stale"]
      /\ UNCHANGED <<frameDoc, generation, identity, cached, mint, markup, form>>

-----------------------------------------------------------------------------
(* captureNativeForm: two inventories, the files read in between.          *)

Capture(c) ==
  /\ call[c].at = "idle"
  /\ Ensures(c, [NoCall EXCEPT !.kind = "capture"])
  /\ UNCHANGED <<frameDoc, generation, identity, markup, form>>

FirstInventory(c) ==
  /\ call[c].at = "held" /\ call[c].kind = "capture"
  /\ identity' = IF StillHeld(c) THEN [identity EXCEPT ![Main] = Refreshed(Main)] ELSE identity
  /\ call' = [call EXCEPT ![c].at = IF StillHeld(c) THEN "reading" ELSE "failed",
                          ![c].content = form, ![c].doc = frameDoc[Main]]
  /\ UNCHANGED <<frameDoc, generation, cached, mint, markup, form>>

\* Slip: the inventory taken before the files were read is the answer.
FirstStands(c) == TRUE
\* The second inventory must be the first one, of the same document and root.
SameInventory(c) == form = call[c].content /\ frameDoc[Main] = call[c].doc

SecondInventory(c) ==
  /\ call[c].at = "reading"
  /\ call' = [call EXCEPT ![c].at = IF SameInventory(c) THEN "captured" ELSE "failed"]
  /\ UNCHANGED <<frameDoc, generation, identity, cached, mint, markup, form>>

-----------------------------------------------------------------------------
(* refreshFormPopupEvidence.                                               *)

Matches(n) == {e \in Lists \cup Plain : markup.id[e] = n}
\* Every declared owner counts, even one whose references are ambiguous.
Owners(l) == {c \in Combos : markup.id[l] \in markup.refers[c]}
Resolved(c) == {l \in Lists : c \in Owners(l)}
\* Each reference names one element, a listbox, and all name the same.
Candidate(c, l) ==
  /\ Resolved(c) = {l}
  /\ \A n \in markup.refers[c] : Matches(n) = {l}

\* The popups an option can be attributed by.
Ready == {p \in Combos \X Lists : Candidate(p[1], p[2]) /\ Owners(p[2]) = {p[1]}}

-----------------------------------------------------------------------------
FormNext ==
  \/ MainNavigates \/ FormChanges
  \/ \E f \in Frames : SubNavigates(f) \/ RootReplaced(f)
  \/ \E m \in Mints : MintArrives(m)
  \/ \E c \in FormCallers :
       \/ \E f \in Frames : Observe(c, f)
       \/ \E of \in FormCallers : Act(c, of)
       \/ Bind(c) \/ Verify(c) \/ Capture(c) \/ FirstInventory(c) \/ SecondInventory(c)

FormSpec == FormInit /\ [][FormNext]_formVars

-----------------------------------------------------------------------------
(* An act is refused for another identity of its control only if the       *)
(* control's document is another one: concurrent observations and acts     *)
(* never hold dueling states (index.ts:3762-3765).                         *)
StaleMeansChanged ==
  \A c \in FormCallers :
    call[c].at = "stale" => frameDoc[call[c].frame] # call[c].doc

(* What a capture answers with is what the form of that document holds     *)
(* when it answers, though the files were read in between                  *)
(* (index.ts:603-621).                                                     *)
CaptureIsOneInstant ==
  [][\A c \in FormCallers :
       call'[c].at = "captured" /\ call[c].at # "captured"
         => call[c].content = form /\ call[c].doc = frameDoc[Main]]_formVars

(* A popup whose options may be attributed belongs to one combobox: no     *)
(* other one refers to it, whatever else it refers to, and the owner       *)
(* refers to nothing else (index.ts:652-710).                              *)
ReadyPopupHasOneOwner ==
  \A p \in Ready :
    /\ \A c \in Combos \ {p[1]} : markup.id[p[2]] \notin markup.refers[c]
    /\ markup.refers[p[1]] = {markup.id[p[2]]}
    /\ \A e \in Lists \cup Plain : e # p[2] => markup.id[e] # markup.id[p[2]]

(* What an identity of a form says is so: a refusal, a capture, an owner.   *)
IdentityHolds ==
  /\ [](StaleMeansChanged /\ ReadyPopupHasOneOwner)
  /\ CaptureIsOneInstant
=============================================================================
