---------------------------- MODULE ServicePages ----------------------------
(***************************************************************************)
(* The page registry of one session (packages/api service.ts): pages made  *)
(* on request, popups adopted from engine events, the event pump of every  *)
(* registered page, and the ends of pages and of the session.              *)
(*                                                                         *)
(* The engine is external: it opens popups, closes pages, and answers its  *)
(* calls.  Left out: the events themselves (SessionEvents), authority      *)
(* guards (SessionAuthority), policies, metadata and the page counter: an  *)
(* entry is named by a fresh number.                                       *)
(***************************************************************************)
EXTENDS Naturals, Sequences, FiniteSets

CONSTANTS
  MadePages,    \* engine pages createPage may get, each once: numbers
  PopupPages,   \* engine pages other pages open: numbers
  MaxPopups,    \* MAX_POPUPS_PER_SESSION, 20 in the source
  MaxIds        \* bound on entries ever registered

ASSUME PopupsAssumption == MaxPopups \in Nat

VARIABLES
  enginePage,    \* external: engine page -> "none", "open", "closed"
  stream,    \* external: engine page -> popups it announced and nobody read
  pages,     \* the registry: set of [id, page, opener], opener 0 for a page made on request
  ids,       \* pageCounter
  making,    \* createPage calls: made page -> "no", "waits", "navigates", "closes"
  pump,      \* id -> "none", "starting", "running", "adopting", "ended"
  chain,     \* adoptions in order: [by: id of the pump, opener, popup]
  adopting,  \* the adoptions at their await
  session    \* "live", "ended" (signal aborted, out of the coordinator), "dropped"

pagesVars == <<enginePage, stream, pages, ids, making, pump, chain, adopting, session>>

EnginePages == MadePages \cup PopupPages
EntryIds == 1 .. MaxIds
Of(p) == {e \in pages : e.page = p}
EntryOf(id) == CHOOSE e \in pages : e.id = id
Registered(id) == \E e \in pages : e.id = id
Popups == {e \in pages : e.opener # 0}

\* Engine pages are numbers, taken in order.
Fresh(p, kind) ==
  /\ p \in kind /\ enginePage[p] = "none"
  /\ \A q \in kind : q < p => enginePage[q] # "none"

\* reapPage, and every other removal of one entry.
AllBut(id) == {e \in pages : e.id # id}

Registers(p, opener) ==
  /\ ids < MaxIds
  /\ ids' = ids + 1
  /\ pages' = pages \cup {[id |-> ids + 1, page |-> p, opener |-> opener]}

-----------------------------------------------------------------------------
(* createPage.                                                             *)

CreatePage(p) ==
  /\ session = "live" /\ Fresh(p, MadePages) /\ making[p] = "no"
  /\ making' = [making EXCEPT ![p] = "waits"]
  /\ UNCHANGED <<enginePage, stream, pages, ids, pump, chain, adopting, session>>

\* The engine's page is there: closed again if the session ended meanwhile.
PageCreated(p, goesTo) ==
  /\ making[p] = "waits"
  /\ IF session # "live"
     THEN /\ enginePage' = [enginePage EXCEPT ![p] = "closed"]
          /\ making' = [making EXCEPT ![p] = "no"]
          /\ UNCHANGED <<pages, ids, pump>>
     ELSE /\ enginePage' = [enginePage EXCEPT ![p] = "open"]
          /\ Registers(p, 0)
          /\ pump' = [pump EXCEPT ![ids + 1] = "running"]
          /\ making' = [making EXCEPT ![p] = IF goesTo THEN "navigates" ELSE "no"]
  /\ UNCHANGED <<stream, chain, adopting, session>>

MakingFails(p) ==
  /\ making[p] = "waits"
  /\ making' = [making EXCEPT ![p] = "no"]
  /\ UNCHANGED <<enginePage, stream, pages, ids, pump, chain, adopting, session>>

Navigated(p) ==
  /\ making[p] = "navigates"
  /\ making' = [making EXCEPT ![p] = "no"]
  /\ UNCHANGED <<enginePage, stream, pages, ids, pump, chain, adopting, session>>

\* A failed first navigation undoes the creation: the engine page, then the entry,
\* which the pump may have reaped first.
NavigationFails(p) ==
  /\ making[p] = "navigates"
  /\ making' = [making EXCEPT ![p] = "closes"]
  /\ UNCHANGED <<enginePage, stream, pages, ids, pump, chain, adopting, session>>

UndoCreation(p, refused) ==
  /\ making[p] = "closes"
  /\ enginePage' = IF refused THEN enginePage ELSE [enginePage EXCEPT ![p] = "closed"]
  /\ pages' = {e \in pages : e.page # p \/ e.opener # 0}
  /\ making' = [making EXCEPT ![p] = "no"]
  /\ UNCHANGED <<stream, ids, pump, chain, adopting, session>>

\* closePage: the entry goes after the engine's page.
ClosePage(id) ==
  /\ session = "live" /\ Registered(id)
  /\ enginePage' = [enginePage EXCEPT ![EntryOf(id).page] = "closed"]
  /\ pages' = AllBut(id)
  /\ UNCHANGED <<stream, ids, making, pump, chain, adopting, session>>

-----------------------------------------------------------------------------
(* The pump of a page, and the adoption of popups.                         *)

\* A page.created: its adoption waits for the session's earlier ones, and the
\* pump waits for it.
PumpCreated(id) ==
  LET p == EntryOf(id).page
  IN  /\ Registered(id) /\ pump[id] = "running" /\ session = "live"
      /\ stream[p] # <<>>
      /\ stream' = [stream EXCEPT ![p] = Tail(@)]
      /\ chain' = Append(chain, [by |-> id, opener |-> p, popup |-> Head(stream[p])])
      /\ pump' = [pump EXCEPT ![id] = "adopting"]
      /\ UNCHANGED <<enginePage, pages, ids, making, adopting, session>>

\* The end of an adoption frees its pump, and the next one may start.
Settled(id, pumps) ==
  /\ chain' = SelectSeq(chain, LAMBDA a : a.by # id)
  /\ adopting' = {a \in adopting : a.by # id}
  /\ pump' = [pumps EXCEPT ![id] = IF @ = "adopting" THEN "running" ELSE @]

\* Slip: an adoption does not wait for the one before it.
AnyTurn(a) == chain # <<>>
\* adoptPopupSerialized: after the previous one settled.
Next1(a) == chain # <<>> /\ a = Head(chain) /\ adopting = {}

\* What adoptPopup sees before its await: the opener, the popup, the cap.
AdoptStart(id, a) ==
  /\ a.by = id /\ Next1(a)
  /\ IF session # "live" \/ Of(a.opener) = {} \/ Of(a.popup) # {}
     THEN Settled(id, pump)
     ELSE /\ adopting' = adopting \cup
               {[by |-> id, opener |-> (CHOOSE e \in Of(a.opener) : TRUE).id, popup |-> a.popup,
                 full |-> Cardinality(Popups) >= MaxPopups]}
          /\ UNCHANGED <<chain, pump>>
  /\ UNCHANGED <<enginePage, stream, pages, ids, making, session>>

\* Over the cap: the stray popup is closed in the engine.
CloseStray(a) ==
  /\ a \in adopting /\ a.full
  /\ enginePage' = [enginePage EXCEPT ![a.popup] = "closed"]
  /\ Settled(a.by, pump)
  /\ UNCHANGED <<stream, pages, ids, making, session>>

\* engineSession.pages() answered: session and opener are looked at again.
AdoptFinish(a) ==
  /\ a \in adopting /\ ~a.full
  /\ IF enginePage[a.popup] = "open" /\ session = "live" /\ Registered(a.opener)
     THEN Registers(a.popup, a.opener) /\ Settled(a.by, [pump EXCEPT ![ids + 1] = "starting"])
     ELSE Settled(a.by, pump) /\ UNCHANGED <<pages, ids>>
  /\ UNCHANGED <<enginePage, stream, making, session>>

\* queueMicrotask: the adopted page's pump, if session and entry are still there.
PumpStarts(id) ==
  /\ pump[id] = "starting"
  /\ pump' = [pump EXCEPT ![id] = IF session = "live" /\ Registered(id) THEN "running" ELSE "ended"]
  /\ UNCHANGED <<enginePage, stream, pages, ids, making, chain, adopting, session>>

\* The stream ends with its page (what was announced before is read first), or the
\* pump leaves at an event of a session that ended: the entry is reaped.
PumpLeaves(id) ==
  /\ pump[id] = "running"
  /\ Registered(id) =>
       LET p == EntryOf(id).page
       IN  \/ enginePage[p] = "closed" /\ (stream[p] = <<>> \/ session # "live")
           \/ session # "live" /\ stream[p] # <<>>
  /\ pump' = [pump EXCEPT ![id] = "ended"]
  /\ pages' = AllBut(id)
  /\ UNCHANGED <<enginePage, stream, ids, making, chain, adopting, session>>

-----------------------------------------------------------------------------
(* The engine, and the end of the session.                                 *)

\* A page opens another and announces it.
OpensPopup(p, popup) ==
  /\ enginePage[p] = "open" /\ Fresh(popup, PopupPages)
  /\ enginePage' = [enginePage EXCEPT ![popup] = "open"]
  /\ stream' = [stream EXCEPT ![p] = Append(@, popup)]
  /\ UNCHANGED <<pages, ids, making, pump, chain, adopting, session>>

PageCloses(p) ==
  /\ enginePage[p] = "open"
  /\ enginePage' = [enginePage EXCEPT ![p] = "closed"]
  /\ UNCHANGED <<stream, pages, ids, making, pump, chain, adopting, session>>

AllClose ==
  enginePage' = [p \in EnginePages |-> IF enginePage[p] = "open" THEN "closed" ELSE enginePage[p]]

\* TTL, idleness or a disconnect: the coordinator let it go, the registry did not.
LetGo ==
  /\ session = "live"
  /\ session' = "ended"
  /\ AllClose
  /\ UNCHANGED <<stream, pages, ids, making, pump, chain, adopting>>

\* deleteSessionState: by the sweep, or at once by closeSession and crash recovery.
RegistryDrops ==
  /\ session \in {"live", "ended"}
  /\ session' = "dropped"
  /\ pages' = {}
  /\ AllClose
  /\ UNCHANGED <<stream, ids, making, pump, chain, adopting>>

-----------------------------------------------------------------------------
PagesInit ==
  /\ enginePage = [p \in EnginePages |-> "none"]
  /\ stream = [p \in EnginePages |-> <<>>]
  /\ pages = {} /\ ids = 0
  /\ making = [p \in MadePages |-> "no"]
  /\ pump = [id \in EntryIds |-> "none"]
  /\ chain = <<>> /\ adopting = {}
  /\ session = "live"

Pump(id) ==
  \/ PumpCreated(id) \/ PumpStarts(id) \/ PumpLeaves(id)
  \/ \E i \in 1 .. Len(chain) : AdoptStart(id, chain[i])
  \/ \E a \in adopting : a.by = id /\ (CloseStray(a) \/ AdoptFinish(a))
Make(p) ==
  \/ CreatePage(p) \/ MakingFails(p) \/ Navigated(p) \/ NavigationFails(p)
  \/ \E b \in BOOLEAN : PageCreated(p, b) \/ UndoCreation(p, b)

PagesNext ==
  \/ \E p \in MadePages : Make(p)
  \/ \E p \in EnginePages : PageCloses(p)
  \/ \E p \in EnginePages, popup \in PopupPages : OpensPopup(p, popup)
  \/ \E id \in EntryIds : Pump(id) \/ ClosePage(id)
  \/ LetGo \/ RegistryDrops

\* The pump is a loop over the engine's stream, the engine answers pages(), and the
\* sweep timer drops a session that ended.
Pumps == \E id \in EntryIds : Pump(id)
DropsEnded == session = "ended" /\ RegistryDrops

PagesFairness == WF_pagesVars(Pumps) /\ WF_pagesVars(DropsEnded)

PagesSpec == PagesInit /\ [][PagesNext]_pagesVars /\ PagesFairness

-----------------------------------------------------------------------------
(* Properties.                                                             *)

\* Popups that several pages open together are never adopted past the cap.
PopupsWithinCap == Cardinality(Popups) <= MaxPopups

\* No creation or adoption that was waiting registers into a dropped session.
DroppedStaysEmpty == session = "dropped" => pages = {}

\* However creations, adoptions, closes and the end of the session overlap, the registry
\* holds no more popups than its cap, and none once the session is dropped.
RegistryIsBounded == PopupsWithinCap /\ DroppedStaysEmpty

\* An entry whose page is gone leaves the registry, whoever closed the page.
DeadPageLeaves ==
  \A p \in EnginePages : (enginePage[p] = "closed" /\ Of(p) # {}) ~> Of(p) = {}
=============================================================================
