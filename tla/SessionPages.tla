----------------------------- MODULE SessionPages -----------------------------
(***************************************************************************)
(* The pages of one engine session (packages/engine-playwright index.ts,   *)
(* PlaywrightSession and the ends of PlaywrightPage): pages opened on      *)
(* request, popups adopted by their opener, the downloads held for a page, *)
(* and the session's close.                                                *)
(*                                                                         *)
(* External: the browser opens popups, closes pages and delivers           *)
(* downloads; opener() answers null once the opener is closed (so says     *)
(* Playwright).  Left out: which URL, file name and MIME type; refs, input *)
(* and dialogs (PageRefs, PageInput, PageActs).  A page object is named by *)
(* its browser page: each is registered once.                              *)
(***************************************************************************)
EXTENDS Naturals, FiniteSets, FiniteSetsExt, Sequences, SequencesExt

CONSTANTS
  Made,       \* pages newPage asks for, each once
  Popups,     \* pages other pages open, each once
  MaxFiles,   \* bound on the downloads delivered: numbered in their order
  MaxEntries, \* 100 in the source
  MaxBytes,   \* 20 MiB in the source
  DownloadSizes  \* of the downloads that are not refused as too large

ASSUME RegistryAssumption ==
  /\ Made \cap Popups = {}
  /\ MaxEntries \in Nat \ {0} /\ MaxBytes \in Nat /\ DownloadSizes \subseteq 0 .. MaxBytes

VARIABLES
  raw,        \* page -> "none", "open", "closed": the browser's page
  opener,     \* popup -> the page that opened it
  owned,      \* ownedPlaywrightPages
  pageMap,
  work,       \* page -> its newPage or adoptPopupPage: "no", an await, "done"
  announced,  \* page -> the popups its event stream announced
  held,       \* downloads: page -> sequence of [file, size], oldest first
  bytes,      \* page -> held.bytes
  file,       \* download -> [page, at, size]
  sessionAt,    \* "live", "closing", "closed"
  attached    \* it is on the operator's browser

registryVars ==
  <<raw, opener, owned, pageMap, work, announced, held, bytes, file, sessionAt, attached>>
fileVars == <<held, bytes, file>>

Pages == Made \cup Popups
Files == 1 .. MaxFiles
NoOpener == "nowhere"
Closed == sessionAt # "live"

RegistryInit ==
  /\ raw = [p \in Pages |-> "none"] /\ opener = [p \in Popups |-> NoOpener]
  /\ owned = {} /\ pageMap = {}
  /\ work = [p \in Pages |-> "no"] /\ announced = [p \in Pages |-> {}]
  /\ held = [p \in Pages |-> <<>>] /\ bytes = [p \in Pages |-> 0]
  /\ file = [f \in Files |-> [page |-> NoOpener, at |-> "none", size |-> 0]]
  /\ sessionAt = "live" /\ attached \in BOOLEAN

Goes(p, at) == work' = [work EXCEPT ![p] = at]

\* PlaywrightPage.close: out of the map, its downloads gone, its browser page closed.
Leaves(gone) ==
  /\ pageMap' = pageMap \ gone
  /\ held' = [p \in Pages |-> IF p \in gone THEN <<>> ELSE held[p]]
  /\ bytes' = [p \in Pages |-> IF p \in gone THEN 0 ELSE bytes[p]]
  /\ raw' = [p \in Pages |-> IF p \in gone THEN "closed" ELSE raw[p]]

-----------------------------------------------------------------------------
(* newPage.                                                                *)

NewPage(p) ==
  /\ p \in Made /\ work[p] = "no" /\ ~Closed
  /\ Goes(p, "opening")
  /\ UNCHANGED <<raw, opener, owned, pageMap, announced, fileVars, sessionAt, attached>>

\* context.newPage answered; then the viewport is set.  The caller hears a failure.
PageOpens(p, ok) ==
  /\ work[p] = "opening" /\ raw[p] = "none"
  /\ raw' = [raw EXCEPT ![p] = IF ~ok THEN @ ELSE IF Closed THEN "closed" ELSE "open"]
  /\ Goes(p, IF ok /\ ~Closed THEN "sizing" ELSE "done")
  /\ UNCHANGED <<opener, owned, pageMap, announced, fileVars, sessionAt, attached>>

\* Slip: the session is asked about before the viewport is set, not after.
RegistersAnyway(p) == raw[p] = "open"
\* registerPlaywrightPage, from its last await on.
Registers(p) == ~Closed /\ raw[p] = "open"

PageRegisters(p) ==
  /\ work[p] = "sizing"
  /\ IF Registers(p)
     THEN owned' = owned \cup {p} /\ pageMap' = pageMap \cup {p} /\ UNCHANGED raw
     ELSE raw' = [raw EXCEPT ![p] = "closed"] /\ UNCHANGED <<owned, pageMap>>
  /\ Goes(p, "done")
  /\ UNCHANGED <<opener, announced, fileVars, sessionAt, attached>>

-----------------------------------------------------------------------------
(* adoptPopupPage.                                                         *)

\* External: an open page opens another; a session that listens is told.
PopupOpens(p, by) ==
  /\ p \in Popups /\ raw[p] = "none" /\ raw[by] = "open"
  /\ raw' = [raw EXCEPT ![p] = "open"]
  /\ opener' = [opener EXCEPT ![p] = by]
  /\ Goes(p, IF Closed THEN "done" ELSE "asking")
  /\ UNCHANGED <<owned, pageMap, announced, fileVars, sessionAt, attached>>

\* opener() answers; an opener that is not the session's own is no business of it.
OpenerAnswers(p) ==
  /\ work[p] = "asking"
  /\ IF raw[opener[p]] # "open" \/ opener[p] \notin owned
     THEN Goes(p, "done") /\ UNCHANGED <<raw, owned, pageMap>>
     ELSE IF Closed \/ opener[p] \notin pageMap \/ raw[p] = "closed"
     THEN /\ raw' = [raw EXCEPT ![p] = "closed"]
          /\ Goes(p, "done") /\ UNCHANGED <<owned, pageMap>>
     ELSE /\ owned' = owned \cup {p} /\ pageMap' = pageMap \cup {p}
          /\ Goes(p, "announcing") /\ UNCHANGED raw
  /\ UNCHANGED <<opener, announced, fileVars, sessionAt, attached>>

\* What must still hold for a popup to be announced.
Usable(p) ==
  ~Closed /\ raw[p] = "open" /\ raw[opener[p]] = "open" /\ {p, opener[p]} \subseteq pageMap

Announces(p) ==
  /\ work[p] = "announcing"
  /\ Goes(p, "done")
  /\ IF Usable(p)
     THEN /\ announced' = [announced EXCEPT ![opener[p]] = @ \cup {p}]
          /\ UNCHANGED <<raw, pageMap, held, bytes>>
     ELSE Leaves({p}) /\ UNCHANGED announced
  /\ UNCHANGED <<opener, owned, file, sessionAt, attached>>

-----------------------------------------------------------------------------
(* Downloads.                                                              *)

\* The page's own handler: a page that was left has none, an attached one never.
DownloadStarts(f, p, size) ==
  /\ file[f].at = "none" /\ (\A g \in 1 .. f - 1 : file[g].at # "none")
  /\ p \in pageMap /\ ~attached /\ raw[p] = "open"
  /\ file' = [file EXCEPT ![f] = [page |-> p, at |-> "saving", size |-> size]]
  /\ UNCHANGED <<raw, opener, owned, pageMap, work, announced, held, bytes, sessionAt, attached>>

\* The browser's path, the size and the bytes: each await may end the work; a
\* page left meanwhile hears nothing.
DownloadFails(f) ==
  /\ file[f].at \in {"saving", "reading"}
  /\ file' = [file EXCEPT ![f].at = "failed"]
  /\ UNCHANGED <<raw, opener, owned, pageMap, work, announced, held, bytes, sessionAt, attached>>

DownloadRead(f) ==
  /\ file[f].at = "saving"
  /\ file' = [file EXCEPT ![f].at = IF file[f].page \in pageMap THEN "reading" ELSE "dropped"]
  /\ UNCHANGED <<raw, opener, owned, pageMap, work, announced, held, bytes, sessionAt, attached>>

\* The size of the first i entries, for every i, and of all of them.
Totals(entries) ==
  LET total[i \in 0 .. Len(entries)] == IF i = 0 THEN 0 ELSE total[i - 1] + entries[i].size
  IN  total
SizeOf(entries) == Totals(entries)[Len(entries)]

\* How many of the oldest go: the loop stops as soon as the new one fits, or none is left.
Evicted(p, n) ==
  LET all == Len(held[p]) IN
  Min({i \in 0 .. all :
         \/ i = all
         \/ all - i < MaxEntries /\ bytes[p] - Totals(held[p])[i] + n <= MaxBytes})

\* Slip: what is evicted stays counted.
CountsOnly(p, n) == bytes' = [bytes EXCEPT ![p] = @ + n]
\* held.bytes follows what is evicted and what is set.
Counts(p, n) == bytes' = [bytes EXCEPT ![p] = @ - Totals(held[p])[Evicted(p, n)] + n]

\* The oldest are evicted until the new one fits.
DownloadHeld(f) ==
  LET p == file[f].page  n == file[f].size
  IN  /\ file[f].at = "reading"
      /\ file' = [file EXCEPT ![f].at = IF p \in pageMap THEN "held" ELSE "dropped"]
      /\ IF p \in pageMap
         THEN /\ held' = [held EXCEPT ![p] =
                   Append(SubSeq(@, Evicted(p, n) + 1, Len(@)), [file |-> f, size |-> n])]
              /\ Counts(p, n)
         ELSE UNCHANGED <<held, bytes>>
      /\ UNCHANGED <<raw, opener, owned, pageMap, work, announced, sessionAt, attached>>

\* takeDownload: an entry is handed over once.
TakeDownload(p, i) ==
  /\ i \in DOMAIN held[p]
  /\ held' = [held EXCEPT ![p] = RemoveAt(@, i)]
  /\ bytes' = [bytes EXCEPT ![p] = @ - held[p][i].size]
  /\ file' = [file EXCEPT ![held[p][i].file].at = "taken"]
  /\ UNCHANGED <<raw, opener, owned, pageMap, work, announced, sessionAt, attached>>

-----------------------------------------------------------------------------
(* The ends of pages and of the session.                                   *)

\* A caller closes a page, or the browser did and the page's handler runs.
PageEnds(p) ==
  /\ raw[p] = "open"
  /\ IF p \in pageMap
     THEN Leaves({p})
     ELSE raw' = [raw EXCEPT ![p] = "closed"] /\ UNCHANGED <<pageMap, held, bytes>>
  /\ UNCHANGED <<opener, owned, work, announced, file, sessionAt, attached>>

SessionCloses ==
  /\ sessionAt = "live" /\ sessionAt' = "closing"
  /\ UNCHANGED <<raw, opener, owned, pageMap, work, announced, fileVars, attached>>

\* The pages a closing session closes.
ToClose == pageMap

\* disposeSession and closeAttached: every mapped page, then the context; the
\* operator's context stays.
SessionDisposed ==
  /\ sessionAt = "closing" /\ sessionAt' = "closed"
  /\ pageMap' = {} /\ held' = [p \in Pages |-> <<>>] /\ bytes' = [p \in Pages |-> 0]
  /\ raw' = [p \in Pages |-> IF p \in ToClose \/ (~attached /\ raw[p] = "open") THEN "closed"
                            ELSE raw[p]]
  /\ UNCHANGED <<opener, owned, work, announced, file, attached>>

RegistryNext ==
  \/ \E p \in Pages :
       \/ NewPage(p) \/ PageRegisters(p)
       \/ \E ok \in BOOLEAN : PageOpens(p, ok)
       \/ \E by \in Pages : PopupOpens(p, by)
       \/ OpenerAnswers(p) \/ Announces(p) \/ PageEnds(p)
       \/ \E i \in 1 .. MaxEntries : TakeDownload(p, i)
  \/ \E f \in Files :
       \/ \E p \in Pages, size \in DownloadSizes : DownloadStarts(f, p, size)
       \/ DownloadRead(f) \/ DownloadHeld(f) \/ DownloadFails(f)
  \/ SessionCloses \/ SessionDisposed

RegistrySpec == RegistryInit /\ [][RegistryNext]_registryVars

-----------------------------------------------------------------------------
(* When a closed session has nothing left under way, no page is open that  *)
(* it made, or that a page of its own opened and it came to own: a popup   *)
(* half adopted while the session closes is not left in the operator's     *)
(* browser (index.ts:3049).                                                *)
NothingLeftBehind ==
  sessionAt = "closed" /\ (\A p \in Pages : work[p] \in {"no", "done"})
    => \A p \in Made \cup owned : raw[p] # "open"

(* What is held for a page goes with it, and a closed session leaves no     *)
(* page of its own: nothing is kept that nobody can ask for.               *)
PagesAreAccounted ==
  /\ NothingLeftBehind
  /\ \A p \in Pages \ pageMap : held[p] = <<>>

(* What is held for a page is what the counter says, and neither the       *)
(* entries nor the bytes pass their limits, however captures, evictions    *)
(* and collections are ordered (index.ts:3108-3122).                       *)
BytesWithinHold ==
  \A p \in Pages :
    /\ bytes[p] = SizeOf(held[p]) /\ bytes[p] <= MaxBytes
    /\ Len(held[p]) <= MaxEntries
=============================================================================
