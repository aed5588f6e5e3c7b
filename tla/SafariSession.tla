---------------------------- MODULE SafariSession ----------------------------
(***************************************************************************)
(* One Safari session (packages/engine-safari): SafariSession and          *)
(* SafariPage of index.ts over the OperationQueue of operation-queue.ts.   *)
(*                                                                         *)
(* WebDriver acts on the selected window, which belongs to the session and *)
(* not to a page; the queue keeps one operation's requests together.  The  *)
(* driver is external: a request is answered or fails (bounded), handles   *)
(* are not used again, and windows come and go by themselves.  Left out:   *)
(* the scripts, revisions and refs, cookie seeds, and the fallback for a   *)
(* driver without window/new.                                              *)
(***************************************************************************)
EXTENDS Naturals, Sequences, FiniteSets

CONSTANTS
  Windows,   \* window handles of the driver
  NoWindow,  \* nothing selected
  Ops,       \* calls of the session, each made once
  Limit      \* the queue's bound on pending operations, 128 in the source

VARIABLES
  op,         \* op -> [kind, page, pc]
  queue,      \* operations whose promise has not settled, in order
  pageState,       \* handle -> "none", "open" (in pagesMap) or "shut"
  closing,    \* closingHandles
  shut,       \* the session was closed publicly
  sessionGone,       \* onSessionGone ran
  window,     \* external: windows of the browser
  selected,   \* external: the driver's selected window
  hits        \* what each operation's script or delete reached: <<op, handle>>

safariVars == <<op, queue, pageState, closing, shut, sessionGone, window, selected, hits>>

OpKinds == {"newPage", "pages", "onPage", "closePage", "close"}
Cleanup(k) == k \in {"closePage", "close"}

\* assertOpen of the object the call was made on.
StillOpen(o) == IF op[o].kind = "onPage" THEN pageState[op[o].page] = "open" ELSE ~shut

-----------------------------------------------------------------------------
(* Calls: assertOpen and the bound, then the queue.  Cleanup passes both.   *)

Mark(o, kind, h, pc) == op' = [op EXCEPT ![o] = [kind |-> kind, page |-> h, pc |-> pc]]

\* A page operation, and the session's own.
Call(o, kind, h) ==
  /\ op[o].pc = "none" /\ kind \in {"newPage", "pages", "onPage"}
  /\ h \in Windows => pageState[h] # "none"
  /\ (kind = "onPage") <=> (h \in Windows)
  /\ LET closed == IF kind = "onPage" THEN pageState[h] # "open" ELSE shut
     IN  IF closed \/ Len(queue) >= Limit THEN Mark(o, kind, h, "refused") /\ UNCHANGED queue
         ELSE Mark(o, kind, h, "queued") /\ queue' = Append(queue, o)
  /\ UNCHANGED <<pageState, closing, shut, sessionGone, window, selected, hits>>

\* markClosed, at once, and the window's removal through the queue.
CloseWindow(o, h) ==
  /\ op[o].pc = "none" /\ h \in Windows /\ pageState[h] = "open"
  /\ Mark(o, "closePage", h, "queued")
  /\ queue' = Append(queue, o)
  /\ pageState' = [pageState EXCEPT ![h] = "shut"]
  /\ closing' = closing \cup {h}
  /\ UNCHANGED <<shut, sessionGone, window, selected, hits>>

\* The session: every page is closed publicly, one DELETE ends it.
CloseSession(o) ==
  /\ op[o].pc = "none" /\ ~shut
  /\ Mark(o, "close", NoWindow, "queued")
  /\ queue' = Append(queue, o)
  /\ shut' = TRUE
  /\ pageState' = [h \in Windows |-> IF pageState[h] = "open" THEN "shut" ELSE pageState[h]]
  /\ closing' = {}
  /\ UNCHANGED <<sessionGone, window, selected, hits>>

-----------------------------------------------------------------------------
(* The queue.                                                              *)

\* tail.then: an operation starts when the one before it has settled.
Turn(o) == op[o].pc = "queued" /\ Head(queue) = o

\* Only the operation at the head of the queue runs.
Settle == queue' = Tail(queue)
Runs(o, pc) == op' = [op EXCEPT ![o].pc = pc] /\ UNCHANGED queue
Finishes(o, pc) == op' = [op EXCEPT ![o].pc = pc] /\ Settle

\* assertOpen again at the start; cleanup goes straight to its requests.
Begin(o) ==
  /\ Turn(o)
  /\ IF Cleanup(op[o].kind) \/ StillOpen(o) THEN Runs(o, "request") ELSE Finishes(o, "failed")
  /\ UNCHANGED <<pageState, closing, shut, sessionGone, window, selected, hits>>

-----------------------------------------------------------------------------
(* The requests of an operation.                                           *)

\* A window of its own, then the switch to it.
NewWindow(o, h) ==
  /\ op[o].kind = "newPage" /\ op[o].pc = "request"
  /\ h \notin window /\ pageState[h] = "none"
  /\ window' = window \cup {h}
  /\ op' = [op EXCEPT ![o] = [op[o] EXCEPT !.pc = IF shut THEN "failed" ELSE "switch",
                                           !.page = h]]
  /\ IF shut THEN Settle /\ UNCHANGED pageState
     ELSE pageState' = [pageState EXCEPT ![h] = "open"] /\ UNCHANGED queue
  /\ UNCHANGED <<closing, shut, sessionGone, selected, hits>>

\* Slip: a window that is being closed is tracked again.
TracksAny(h) ==
  IF h \in window THEN "open" ELSE IF pageState[h] = "open" THEN "shut" ELSE pageState[h]

\* pages(): vanished windows are marked closed, new ones tracked, but never one
\* that is being closed.
Tracks(h) ==
  IF h \in window /\ h \notin closing THEN "open"
  ELSE IF h \notin window /\ pageState[h] = "open" THEN "shut" ELSE pageState[h]

ListPages(o) ==
  /\ op[o].kind = "pages" /\ op[o].pc = "request"
  /\ IF shut THEN Finishes(o, "failed") /\ UNCHANGED <<pageState, closing>>
     ELSE /\ Finishes(o, "done")
          /\ closing' = closing \cap window
          /\ pageState' = [h \in Windows |-> Tracks(h)]
  /\ UNCHANGED <<shut, sessionGone, window, selected, hits>>

\* switchTo: selects the page's window, and fails if it is not there.
Switch(o) ==
  LET h == op[o].page
  IN  /\ op[o].pc \in {"request", "switch"} /\ op[o].kind \in {"onPage", "newPage", "closePage"}
      /\ op[o].kind = "newPage" => op[o].pc = "switch"
      /\ selected' = IF h \in window THEN h ELSE selected
      /\ IF h \notin window \/ (op[o].kind # "closePage" /\ pageState[h] # "open")
         THEN Finishes(o, "failed")
         ELSE IF op[o].kind = "newPage" THEN Finishes(o, "done") ELSE Runs(o, "selected")
      /\ UNCHANGED <<pageState, closing, shut, sessionGone, window, hits>>

\* The script runs in whatever is selected; assertOpen judges the result.
Execute(o) ==
  /\ op[o].kind = "onPage" /\ op[o].pc = "selected"
  /\ hits' = IF selected \in window THEN hits \cup {<<o, selected>>} ELSE hits
  /\ Finishes(o, IF selected \in window /\ StillOpen(o) THEN "done" ELSE "failed")
  /\ UNCHANGED <<pageState, closing, shut, sessionGone, window, selected>>

\* The delete takes whatever is selected; then the handle is confirmed gone.
DeleteWindow(o) ==
  /\ op[o].kind = "closePage" /\ op[o].pc = "selected"
  /\ IF selected \in window
     THEN /\ hits' = hits \cup {<<o, selected>>}
          /\ window' = window \ {selected}
          /\ closing' = closing \ {op[o].page}
     ELSE UNCHANGED <<hits, window, closing>>
  /\ Finishes(o, "done")
  /\ UNCHANGED <<pageState, shut, sessionGone, selected>>

DeleteSession(o) ==
  /\ op[o].kind = "close" /\ op[o].pc = "request"
  /\ sessionGone' = TRUE /\ window' = {}
  /\ Finishes(o, "done")
  /\ UNCHANGED <<pageState, closing, shut, selected, hits>>

\* Slip: a failed DELETE ends like any other request.
RequestFailsPlainly(o) ==
  /\ op[o].pc \in {"request", "switch", "selected"}
  /\ Finishes(o, "failed")
  /\ UNCHANGED <<pageState, closing, shut, sessionGone, window, selected, hits>>

\* A request fails or times out: cleanup swallows it, the session's still ends.
RequestFails(o) ==
  /\ op[o].pc \in {"request", "switch", "selected"}
  /\ sessionGone' = (sessionGone \/ op[o].kind = "close")
  /\ window' = IF op[o].kind = "close" THEN {} ELSE window
  /\ Finishes(o, IF Cleanup(op[o].kind) THEN "done" ELSE "failed")
  /\ UNCHANGED <<pageState, closing, shut, selected, hits>>

\* The browser opens and closes windows: popups and users.
Appear(h) ==
  /\ h \notin window /\ pageState[h] = "none" /\ ~sessionGone
  /\ window' = window \cup {h}
  /\ UNCHANGED <<op, queue, pageState, closing, shut, sessionGone, selected, hits>>

Vanish(h) ==
  /\ h \in window
  /\ window' = window \ {h}
  /\ UNCHANGED <<op, queue, pageState, closing, shut, sessionGone, selected, hits>>

-----------------------------------------------------------------------------
SafariInit ==
  /\ op = [o \in Ops |-> [kind |-> "none", page |-> NoWindow, pc |-> "none"]]
  /\ queue = <<>>
  /\ pageState = [h \in Windows |-> "none"]
  /\ closing = {}
  /\ shut = FALSE /\ sessionGone = FALSE
  /\ window \in {w \in SUBSET Windows : Cardinality(w) = 1}
  /\ selected \in window
  /\ hits = {}

Serve(o) ==
  \/ Begin(o) \/ ListPages(o) \/ Switch(o) \/ Execute(o) \/ DeleteWindow(o) \/ DeleteSession(o)
  \/ RequestFails(o)
  \/ \E h \in Windows : NewWindow(o, h)

SafariNext ==
  \/ \E o \in Ops :
       \/ \E kind \in OpKinds, h \in Windows \cup {NoWindow} : Call(o, kind, h)
       \/ \E h \in Windows : CloseWindow(o, h)
       \/ CloseSession(o)
       \/ Serve(o)
  \/ \E h \in Windows : Appear(h) \/ Vanish(h)

\* A request is answered or fails by its deadline, and the queue goes on.
SafariFairness == \A o \in Ops : WF_safariVars(Serve(o))

SafariSpec == SafariInit /\ [][SafariNext]_safariVars /\ SafariFairness

-----------------------------------------------------------------------------
(* Properties.                                                             *)

\* A script runs in the window of its own page, and a close removes its own,
\* whatever else is asked of the session meanwhile.
OwnWindowOnly == \A hit \in hits : hit[2] = op[hit[1]].page

\* A page that was closed is not handed out again while its window still waits
\* to be removed, and nothing new is on a closed session.
ClosedStaysClosed ==
  /\ \A h \in Windows :
       (\E o \in Ops : op[o].kind = "closePage" /\ op[o].page = h
                       /\ op[o].pc \in {"queued", "request", "selected"}) /\ h \in window
       => pageState[h] # "open"
  /\ shut => \A h \in Windows : pageState[h] # "open"

\* Whatever the queue holds and however windows come and go, an operation meets its own
\* window and a closed page stays closed.
WindowsAreOwn == OwnWindowOnly /\ ClosedStaysClosed

\* A closed session ends its driver, however full the queue was.
CloseGetsThrough == shut ~> sessionGone
=============================================================================
