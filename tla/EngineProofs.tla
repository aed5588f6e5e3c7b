---------------------------- MODULE EngineProofs -----------------------------
(***************************************************************************)
(* What the Playwright engine's parts guarantee for every number of calls, *)
(* whatever the browser answers and however late: browsers and sessions,   *)
(* reads of a page, input on a page, the evidence of an act, what a        *)
(* reference stands for, the pages of a session, the identity of forms, and*)
(* the one window Safari's driver has selected.                            *)
(*                                                                         *)
(* None of the properties the run checks is inductive.  Creation says what *)
(* a creation under way holds before it is published, ReadInv how far a    *)
(* read and its caller have come, OwnedBy who owns the input of a page,    *)
(* Attributable that a dispatch which is not alone moves the page's epoch, *)
(* AgreesWith which answers the store of references still agrees with,     *)
(* HeldInv that the counter of a page's downloads is their sum, which needs*)
(* an induction, and QueueInv that the call at the head of the queue is the*)
(* one on Safari's driver.                                                 *)
(***************************************************************************)
EXTENDS EngineLifecycle, PageRead, PageInput, PageActs, PageRefs, FormIdentity, SessionPages,
        SafariSession, FiniteSetTheorems, SequenceTheorems, TLAPS

-----------------------------------------------------------------------------
(* Browsers and sessions (EngineLifecycle).                                *)

\* A session's browser and context at each point of its creation and of its end.
Creation(s) ==
  /\ session[s].at = "idle" => session[s].own = None /\ session[s].kind = None
  /\ session[s].kind \in {None, "headless"} => session[s].own = None
  /\ session[s].at \notin {"idle", "failed"} => session[s].kind # None
  /\ session[s].own = "launching" => session[s].at = "acquiring"
  /\ session[s].at \in {"failed", "closed", "unclosed"} => session[s].own # "up"
  /\ session[s].at \in {"context", "setup", "live"} /\ ~session[s].lost =>
       IF session[s].kind = "headless" THEN pool = "up" ELSE session[s].own = "up"
  /\ session[s].at \in {"setup", "live"} => session[s].context = "open"
  /\ session[s].at = "live" => ~session[s].lost

CreationInv == \A s \in Sessions : Creation(s)

\* engine.close refuses new creations at once, waits for those under way, and then
\* closes the attachment and the pool.
ShutdownInv ==
  /\ disposing = "no" <=> ~closed
  /\ disposing \in {"attached", "pool", "done"} =>
       \A s \in Sessions : session[s].at \notin Pending
  /\ disposing = "done" => pool \notin {"up", "launching"}

\* A session that holds the attachment: it reserved it and has not released it.
Attaches(s) ==
  /\ session[s].kind = "attach"
  /\ \/ session[s].at \in Pending
     \/ session[s].at \in {"live", "closing"} /\ session[s].own # "closed"

\* Until a second release the reservation is held by one session, which is the one
\* dispose will find, and once dispose has passed it none is attached.
AttachmentInv ==
  ~twice =>
    /\ \A s \in Sessions : Attaches(s) => reserved
    /\ \A s, t \in Sessions : Attaches(s) /\ Attaches(t) => s = t
    /\ \A s \in Sessions : Attaches(s) /\ session[s].at \in {"live", "closing"} => active = s
    /\ \A s \in Sessions :
         session[s].kind = "attach" /\ session[s].at \in {"unclosed", "closed"}
           => session[s].own = "closed"
    /\ disposing \in {"attached", "pool", "done"} =>
         \A s \in Sessions : ~(session[s].kind = "attach" /\ session[s].at = "live")
    /\ disposing \in {"pool", "done"} => \A s \in Sessions : ~Attaches(s)

EngineInv == TypeOK /\ CreationInv /\ ShutdownInv /\ AttachmentInv

-----------------------------------------------------------------------------
(* What a loss does to the sessions.                                       *)

\* The sessions that lose their browser are marked, the published ones close; the
\* others are left alone.
LEMMA LosesEffect ==
  ASSUME TypeOK, NEW lost \in SUBSET Sessions, Loses(lost)
  PROVE  /\ session' \in [Sessions -> SessionRecord]
         /\ \A s \in Sessions :
              /\ session'[s].kind = session[s].kind
              /\ session'[s].context = session[s].context
              /\ s \notin lost => session'[s] = session[s]
              /\ s \in lost => /\ session'[s].lost
                               /\ session'[s].own = IF session[s].own = "up" THEN "dead" ELSE session[s].own
                               /\ session'[s].at = IF session[s].at = "live" THEN "closing" ELSE session[s].at
<1> DEFINE r(s) == [session[s] EXCEPT !.lost = TRUE, !.own = IF @ = "up" THEN "dead" ELSE @,
                                      !.at = IF @ = "live" THEN "closing" ELSE @]
<1>1. \A s \in Sessions : session[s] \in SessionRecord
  BY DEF TypeOK
<1>2. \A s \in Sessions : r(s) \in SessionRecord
  BY ZenonT(60), <1>1 DEF SessionRecord, Ats, Pending, None
<1>3. \A s \in Sessions : session'[s] = IF s \notin lost THEN session[s] ELSE r(s)
  BY DEF Loses
<1>4. session' \in [Sessions -> SessionRecord]
  BY <1>1, <1>2 DEF Loses
<1>5. \A s \in Sessions :
        /\ r(s).kind = session[s].kind /\ r(s).context = session[s].context /\ r(s).lost
        /\ r(s).own = IF session[s].own = "up" THEN "dead" ELSE session[s].own
        /\ r(s).at = IF session[s].at = "live" THEN "closing" ELSE session[s].at
  BY <1>1 DEF SessionRecord
<1> HIDE DEF r
<1> QED
  BY <1>3, <1>4, <1>5

-----------------------------------------------------------------------------
(* The invariant.                                                          *)

LEMMA EngineInit == Init => EngineInv
<1> SUFFICES ASSUME Init PROVE EngineInv
  OBVIOUS
<1>1. Fresh \in SessionRecord
  BY DEF Fresh, SessionRecord, Ats, Pending, None
<1>2. TypeOK
  BY <1>1 DEF Init, TypeOK, None
<1>3. \A s \in Sessions :
        session[s].at = "idle" /\ session[s].kind = None /\ session[s].own = None
  BY DEF Init, Fresh
<1>4. CreationInv /\ ShutdownInv /\ AttachmentInv
  BY <1>3 DEF Init, CreationInv, Creation, ShutdownInv, AttachmentInv, Attaches, Pending, None
<1> QED
  BY <1>2, <1>4 DEF EngineInv

LEMMA CreateHeadlessKeeps ==
  ASSUME EngineInv, NEW s \in Sessions, CreateHeadless(s)
  PROVE  EngineInv'
<1>1. TypeOK'
  BY EngineAssumption
  DEF EngineInv, TypeOK, CreateHeadless, acquireSharedBrowser, SessionRecord, Ats, Pending, None
<1>2. CreationInv'
  BY EngineAssumption
  DEF EngineInv, TypeOK, CreationInv, Creation, ShutdownInv, CreateHeadless,
      acquireSharedBrowser, SessionRecord, Ats, Pending, None
<1>3. ShutdownInv'
  BY
  DEF EngineInv, TypeOK, CreationInv, Creation, ShutdownInv, CreateHeadless,
      acquireSharedBrowser, SessionRecord, Ats, Pending, None
<1>4. AttachmentInv'
  BY EngineAssumption
  DEF EngineInv, TypeOK, CreationInv, Creation, ShutdownInv, AttachmentInv, Attaches,
      CreateHeadless, acquireSharedBrowser, SessionRecord, Ats, Pending, None
<1> QED
  BY <1>1, <1>2, <1>3, <1>4 DEF EngineInv

LEMMA CreateHeadedKeeps ==
  ASSUME EngineInv, NEW s \in Sessions, CreateHeaded(s)
  PROVE  EngineInv'
<1>1. TypeOK'
  BY EngineAssumption DEF EngineInv, TypeOK, CreateHeaded, SessionRecord, Ats, Pending, None
<1>2. CreationInv'
  BY EngineAssumption
  DEF EngineInv, TypeOK, CreationInv, Creation, ShutdownInv, CreateHeaded, SessionRecord, Ats,
      Pending, None
<1>3. ShutdownInv'
  BY
  DEF EngineInv, TypeOK, CreationInv, Creation, ShutdownInv, CreateHeaded, SessionRecord, Ats,
      Pending, None
<1>4. AttachmentInv'
  BY SMTT(30), EngineAssumption
  DEF EngineInv, TypeOK, CreationInv, Creation, ShutdownInv, AttachmentInv, Attaches,
      CreateHeaded, SessionRecord, Ats, Pending, None
<1> QED
  BY <1>1, <1>2, <1>3, <1>4 DEF EngineInv

LEMMA CreateAttachedKeeps ==
  ASSUME EngineInv, NEW s \in Sessions, CreateAttached(s)
  PROVE  EngineInv'
<1>1. TypeOK'
  BY EngineAssumption DEF EngineInv, TypeOK, CreateAttached, SessionRecord, Ats, Pending, None
<1>2. CreationInv'
  BY EngineAssumption
  DEF EngineInv, TypeOK, CreationInv, Creation, ShutdownInv, CreateAttached, SessionRecord,
      Ats, Pending, None
<1>3. ShutdownInv'
  BY
  DEF EngineInv, TypeOK, CreationInv, Creation, ShutdownInv, CreateAttached, SessionRecord,
      Ats, Pending, None
<1>4. AttachmentInv'
  BY SMTT(30), EngineAssumption
  DEF EngineInv, TypeOK, CreationInv, Creation, ShutdownInv, AttachmentInv, Attaches,
      CreateAttached, SessionRecord, Ats, Pending, None
<1> QED
  BY <1>1, <1>2, <1>3, <1>4 DEF EngineInv

LEMMA CreateRefusedKeeps ==
  ASSUME EngineInv, NEW s \in Sessions, CreateRefused(s)
  PROVE  EngineInv'
<1>1. TypeOK'
  BY EngineAssumption
  DEF EngineInv, TypeOK, CreateRefused, Becomes, SessionRecord, Ats, Pending, None
<1>2. CreationInv'
  BY EngineAssumption
  DEF EngineInv, TypeOK, CreationInv, Creation, ShutdownInv, CreateRefused, Becomes,
      SessionRecord, Ats, Pending, None
<1>3. ShutdownInv'
  BY
  DEF EngineInv, TypeOK, CreationInv, Creation, ShutdownInv, CreateRefused, Becomes,
      SessionRecord, Ats, Pending, None
<1>4. AttachmentInv'
  BY EngineAssumption
  DEF EngineInv, TypeOK, CreationInv, Creation, ShutdownInv, AttachmentInv, Attaches,
      CreateRefused, Becomes, SessionRecord, Ats, Pending, None
<1> QED
  BY <1>1, <1>2, <1>3, <1>4 DEF EngineInv

LEMMA OwnLaunchesKeeps ==
  ASSUME EngineInv, NEW s \in Sessions, NEW ok \in BOOLEAN, OwnLaunches(s, ok)
  PROVE  EngineInv'
<1>1. TypeOK'
  BY EngineAssumption
  DEF EngineInv, TypeOK, OwnLaunches, OnOrCleaning, SessionRecord, Ats, Pending, None
<1>2. CreationInv'
  BY EngineAssumption
  DEF EngineInv, TypeOK, CreationInv, Creation, ShutdownInv, OwnLaunches, OnOrCleaning,
      SessionRecord, Ats, Pending, None
<1>3. ShutdownInv'
  BY
  DEF EngineInv, TypeOK, CreationInv, Creation, ShutdownInv, OwnLaunches, OnOrCleaning,
      SessionRecord, Ats, Pending, None
<1>4. AttachmentInv'
  <2>1. /\ session'[s].kind = session[s].kind
        /\ session'[s].at \in {"cleaning", "setup", "context"}
        /\ \A t \in Sessions : t # s => session'[t] = session[t]
    BY DEF EngineInv, TypeOK, OwnLaunches, OnOrCleaning
  <2>2. session[s].kind = "attach" => Attaches(s)
    BY DEF OwnLaunches, Attaches, Pending
  <2>3. \A t \in Sessions : Attaches(t)' => Attaches(t)
    BY <2>1, <2>2 DEF Attaches
  <2>4. \A t \in Sessions :
          session'[t].at \in {"live", "closing", "unclosed", "closed"} => session'[t] = session[t]
    BY <2>1
  <2> QED
    BY <2>3, <2>4 DEF EngineInv, AttachmentInv, OwnLaunches
<1> QED
  BY <1>1, <1>2, <1>3, <1>4 DEF EngineInv

LEMMA NewContextKeeps ==
  ASSUME EngineInv, NEW s \in Sessions, NEW ok \in BOOLEAN, NewContext(s, ok)
  PROVE  EngineInv'
<1>1. TypeOK'
  <2>1. session[s] \in SessionRecord
    BY DEF EngineInv, TypeOK
  <2>2. \A a \in Ats, c \in {None, "open"} :
          [session[s] EXCEPT !.at = a, !.context = c] \in SessionRecord
    BY <2>1 DEF SessionRecord
  <2>3. session' \in [Sessions -> SessionRecord]
    BY <2>2 DEF EngineInv, TypeOK, NewContext, OnOrCleaning, Ats, Pending
  <2> QED
    BY <2>3 DEF EngineInv, TypeOK, NewContext
<1>2. CreationInv'
  BY EngineAssumption
  DEF EngineInv, TypeOK, CreationInv, Creation, ShutdownInv, NewContext, OnOrCleaning,
      SessionRecord, Ats, Pending, None
<1>3. ShutdownInv'
  BY
  DEF EngineInv, TypeOK, CreationInv, Creation, ShutdownInv, NewContext, OnOrCleaning,
      SessionRecord, Ats, Pending, None
<1>4. AttachmentInv'
  BY EngineAssumption
  DEF EngineInv, TypeOK, CreationInv, Creation, ShutdownInv, AttachmentInv, Attaches,
      NewContext, OnOrCleaning, SessionRecord, Ats, Pending, None
<1> QED
  BY <1>1, <1>2, <1>3, <1>4 DEF EngineInv

LEMMA SetUpKeeps ==
  ASSUME EngineInv, NEW s \in Sessions, NEW ok \in BOOLEAN, SetUp(s, ok)
  PROVE  EngineInv'
<1>1. TypeOK'
  BY EngineAssumption
  DEF EngineInv, TypeOK, SetUp, Becomes, Connected, SessionRecord, Ats, Pending, None
<1>2. CreationInv'
  BY EngineAssumption
  DEF EngineInv, TypeOK, CreationInv, Creation, ShutdownInv, SetUp, Becomes, Connected,
      SessionRecord, Ats, Pending, None
<1>3. ShutdownInv'
  BY
  DEF EngineInv, TypeOK, CreationInv, Creation, ShutdownInv, SetUp, Becomes, Connected,
      SessionRecord, Ats, Pending, None
<1>4. AttachmentInv'
  BY EngineAssumption
  DEF EngineInv, TypeOK, CreationInv, Creation, ShutdownInv, AttachmentInv, Attaches, SetUp,
      Becomes, Connected, SessionRecord, Ats, Pending, None
<1> QED
  BY <1>1, <1>2, <1>3, <1>4 DEF EngineInv

LEMMA DisposedKeeps ==
  ASSUME EngineInv, NEW s \in Sessions, NEW ok \in BOOLEAN, Disposed(s, ok)
  PROVE  EngineInv'
<1>1. TypeOK'
  <2> DEFINE r == [session[s] EXCEPT !.at = IF ok THEN "closed" ELSE "unclosed",
                                 !.context = IF ok THEN "closed" ELSE session[s].context,
                                 !.own = IF session[s].own = "up" THEN "closed" ELSE session[s].own]
  <2>1. session[s] \in SessionRecord
    BY DEF EngineInv, TypeOK
  <2>2. r \in SessionRecord
    BY <2>1 DEF SessionRecord, Ats, Pending
  <2>3. session' = [session EXCEPT ![s] = r]
    BY DEF Disposed, EngineInv, TypeOK
  <2>4. session' \in [Sessions -> SessionRecord]
    BY <2>2, <2>3 DEF EngineInv, TypeOK
  <2> QED
    BY <2>4 DEF EngineInv, TypeOK, Disposed
<1>2. CreationInv'
  BY EngineAssumption
  DEF EngineInv, TypeOK, CreationInv, Creation, ShutdownInv, Disposed, SessionRecord, Ats,
      Pending, None
<1>3. ShutdownInv'
  BY
  DEF EngineInv, TypeOK, CreationInv, Creation, ShutdownInv, Disposed, SessionRecord, Ats,
      Pending, None
<1>4. AttachmentInv'
  <2>1. /\ session'[s].kind = session[s].kind /\ session[s].kind # "attach"
        /\ \A t \in Sessions : t # s => session'[t] = session[t]
    BY DEF EngineInv, TypeOK, Disposed
  <2> QED
    BY ZenonT(60), <2>1 DEF EngineInv, AttachmentInv, Attaches, Disposed
<1> QED
  BY <1>1, <1>2, <1>3, <1>4 DEF EngineInv

LEMMA AttachedClosedKeeps ==
  ASSUME EngineInv, NEW s \in Sessions, NEW ok \in BOOLEAN, AttachedClosed(s, ok)
  PROVE  EngineInv'
<1>1. TypeOK'
  <2> DEFINE r == [session[s] EXCEPT !.at = IF ok THEN "closed" ELSE "unclosed",
                                 !.own = "closed", !.context = "closed"]
  <2>1. session[s] \in SessionRecord
    BY DEF EngineInv, TypeOK
  <2>2. r \in SessionRecord
    BY <2>1 DEF SessionRecord, Ats, Pending
  <2>3. session' = [session EXCEPT ![s] = r]
    BY DEF AttachedClosed, EngineInv, TypeOK
  <2>4. session' \in [Sessions -> SessionRecord]
    BY <2>2, <2>3 DEF EngineInv, TypeOK
  <2> QED
    BY <2>4 DEF EngineInv, TypeOK, AttachedClosed, release
<1>2. CreationInv'
  BY EngineAssumption
  DEF EngineInv, TypeOK, CreationInv, Creation, ShutdownInv, AttachedClosed, release,
      SessionRecord, Ats, Pending, None
<1>3. ShutdownInv'
  BY
  DEF EngineInv, TypeOK, CreationInv, Creation, ShutdownInv, AttachedClosed, release,
      SessionRecord, Ats, Pending, None
<1>4. AttachmentInv'
  <2>1. /\ session'[s].kind = session[s].kind /\ session'[s].own = "closed"
        /\ session'[s].at \in {"closed", "unclosed"}
        /\ \A t \in Sessions : t # s => session'[t] = session[t]
    BY DEF EngineInv, TypeOK, AttachedClosed
  <2>2. SUFFICES ASSUME ~twice' PROVE AttachmentInv'
    BY DEF AttachmentInv
  <2>3. ~twice /\ Attaches(s)
    BY <2>2 DEF AttachedClosed, release, Attaches
  <2>4. \A t \in Sessions : t # s => ~Attaches(t)
    BY <2>3 DEF EngineInv, AttachmentInv
  <2>5. \A t \in Sessions : ~Attaches(t)'
    BY <2>1, <2>4 DEF Attaches, Pending
  <2>6. \A t \in Sessions :
          session'[t].at = "live" => session'[t] = session[t]
    BY <2>1
  <2>7. \A t \in Sessions :
          session'[t].at \in {"unclosed", "closed"} => t = s \/ session'[t] = session[t]
    BY <2>1
  <2>8. \A t \in Sessions :
          session'[t].kind = "attach" /\ session'[t].at \in {"unclosed", "closed"}
            => session'[t].own = "closed"
    BY <2>1, <2>3, <2>7 DEF EngineInv, AttachmentInv
  <2>9. disposing' = disposing
    BY DEF AttachedClosed
  <2>10. disposing \in {"attached", "pool", "done"} =>
           \A t \in Sessions : ~(session'[t].kind = "attach" /\ session'[t].at = "live")
    BY <2>3, <2>6 DEF EngineInv, AttachmentInv
  <2> QED
    BY <2>5, <2>8, <2>9, <2>10 DEF AttachmentInv
<1> QED
  BY <1>1, <1>2, <1>3, <1>4 DEF EngineInv

LEMMA CreationFailsKeeps ==
  ASSUME EngineInv, NEW s \in Sessions, CreationFails(s)
  PROVE  EngineInv'
<1>1. TypeOK'
  BY EngineAssumption
  DEF EngineInv, TypeOK, CreationFails, Closes, SessionRecord, Ats, Pending, None
<1>2. CreationInv'
  <2>1. ASSUME NEW t \in Sessions, t # s PROVE Creation(t)'
    <3>1. session'[t] = session[t] /\ Creation(t)
      BY <2>1 DEF EngineInv, TypeOK, CreationInv, CreationFails, Closes
    <3> QED
      BY <3>1 DEF Creation, CreationFails, Closes
  <2>2. Creation(s)'
    <3>1. session[s] \in SessionRecord /\ Creation(s)
      BY DEF EngineInv, TypeOK, CreationInv
    <3>2. /\ session'[s].kind = session[s].kind /\ session'[s].at = "failed"
          /\ session'[s].lost = session[s].lost
          /\ session'[s].own = IF session[s].own = "up" THEN "closed" ELSE session[s].own
          /\ session'[s].context = IF session[s].context = "open" THEN "closed"
                                   ELSE session[s].context
      BY <3>1 DEF EngineInv, TypeOK, CreationFails, Closes, SessionRecord
    <3> QED
      BY <3>1, <3>2 DEF Creation, CreationFails, SessionRecord, None
  <2> QED
    BY <2>1, <2>2 DEF CreationInv
<1>3. ShutdownInv'
  BY
  DEF EngineInv, TypeOK, CreationInv, Creation, ShutdownInv, CreationFails, Closes,
      SessionRecord, Ats, Pending, None
<1>4. AttachmentInv'
  <2>1. /\ session'[s].kind = session[s].kind /\ session'[s].at = "failed"
        /\ \A t \in Sessions : t # s => session'[t] = session[t]
    BY DEF EngineInv, TypeOK, CreationFails, Closes
  <2>2. session[s].kind = "attach" => Attaches(s)
    BY DEF CreationFails, Attaches, Pending
  <2> QED
    BY ZenonT(60), <2>1, <2>2 DEF EngineInv, AttachmentInv, Attaches, CreationFails, Pending
<1> QED
  BY <1>1, <1>2, <1>3, <1>4 DEF EngineInv

LEMMA CloseKeeps ==
  ASSUME EngineInv, NEW s \in Sessions, Close(s)
  PROVE  EngineInv'
<1>1. TypeOK'
  BY EngineAssumption DEF EngineInv, TypeOK, Close, Becomes, SessionRecord, Ats, Pending, None
<1>2. CreationInv'
  BY EngineAssumption
  DEF EngineInv, TypeOK, CreationInv, Creation, ShutdownInv, Close, Becomes, SessionRecord,
      Ats, Pending, None
<1>3. ShutdownInv'
  BY
  DEF EngineInv, TypeOK, CreationInv, Creation, ShutdownInv, Close, Becomes, SessionRecord,
      Ats, Pending, None
<1>4. AttachmentInv'
  BY EngineAssumption
  DEF EngineInv, TypeOK, CreationInv, Creation, ShutdownInv, AttachmentInv, Attaches, Close,
      Becomes, SessionRecord, Ats, Pending, None
<1> QED
  BY <1>1, <1>2, <1>3, <1>4 DEF EngineInv

LEMMA OwnDiesKeeps ==
  ASSUME EngineInv, NEW s \in Sessions, OwnDies(s)
  PROVE  EngineInv'
<1> DEFINE lost == {s}
<1>0. /\ session' \in [Sessions -> SessionRecord]
      /\ \A t \in Sessions :
           /\ session'[t].kind = session[t].kind
           /\ session'[t].context = session[t].context
           /\ t \notin lost => session'[t] = session[t]
           /\ t \in lost =>
                /\ session'[t].lost
                /\ session'[t].own = IF session[t].own = "up" THEN "dead" ELSE session[t].own
                /\ session'[t].at = IF session[t].at = "live" THEN "closing" ELSE session[t].at
  BY LosesEffect DEF EngineInv, OwnDies
<1>a. lost = {s} /\ session[s].own = "up" /\ session[s].at # "cleaning"
  BY DEF OwnDies
<1> HIDE DEF lost
<1>1. TypeOK'
  BY <1>0 DEF EngineInv, TypeOK, OwnDies
<1>2. CreationInv'
  <2>1. ASSUME NEW t \in Sessions PROVE Creation(t)'
    <3>1. session[t] \in SessionRecord /\ Creation(t)
      BY DEF EngineInv, TypeOK, CreationInv
    <3>2. CASE t \in lost
      BY <1>0, <1>a, <3>1, <3>2 DEF OwnDies, Creation, SessionRecord, None
    <3>3. CASE t \notin lost
      BY <1>0, <1>a, <3>1, <3>3 DEF OwnDies, Creation, SessionRecord
    <3> QED
      BY <3>2, <3>3
  <2> QED
    BY <2>1 DEF CreationInv
<1>3. ShutdownInv'
  BY <1>0, <1>a DEF EngineInv, ShutdownInv, OwnDies, Pending
<1>4. AttachmentInv'
  BY <1>0, <1>a DEF EngineInv, AttachmentInv, Attaches, OwnDies, Pending
<1> QED
  BY <1>1, <1>2, <1>3, <1>4 DEF EngineInv

LEMMA PoolLaunchesKeeps ==
  ASSUME EngineInv, NEW ok \in BOOLEAN, PoolLaunches(ok)
  PROVE  EngineInv'
<1>1. TypeOK'
  BY EngineAssumption
  DEF EngineInv, TypeOK, PoolLaunches, Is, OnOrCleaning, SessionRecord, Ats, Pending, None
<1>2. CreationInv'
  BY EngineAssumption
  DEF EngineInv, TypeOK, CreationInv, Creation, ShutdownInv, PoolLaunches, Is, OnOrCleaning,
      SessionRecord, Ats, Pending, None
<1>3. ShutdownInv'
  BY
  DEF EngineInv, TypeOK, CreationInv, Creation, ShutdownInv, PoolLaunches, Is, OnOrCleaning,
      SessionRecord, Ats, Pending, None
<1>4. AttachmentInv'
  BY EngineAssumption
  DEF EngineInv, TypeOK, CreationInv, Creation, ShutdownInv, AttachmentInv, Attaches,
      PoolLaunches, Is, OnOrCleaning, SessionRecord, Ats, Pending, None
<1> QED
  BY <1>1, <1>2, <1>3, <1>4 DEF EngineInv

LEMMA PoolDiesKeeps ==
  ASSUME EngineInv, PoolDies
  PROVE  EngineInv'
<1> DEFINE lost == {t \in Sessions : session[t].kind = "headless" /\
                      session[t].at \in {"context", "setup", "live", "closing", "unclosed"}}
<1>0. /\ session' \in [Sessions -> SessionRecord]
      /\ \A t \in Sessions :
           /\ session'[t].kind = session[t].kind
           /\ session'[t].context = session[t].context
           /\ t \notin lost => session'[t] = session[t]
           /\ t \in lost =>
                /\ session'[t].lost
                /\ session'[t].own = IF session[t].own = "up" THEN "dead" ELSE session[t].own
                /\ session'[t].at = IF session[t].at = "live" THEN "closing" ELSE session[t].at
  BY LosesEffect DEF EngineInv, PoolDies
<1>a. \A t \in Sessions :
        t \in lost <=> /\ session[t].kind = "headless"
                      /\ session[t].at \in {"context", "setup", "live", "closing", "unclosed"}
  OBVIOUS
<1> HIDE DEF lost
<1>1. TypeOK'
  BY <1>0 DEF EngineInv, TypeOK, PoolDies
<1>2. CreationInv'
  <2>1. ASSUME NEW t \in Sessions PROVE Creation(t)'
    <3>1. session[t] \in SessionRecord /\ Creation(t)
      BY DEF EngineInv, TypeOK, CreationInv
    <3>2. CASE t \in lost
      BY <1>0, <1>a, <3>1, <3>2 DEF PoolDies, Creation, SessionRecord, None
    <3>3. CASE t \notin lost
      BY <1>0, <1>a, <3>1, <3>3 DEF PoolDies, Creation, SessionRecord
    <3> QED
      BY <3>2, <3>3
  <2> QED
    BY <2>1 DEF CreationInv
<1>3. ShutdownInv'
  BY <1>0, <1>a DEF EngineInv, ShutdownInv, PoolDies, Pending
<1>4. AttachmentInv'
  BY <1>0, <1>a DEF EngineInv, AttachmentInv, Attaches, PoolDies, Pending
<1> QED
  BY <1>1, <1>2, <1>3, <1>4 DEF EngineInv

LEMMA EngineCloseKeeps ==
  ASSUME EngineInv, EngineClose
  PROVE  EngineInv'
<1>1. TypeOK'
  BY EngineAssumption DEF EngineInv, TypeOK, EngineClose, SessionRecord, Ats, Pending, None
<1>2. CreationInv'
  BY EngineAssumption
  DEF EngineInv, TypeOK, CreationInv, Creation, ShutdownInv, EngineClose, SessionRecord, Ats,
      Pending, None
<1>3. ShutdownInv'
  BY
  DEF EngineInv, TypeOK, CreationInv, Creation, ShutdownInv, EngineClose, SessionRecord, Ats,
      Pending, None
<1>4. AttachmentInv'
  BY EngineAssumption
  DEF EngineInv, TypeOK, CreationInv, Creation, ShutdownInv, AttachmentInv, Attaches,
      EngineClose, SessionRecord, Ats, Pending, None
<1> QED
  BY <1>1, <1>2, <1>3, <1>4 DEF EngineInv

LEMMA PendingSettledKeeps ==
  ASSUME EngineInv, PendingSettled
  PROVE  EngineInv'
<1>1. TypeOK'
  BY EngineAssumption
  DEF EngineInv, TypeOK, PendingSettled, Settled, SessionRecord, Ats, Pending, None
<1>2. CreationInv'
  BY EngineAssumption
  DEF EngineInv, TypeOK, CreationInv, Creation, ShutdownInv, PendingSettled, Settled,
      SessionRecord, Ats, Pending, None
<1>3. ShutdownInv'
  BY
  DEF EngineInv, TypeOK, CreationInv, Creation, ShutdownInv, PendingSettled, Settled,
      SessionRecord, Ats, Pending, None
<1>4. AttachmentInv'
  BY EngineAssumption
  DEF EngineInv, TypeOK, CreationInv, Creation, ShutdownInv, AttachmentInv, Attaches,
      PendingSettled, Settled, SessionRecord, Ats, Pending, None
<1> QED
  BY <1>1, <1>2, <1>3, <1>4 DEF EngineInv

LEMMA AttachmentEndedKeeps ==
  ASSUME EngineInv, AttachmentEnded
  PROVE  EngineInv'
<1>1. TypeOK'
  BY EngineAssumption DEF EngineInv, TypeOK, AttachmentEnded, SessionRecord, Ats, Pending, None
<1>2. CreationInv'
  BY EngineAssumption
  DEF EngineInv, TypeOK, CreationInv, Creation, ShutdownInv, AttachmentEnded, SessionRecord,
      Ats, Pending, None
<1>3. ShutdownInv'
  BY
  DEF EngineInv, TypeOK, CreationInv, Creation, ShutdownInv, AttachmentEnded, SessionRecord,
      Ats, Pending, None
<1>4. AttachmentInv'
  BY EngineAssumption
  DEF EngineInv, TypeOK, CreationInv, Creation, ShutdownInv, AttachmentInv, Attaches,
      AttachmentEnded, SessionRecord, Ats, Pending, None
<1> QED
  BY <1>1, <1>2, <1>3, <1>4 DEF EngineInv

LEMMA PoolClosedKeeps ==
  ASSUME EngineInv, PoolClosed
  PROVE  EngineInv'
<1> DEFINE lost == IF pool = "up" THEN {t \in Sessions : Is(t, "headless", "live")} ELSE {}
<1>0. /\ session' \in [Sessions -> SessionRecord]
      /\ \A t \in Sessions :
           /\ session'[t].kind = session[t].kind
           /\ session'[t].context = session[t].context
           /\ t \notin lost => session'[t] = session[t]
           /\ t \in lost =>
                /\ session'[t].lost
                /\ session'[t].own = IF session[t].own = "up" THEN "dead" ELSE session[t].own
                /\ session'[t].at = IF session[t].at = "live" THEN "closing" ELSE session[t].at
  <2>1. CASE pool = "up"
    BY <2>1, LosesEffect DEF EngineInv, PoolClosed
  <2>2. CASE pool # "up"
    BY <2>2 DEF EngineInv, TypeOK, PoolClosed
  <2> QED
    BY <2>1, <2>2
<1>a. \A t \in Sessions :
        t \in lost <=> pool = "up" /\ session[t].kind = "headless" /\ session[t].at = "live"
  BY DEF Is
<1>b. \A t \in Sessions : session[t].at \notin Pending
  BY DEF EngineInv, ShutdownInv, PoolClosed
<1> HIDE DEF lost
<1>1. TypeOK'
  BY <1>0 DEF EngineInv, TypeOK, PoolClosed, None
<1>2. CreationInv'
  <2>1. ASSUME NEW t \in Sessions PROVE Creation(t)'
    <3>1. session[t] \in SessionRecord /\ Creation(t)
      BY DEF EngineInv, TypeOK, CreationInv
    <3>2. CASE t \in lost
      BY <1>0, <1>a, <1>b, <3>1, <3>2 DEF PoolClosed, Creation, SessionRecord, None, Pending
    <3>3. CASE t \notin lost
      BY <1>0, <1>a, <1>b, <3>1, <3>3 DEF PoolClosed, Creation, SessionRecord, Pending
    <3> QED
      BY <3>2, <3>3
  <2> QED
    BY <2>1 DEF CreationInv
<1>3. ShutdownInv'
  BY <1>0, <1>a DEF EngineInv, ShutdownInv, PoolClosed, Pending
<1>4. AttachmentInv'
  BY <1>0, <1>a DEF EngineInv, AttachmentInv, Attaches, PoolClosed, Pending
<1> QED
  BY <1>1, <1>2, <1>3, <1>4 DEF EngineInv

LEMMA EngineStutters ==
  ASSUME EngineInv, UNCHANGED vars
  PROVE  EngineInv'
BY DEF EngineInv, TypeOK, CreationInv, Creation, ShutdownInv, AttachmentInv, Attaches, vars

LEMMA EngineStep == EngineInv /\ [Next]_vars => EngineInv'
<1> SUFFICES ASSUME EngineInv, [Next]_vars PROVE EngineInv'
  OBVIOUS
<1>1. CASE Creates
  BY <1>1, CreateHeadlessKeeps, CreateHeadedKeeps, CreateAttachedKeeps, CreateRefusedKeeps
     DEF Creates
<1>2. CASE Settles
  BY <1>2, PoolLaunchesKeeps, OwnLaunchesKeeps, NewContextKeeps, SetUpKeeps, DisposedKeeps,
     AttachedClosedKeeps DEF Settles
<1>3. CASE Ends
  BY <1>3, CreationFailsKeeps, CloseKeeps, OwnDiesKeeps DEF Ends
<1>4. CASE PoolDies \/ EngineClose
  BY <1>4, PoolDiesKeeps, EngineCloseKeeps
<1>5. CASE PendingSettled \/ AttachmentEnded \/ PoolClosed
  BY <1>5, PendingSettledKeeps, AttachmentEndedKeeps, PoolClosedKeeps
<1>6. CASE UNCHANGED vars
  BY <1>6, EngineStutters
<1> QED
  BY <1>1, <1>2, <1>3, <1>4, <1>5, <1>6 DEF Next

-----------------------------------------------------------------------------
(* What follows.                                                           *)

\* The invariant says what the run checks.
LEMMA EngineInvMeans ==
  ASSUME EngineInv
  PROVE  NothingEscapesShutdown /\ LiveIsConnected /\ OneAttachmentAtFirst
<1>1. \A s \in Sessions : session[s] \in SessionRecord /\ Creation(s)
  BY DEF EngineInv, TypeOK, CreationInv
<1>2. NothingEscapesShutdown
  <2>1. ASSUME disposing = "done", NEW s \in Sessions, session[s].own = "up"
        PROVE  /\ session[s].kind \in {"headed", "attach"}
               /\ session[s].at \in {"live", "closing"}
    BY <1>1, <2>1 DEF EngineInv, ShutdownInv, Creation, SessionRecord, Ats, Pending, None
  <2>2. ASSUME disposing = "done", NEW s \in Sessions, session[s].own = "up",
               session[s].kind = "attach"
        PROVE  twice
    BY <2>1, <2>2 DEF EngineInv, AttachmentInv, Attaches
  <2> QED
    BY <2>1, <2>2 DEF NothingEscapesShutdown, EngineInv, ShutdownInv
<1>3. LiveIsConnected
  BY <1>1 DEF LiveIsConnected, Creation
<1>4. OneAttachmentAtFirst
  <2>1. ASSUME NEW s \in Sessions, session[s].kind = "attach", session[s].own \in {"launching", "up"}
        PROVE  Attaches(s)
    BY <1>1, <2>1 DEF Creation, Attaches, SessionRecord, Ats, Pending, None
  <2> QED
    BY <2>1 DEF OneAttachmentAtFirst, OneAttachment, EngineInv, AttachmentInv
<1> QED
  BY <1>2, <1>3, <1>4

\* Every reachable state of the engine satisfies the invariant, its types included.
THEOREM EngineInvariant == Spec => []EngineInv
BY EngineInit, EngineStep, PTL DEF Spec

\* One session at a time is attached until a release is repeated, and engine.close leaves
\* no browser behind but the headed ones, whatever the number of sessions.
THEOREM OneStaysAttached == Spec => []OneIsAttached
<1>1. EngineInv => OneIsAttached
  BY EngineInvMeans DEF EngineInv, OneIsAttached
<1> QED
  BY <1>1, EngineInvariant, PTL

\* Sessions and browsers belong together (SessionsHaveTheirBrowser), whatever the number
\* of sessions: a published session has its browser, and nothing but engine.close takes
\* the pool.
THEOREM SessionsKeepTheirBrowser == Spec => SessionsHaveTheirBrowser
<1>1. EngineInv => LiveIsConnected
  BY EngineInvMeans
<1>2. [Next]_vars => [pool = "up" /\ pool' = "closed" => disposing = "pool"]_vars
  <2> SUFFICES ASSUME Next, pool = "up", pool' = "closed" PROVE disposing = "pool"
    BY DEF vars
  <2>1. CASE Creates
    BY <2>1 DEF Creates, CreateHeadless, CreateHeaded, CreateAttached, CreateRefused,
         acquireSharedBrowser, None
  <2>2. CASE Settles
    BY <2>2 DEF Settles, PoolLaunches, OwnLaunches, NewContext, SetUp, Disposed, AttachedClosed
  <2>3. CASE Ends
    BY <2>3 DEF Ends, CreationFails, Closes, Close, OwnDies
  <2>4. CASE PoolDies \/ EngineClose \/ PendingSettled \/ AttachmentEnded \/ PoolClosed
    BY <2>4 DEF PoolDies, EngineClose, PendingSettled, AttachmentEnded, PoolClosed
  <2> QED
    BY <2>1, <2>2, <2>3, <2>4 DEF Next
<1> QED
  BY <1>1, <1>2, EngineInvariant, PTL DEF Spec, SessionsHaveTheirBrowser, SiblingsKeepThePool

-----------------------------------------------------------------------------
(* Reads of a page (PageRead).                                             *)

ReadRecord ==
  [raw : {"none", "pending", "value", "kept", "error"}, race : {"open", "value", "failed"},
   caller : {"idle", "waiting", "returned", "threw"}, lost : BOOLEAN, disposed : {0, 1}]
ReadTypeOK ==
  /\ read \in [Reads -> ReadRecord]
  /\ life \in [ended : BOOLEAN, aborted : BOOLEAN, revoked : BOOLEAN, expired : BOOLEAN]

\* How far the operation's promise and its caller have come: a race that is won by
\* the value was won by a value that is kept, a caller that gave up is marked lost
\* (it was told by the timer or the signal) unless the operation itself failed, and a
\* kept value that nobody will get has been disposed of.
ReadInv ==
  /\ ReadTypeOK
  /\ \A r \in Reads :
       /\ read[r].caller = "idle" => read[r].raw = "none"
       /\ read[r].race = "value" => read[r].raw = "kept"
       /\ read[r].raw \in {"kept", "error"} => read[r].race # "open"
       /\ read[r].disposed = 1 => read[r].raw = "kept"
       /\ read[r].caller = "returned" => read[r].raw = "kept" /\ read[r].disposed = 0
       /\ read[r].caller = "threw" => read[r].raw = "none" \/ read[r].lost
       /\ read[r].caller = "threw" /\ read[r].raw = "kept" => read[r].disposed = 1
       /\ read[r].raw = "kept" /\ read[r].race = "failed" => read[r].disposed = 1
       /\ read[r].caller = "waiting" =>
            /\ read[r].race = "failed" => read[r].lost \/ read[r].raw = "error"
            /\ read[r].race = "value" /\ read[r].disposed = 1 => life.ended \/ life.aborted
            /\ read[r].lost /\ read[r].race # "failed" => life.aborted

-----------------------------------------------------------------------------
\* A step of one read keeps the invariant if it keeps that read's part of it.
LEMMA OneReadMoves ==
  ASSUME ReadInv, NEW r \in Reads, NEW q \in ReadRecord, ReadIs(r, q), UNCHANGED life,
         q.caller # "idle",
         q.race = "value" => q.raw = "kept",
         q.raw \in {"kept", "error"} => q.race # "open",
         q.disposed = 1 => q.raw = "kept",
         q.caller = "returned" => q.raw = "kept" /\ q.disposed = 0,
         q.caller = "threw" => q.raw = "none" \/ q.lost,
         q.caller = "threw" /\ q.raw = "kept" => q.disposed = 1,
         q.raw = "kept" /\ q.race = "failed" => q.disposed = 1,
         q.caller = "waiting" =>
           /\ q.race = "failed" => q.lost \/ q.raw = "error"
           /\ q.race = "value" /\ q.disposed = 1 => life.ended \/ life.aborted
           /\ q.lost /\ q.race # "failed" => life.aborted
  PROVE  ReadInv'
<1>1. read' = [read EXCEPT ![r] = q]
  BY DEF ReadIs
<1>2. ReadTypeOK'
  BY <1>1 DEF ReadInv, ReadTypeOK
<1>3. \A t \in Reads : read'[t] = IF t = r THEN q ELSE read[t]
  BY <1>1 DEF ReadInv, ReadTypeOK
<1> QED BY <1>2, <1>3 DEF ReadInv

LEMMA ReadStepInv ==
  ASSUME ReadInv, NEW r \in Reads,
         StartRead(r) \/ Resolves(r) \/ Rejects(r) \/ Observed(r) \/ Tick(r) \/ Continue(r)
  PROVE  ReadInv'
<1> DEFINE q == read[r]
<1>0. q \in ReadRecord
  BY DEF ReadInv, ReadTypeOK
<1>1. CASE StartRead(r)
  <2> DEFINE n == IF Holds THEN [NotRead EXCEPT !.raw = "pending", !.caller = "waiting"]
                  ELSE [NotRead EXCEPT !.caller = "threw"]
  <2>1. ReadIs(r, n) /\ UNCHANGED life
    BY <1>1 DEF StartRead
  <2>2. n \in ReadRecord /\ n.caller # "idle" /\ n.race = "open" /\ n.raw \notin {"kept", "error"}
        /\ n.disposed = 0 /\ (n.caller = "threw" => n.raw = "none") /\ ~n.lost
        /\ n.caller # "returned"
    BY DEF NotRead, ReadRecord
  <2> HIDE DEF n
  <2> QED BY <2>1, <2>2, OneReadMoves
<1>2. CASE Resolves(r)
  <2> DEFINE n == [read[r] EXCEPT !.raw = "value"]
  <2>1. ReadIs(r, n) /\ UNCHANGED life /\ q.raw = "pending"
    BY <1>2 DEF Resolves
  <2>2. n \in ReadRecord /\ n.raw = "value" /\ n.race = q.race /\ n.caller = q.caller
        /\ n.lost = q.lost /\ n.disposed = q.disposed
    BY <1>0 DEF ReadRecord
  <2>3. q.caller # "idle" /\ q.caller # "returned" /\ q.race # "value" /\ q.disposed # 1
    BY <2>1 DEF ReadInv
  <2> HIDE DEF n
  <2> QED BY <2>1, <2>2, <2>3, OneReadMoves DEF ReadInv
<1>3. CASE Rejects(r)
  <2> DEFINE n == [read[r] EXCEPT !.raw = "error", !.race = IF @ = "open" THEN "failed" ELSE @]
  <2>1. ReadIs(r, n) /\ UNCHANGED life /\ q.raw = "pending"
    BY <1>3 DEF Rejects
  <2>2. n \in ReadRecord /\ n.raw = "error" /\ n.race = (IF q.race = "open" THEN "failed" ELSE q.race)
        /\ n.caller = q.caller /\ n.lost = q.lost /\ n.disposed = q.disposed
    BY <1>0 DEF ReadRecord
  <2>3. q.caller # "idle" /\ q.caller # "returned" /\ q.race # "value" /\ q.disposed # 1
    BY <2>1 DEF ReadInv
  <2> HIDE DEF n
  <2> QED BY <1>0, <2>1, <2>2, <2>3, OneReadMoves DEF ReadInv, ReadRecord
<1>4. CASE Observed(r)
  <2> DEFINE race == IF q.race = "open" THEN "value" ELSE q.race
             n == IF Late(read[r])
                  THEN DisposedValue([read[r] EXCEPT !.raw = "kept", !.race = IF @ = "open" THEN "value" ELSE @])
                  ELSE [read[r] EXCEPT !.raw = "kept", !.race = IF @ = "open" THEN "value" ELSE @]
  <2>1. ReadIs(r, n) /\ UNCHANGED life /\ q.raw = "value"
    BY <1>4 DEF Observed
  <2>2. q.caller # "idle" /\ q.caller # "returned" /\ q.race # "value" /\ q.disposed = 0
    BY <1>0, <2>1 DEF ReadInv, ReadRecord
  <2>3. n \in ReadRecord /\ n.raw = "kept" /\ n.race = race
        /\ n.caller = q.caller /\ n.lost = q.lost /\ n.disposed = IF Late(q) THEN 1 ELSE 0
    BY <1>0, <2>2 DEF ReadRecord, DisposedValue
  <2>4. q.caller = "threw" => q.lost
    BY <2>1 DEF ReadInv
  <2>5. q.race = "failed" => q.lost
    BY <1>0, <2>1, <2>2, <2>4 DEF ReadInv, ReadRecord
  <2>6. race # "open"
    OBVIOUS
  <2>7. q.caller = "waiting" /\ q.lost /\ race # "failed" => life.aborted
    BY <1>0, <2>2 DEF ReadInv, ReadRecord
  <2>8. race = "failed" => q.lost
    BY <2>5
  <2>9. race = "failed" /\ q.caller = "waiting" => q.lost
    BY <2>5
  <2> HIDE DEF n, race
  <2>10. (q.caller = "waiting" /\ race = "value" /\ n.disposed = 1) => life.ended \/ life.aborted
    BY <2>3, <2>7 DEF Late
  <2>11. Late(q) = (q.lost \/ life.ended \/ life.aborted)
    BY DEF Late
  <2> QED BY <2>1, <2>2, <2>3, <2>4, <2>6, <2>7, <2>8, <2>10, <2>11, OneReadMoves
<1>5. CASE Tick(r)
  <2> DEFINE n == [read[r] EXCEPT !.lost = TRUE, !.race = IF @ = "open" THEN "failed" ELSE @]
  <2>1. ReadIs(r, n) /\ UNCHANGED life /\ q.caller = "waiting" /\ q.race = "open" /\ q.raw # "value"
    BY <1>5 DEF Tick, Settling
  <2>2. n \in ReadRecord /\ n.raw = q.raw /\ n.race = "failed"
        /\ n.caller = "waiting" /\ n.lost = TRUE /\ n.disposed = q.disposed
    BY <1>0, <2>1 DEF ReadRecord
  <2>3. q.raw \notin {"kept", "error"} /\ q.disposed # 1
    BY <2>1 DEF ReadInv
  <2> HIDE DEF n
  <2> QED BY <1>0, <2>1, <2>2, <2>3, OneReadMoves
<1>6. CASE Continue(r)
  <2> DEFINE threw == [q EXCEPT !.caller = "threw", !.lost = TRUE]
             n == IF q.race = "failed" THEN threw
                  ELSE IF Holds THEN [q EXCEPT !.caller = "returned"] ELSE DisposedValue(threw)
  <2>1. ReadIs(r, n) /\ UNCHANGED life /\ q.caller = "waiting" /\ q.race # "open"
    BY <1>6 DEF Continue
  <2>2. CASE q.race = "failed"
    <3>1. n \in ReadRecord /\ n.raw = q.raw /\ n.race = q.race
          /\ n.caller = "threw" /\ n.lost = TRUE /\ n.disposed = q.disposed
      BY <1>0, <2>1, <2>2 DEF ReadRecord
    <3> HIDE DEF n
    <3> QED BY <1>0, <2>1, <2>2, <3>1, OneReadMoves DEF ReadInv
  <2>3. CASE q.race # "failed" /\ Holds
    <3>1. n \in ReadRecord /\ n.raw = q.raw /\ n.race = q.race
          /\ n.caller = "returned" /\ n.lost = q.lost /\ n.disposed = q.disposed
      BY <1>0, <2>1, <2>3 DEF ReadRecord
    <3>2. q.race = "value" /\ q.raw = "kept"
      BY <1>0, <2>1, <2>3 DEF ReadInv, ReadRecord
    <3>3. ~life.ended /\ ~life.aborted
      BY <2>3 DEF Holds
    <3>4. q.disposed = 0
      BY <1>0, <2>1, <3>2, <3>3 DEF ReadInv, ReadRecord
    <3> HIDE DEF n
    <3> QED BY <2>1, <3>1, <3>2, <3>4, OneReadMoves
  <2>4. CASE q.race # "failed" /\ ~Holds
    <3>1. n \in ReadRecord /\ n.raw = q.raw /\ n.race = q.race
          /\ n.caller = "threw" /\ n.lost = TRUE /\ n.disposed = 1
      BY <1>0, <2>1, <2>4 DEF ReadRecord, DisposedValue
    <3>2. q.race = "value" /\ q.raw = "kept"
      BY <1>0, <2>1, <2>4 DEF ReadInv, ReadRecord
    <3> HIDE DEF n
    <3> QED BY <2>1, <3>1, <3>2, OneReadMoves
  <2> QED BY <2>2, <2>3, <2>4
<1> QED BY <1>1, <1>2, <1>3, <1>4, <1>5, <1>6

\* A signal aborts every read that waits; the other ends of a lifetime only show
\* when it is asked.
LEMMA LifeStepInv ==
  ASSUME ReadInv, AbortReads \/ RevokeReads \/ Expire \/ FinishOperation
  PROVE  ReadInv'
<1>1. CASE AbortReads
  <2> DEFINE n(r) == IF read[r].caller # "waiting" THEN read[r]
                     ELSE [read[r] EXCEPT !.lost = TRUE, !.race = IF @ = "open" THEN "failed" ELSE @]
  <2>1. read' = [r \in Reads |-> n(r)] /\ life' = [life EXCEPT !.aborted = TRUE]
    BY <1>1 DEF AbortReads
  <2>2. \A r \in Reads :
          /\ n(r) \in ReadRecord /\ n(r).raw = read[r].raw /\ n(r).caller = read[r].caller
          /\ n(r).disposed = read[r].disposed
          /\ read[r].caller # "waiting" => n(r) = read[r]
          /\ read[r].caller = "waiting" =>
               n(r).lost /\ n(r).race = IF read[r].race = "open" THEN "failed" ELSE read[r].race
    BY ZenonT(60) DEF ReadInv, ReadTypeOK, ReadRecord
  <2> HIDE DEF n
  <2>3. \A r \in Reads : read'[r] = n(r)
    BY <2>1
  <2>4. ReadTypeOK' /\ life'.aborted
    BY <2>1, <2>2 DEF ReadInv, ReadTypeOK
  <2>5. ASSUME NEW r \in Reads
        PROVE  /\ read'[r].race = "value" => read[r].race = "value"
               /\ read'[r].race = "open" => read[r].race = "open" /\ read[r].caller # "waiting"
               /\ read'[r].race = "failed" => read[r].race = "failed" \/ read[r].race = "open"
               /\ read'[r].race = "failed" /\ read[r].raw = "kept" => read[r].race = "failed"
    BY <2>2, <2>3 DEF ReadInv, ReadTypeOK, ReadRecord
  <2>6. ASSUME NEW r \in Reads
        PROVE  /\ read'[r].raw = read[r].raw /\ read'[r].caller = read[r].caller
               /\ read'[r].disposed = read[r].disposed
               /\ read[r].caller = "waiting" => read'[r].lost
               /\ read[r].caller # "waiting" => read'[r] = read[r]
    BY <2>2, <2>3
  <2> QED BY <2>4, <2>5, <2>6 DEF ReadInv
<1>2. CASE RevokeReads \/ Expire \/ FinishOperation
  <2>1. read' = read /\ life' \in [ended : BOOLEAN, aborted : BOOLEAN, revoked : BOOLEAN, expired : BOOLEAN]
        /\ (life.ended => life'.ended) /\ (life.aborted => life'.aborted)
    BY <1>2 DEF RevokeReads, Expire, FinishOperation, ReadInv, ReadTypeOK
  <2> QED BY <2>1 DEF ReadInv, ReadTypeOK
<1> QED BY <1>1, <1>2

\* Wherever the reads of an operation and its lifetime stand.
THEOREM ReadInvariant == ReadSpec => []ReadInv
<1>1. ReadInit => ReadInv
  BY DEF ReadInit, ReadInv, ReadTypeOK, ReadRecord, NotRead
<1>2. ReadInv /\ [ReadNext]_readVars => ReadInv'
  <2> SUFFICES ASSUME ReadInv, [ReadNext]_readVars PROVE ReadInv'
    OBVIOUS
  <2>1. CASE UNCHANGED readVars
    BY <2>1 DEF readVars, ReadInv, ReadTypeOK
  <2>2. CASE ReadNext
    BY <2>2, ReadStepInv, LifeStepInv DEF ReadNext
  <2> QED BY <2>1, <2>2
<1> QED BY <1>1, <1>2, PTL DEF ReadSpec

\* A value that comes too late is disposed of once, and none that was handed on is
\* (page-operation-lifetime.ts, read), for any number of reads.
THEOREM LateValueDisposed == ReadSpec => []LateValueDisposedOnce
<1>1. ReadInv => LateValueDisposedOnce
  BY DEF ReadInv, LateValueDisposedOnce
<1> QED BY <1>1, ReadInvariant, PTL

-----------------------------------------------------------------------------
(* Input on a page (PageInput).                                            *)

InputPcs ==
  {"idle", "acting", "done", "preparing", "prepared", "check", "consent", "recheck", "armed",
   "clicking", "choosing", "chosen", "attaching", "seen", "ended", "pinning", "repin", "commit",
   "world", "fetching", "settled"}
PerformingPcs ==
  {"check", "consent", "recheck", "armed", "clicking", "choosing", "chosen", "attaching", "seen"}
ActAnswers == {"dispatched", "uncertain", "refused", "denied", "rejected"}
ActRecord ==
  [kind : {"none", "ordinary", "navigate", "clickAt", "uploadAt", "fetch"}, pc : InputPcs,
   pin : Nat, life : Nat, raw : BOOLEAN, file : {"none", "reading", "held", "zeroed"},
   sent : Nat, answer : ActAnswers \cup {"none"}]
GestureRecord ==
  [preparing : BOOLEAN, plan : Callers \cup {Nobody}, disposed : BOOLEAN, performing : BOOLEAN]
InputTypeOK ==
  /\ act \in [Callers -> ActRecord] /\ gesture \in GestureRecord
  /\ ordinary \subseteq Callers /\ doc \in Nat \ {0} /\ inputClosed \in BOOLEAN

\* Who owns the input, for acts a, gesture g, ordinary input o and a page that is
\* closed or not.  One gesture is prepared at a time and only while there is no plan; a
\* write that is out keeps its plan and shuts ordinary input out, as does a gesture that
\* performs; the plan's bytes are wiped only with the page.
OwnedBy(a, g, o, ended) ==
  /\ g.preparing => g.plan = Nobody
  /\ \A c, d \in Callers : a[c].pc = "preparing" /\ a[d].pc = "preparing" => c = d
  /\ \A c \in Callers :
       /\ a[c].pc = "preparing" => g.preparing
       /\ c \in o => a[c].pc = "acting"
       /\ a[c].raw => g.plan = c /\ o = {}
       /\ g.plan = c => a[c].file # "reading" /\ (a[c].file = "zeroed" => ended)
       /\ a[c].pc \in PerformingPcs => g.plan = c /\ g.performing /\ o = {}
       /\ a[c].file = "held" => a[c].pc = "preparing" \/ g.plan = c

\* Which document an act was prepared on, which one got its input, what it says of it.
Fits(q) ==
  /\ q.sent \in {0, q.pin}
  /\ q.pc \in {"commit", "world", "fetching"} => q.pin = q.life
  /\ q.answer = "refused" => q.sent = 0 /\ q.pc \in {"ended", "done"}
  /\ q.pc = "settled" => q.answer \in {"denied", "uncertain", "dispatched"}
  /\ q.pc \in {"idle", "preparing", "prepared", "pinning", "repin", "commit", "world"} =>
       q.sent = 0 /\ q.answer = "none"

InputInv ==
  /\ InputTypeOK
  /\ OwnedBy(act, gesture, ordinary, inputClosed)
  /\ \A c \in Callers : Fits(act[c])

-----------------------------------------------------------------------------
(* What the moves do to the ownership.                                     *)

\* A release wipes, and gives the plan up unless an act performs or a write is out:
\* who owns the input stays clear, and nothing but bytes changes in an act.
LEMMA ReleaseKeepsOwnership ==
  ASSUME NEW a \in [Callers -> ActRecord], NEW g \in GestureRecord, NEW o,
         NEW ended \in BOOLEAN, NEW shutNow \in BOOLEAN, ended => shutNow, OwnedBy(a, g, o, ended),
         \A c \in Callers : Fits(a[c])
  PROVE  /\ Released(g, a, shutNow).acts \in [Callers -> ActRecord]
         /\ Released(g, a, shutNow).plan \in GestureRecord
         /\ OwnedBy(Released(g, a, shutNow).acts, Released(g, a, shutNow).plan, o, shutNow)
         /\ \A c \in Callers : Fits(Released(g, a, shutNow).acts[c])
<1>1. CASE g.plan = Nobody
  <2>1. Released(g, a, shutNow) = [plan |-> g, acts |-> a]
    BY <1>1 DEF Released
  <2>2. /\ Released(g, a, shutNow).acts = a
        /\ Released(g, a, shutNow).plan = g
    BY <2>1
  <2>. QED BY <2>2, <1>1, InputAssumption DEF OwnedBy
<1>2. CASE g.plan # Nobody
  <2>. DEFINE p == g.plan
              f == IF a[p].file = "held" THEN "zeroed" ELSE a[p].file
              w == [a[p] EXCEPT !.file = f]
              kept == g.performing \/ a[p].raw
              b == IF shutNow \/ ~kept THEN [a EXCEPT ![p] = w] ELSE a
              h == [g EXCEPT !.disposed = TRUE, !.plan = IF kept THEN g.plan ELSE Nobody]
  <2>1. p \in Callers /\ a[p] \in ActRecord /\ ~g.preparing
    BY <1>2 DEF GestureRecord, OwnedBy
  <2>2. [a EXCEPT ![g.plan].file = f] = [a EXCEPT ![p] = w]
    BY <2>1 DEF ActRecord
  <2>3. Released(g, a, shutNow) = [plan |-> h, acts |-> b]
    BY <1>2, <2>1, <2>2 DEF Released
  <2>4. /\ w \in ActRecord /\ w.pc = a[p].pc /\ w.raw = a[p].raw /\ w.file # "held"
        /\ a[p].file # "reading" => w.file # "reading"
        /\ w.sent = a[p].sent /\ w.pin = a[p].pin /\ w.life = a[p].life
        /\ w.answer = a[p].answer
    BY <2>1 DEF ActRecord
  <2>5. /\ h \in GestureRecord /\ ~h.preparing /\ h.performing = g.performing
        /\ h.plan = IF kept THEN p ELSE Nobody
    BY <2>1 DEF GestureRecord
  <2>6. b \in [Callers -> ActRecord]
    BY <2>1, <2>4
  <2>7. \A c \in Callers : /\ b[c].pc = a[c].pc /\ b[c].raw = a[c].raw
                           /\ c # p => b[c] = a[c]
                           /\ b[c].sent = a[c].sent /\ b[c].pin = a[c].pin
                           /\ b[c].life = a[c].life /\ b[c].answer = a[c].answer
    BY <2>1, <2>4
  <2>8. b[p] = IF shutNow \/ ~kept THEN w ELSE a[p]
    BY <2>1
  <2>9. \A c \in Callers : Fits(b[c])
    BY <2>7 DEF Fits
  <2>10. OwnedBy(b, h, o, shutNow)
    <3>. HIDE DEF b, h, w, f
    <3>1. \A c \in Callers : a[c].raw => kept /\ p = c /\ o = {}
      BY DEF OwnedBy
    <3>2. \A c \in Callers : a[c].pc \in PerformingPcs => kept /\ p = c /\ o = {}
      BY DEF OwnedBy
    <3>3. ASSUME NEW c \in Callers, h.plan = c
          PROVE  b[c].file # "reading" /\ (b[c].file = "zeroed" => shutNow)
      <4>1. kept /\ c = p
        BY <3>3, <2>5, InputAssumption
      <4>2. a[c].file # "reading" /\ (a[c].file = "zeroed" => ended)
        BY <4>1, <1>2 DEF OwnedBy
      <4>. QED BY <4>1, <4>2, <2>4, <2>8
    <3>4. ASSUME NEW c \in Callers, b[c].file = "held" PROVE b[c].pc = "preparing" \/ h.plan = c
      <4>1. CASE c = p
        BY <4>1, <3>4, <2>4, <2>5, <2>8
      <4>2. CASE c # p
        <5>1. b[c] = a[c] /\ a[c].file = "held"
          BY <4>2, <3>4, <2>7
        <5>2. a[c].pc = "preparing" \/ g.plan = c
          BY <5>1 DEF OwnedBy
        <5>. QED BY <5>1, <5>2, <4>2
      <4>. QED BY <4>1, <4>2
    <3>5. \A c \in Callers : a[c].pc # "preparing"
      BY <2>1 DEF OwnedBy
    <3>6. \A c \in Callers : c \in o => a[c].pc = "acting"
      BY DEF OwnedBy
    <3>7. \A c \in Callers : b[c].pc = a[c].pc /\ b[c].raw = a[c].raw
      BY <2>7
    <3>8. \A c \in Callers : /\ b[c].raw => h.plan = c /\ o = {}
                             /\ b[c].pc \in PerformingPcs =>
                                   h.plan = c /\ h.performing /\ o = {}
      <4>1. ASSUME NEW c \in Callers, b[c].raw PROVE h.plan = c /\ o = {}
        BY <4>1, <3>1, <3>7, <2>5
      <4>2. ASSUME NEW c \in Callers, b[c].pc \in PerformingPcs
            PROVE  h.plan = c /\ h.performing /\ o = {}
        <5>1. a[c].pc \in PerformingPcs
          BY <4>2, <3>7
        <5>2. g.performing
          BY <5>1 DEF OwnedBy
        <5>. QED BY <5>1, <5>2, <3>2, <2>5
      <4>. QED BY <4>1, <4>2
    <3>. QED BY <3>3, <3>4, <3>5, <3>6, <3>7, <3>8, <2>5 DEF OwnedBy
  <2>. QED BY SMTT(30), <2>3, <2>5, <2>6, <2>9, <2>10
<1>. QED BY <1>1, <1>2

\* One act takes another record that suits the plan there is.
LEMMA OneActMoves ==
  ASSUME InputInv, NEW c \in Callers, NEW q \in ActRecord, Fits(q),
         c \notin ordinary,
         q.pc = "preparing" => act[c].pc = "preparing",
         q.raw => gesture.plan = c /\ ordinary = {},
         gesture.plan = c => q.file # "reading" /\ (q.file = "zeroed" => inputClosed),
         q.pc \in PerformingPcs => gesture.plan = c /\ gesture.performing /\ ordinary = {},
         q.file = "held" => q.pc = "preparing" \/ gesture.plan = c
  PROVE  /\ [act EXCEPT ![c] = q] \in [Callers -> ActRecord]
         /\ OwnedBy([act EXCEPT ![c] = q], gesture, ordinary, inputClosed)
         /\ \A d \in Callers : Fits([act EXCEPT ![c] = q][d])
<1>. DEFINE b == [act EXCEPT ![c] = q]
<1>1. b \in [Callers -> ActRecord] /\ b[c] = q /\ \A d \in Callers \ {c} : b[d] = act[d]
  BY DEF InputInv, InputTypeOK
<1>. HIDE DEF b
<1>2. \A d \in Callers : Fits(b[d])
  BY <1>1 DEF InputInv
<1>3. OwnedBy(b, gesture, ordinary, inputClosed)
  BY <1>1 DEF InputInv, OwnedBy
<1>. QED BY <1>1, <1>2, <1>3 DEF b

\* The same as a step, with the gesture and ordinary input left alone.
LEMMA OneActSteps ==
  ASSUME InputInv, NEW c \in Callers, NEW q \in ActRecord, Fits(q),
         act' = [act EXCEPT ![c] = q],
         UNCHANGED <<gesture, ordinary, doc, inputClosed>>,
         c \notin ordinary,
         q.pc = "preparing" => act[c].pc = "preparing",
         q.raw => gesture.plan = c /\ ordinary = {},
         gesture.plan = c => q.file # "reading" /\ (q.file = "zeroed" => inputClosed),
         q.pc \in PerformingPcs => gesture.plan = c /\ gesture.performing /\ ordinary = {},
         q.file = "held" => q.pc = "preparing" \/ gesture.plan = c
  PROVE  InputInv'
<1>1. /\ [act EXCEPT ![c] = q] \in [Callers -> ActRecord]
      /\ OwnedBy([act EXCEPT ![c] = q], gesture, ordinary, inputClosed)
      /\ \A d \in Callers : Fits([act EXCEPT ![c] = q][d])
  BY OneActMoves
<1>. QED BY <1>1 DEF InputInv, InputTypeOK

\* A step that moves one act on and changes nothing else of it.
LEMMA PcSteps ==
  ASSUME InputInv, NEW c \in Callers, NEW pc \in InputPcs \ {"preparing"}, InputBecomes(c, pc),
         UNCHANGED <<gesture, ordinary, doc, inputClosed>>,
         c \notin ordinary, act[c].file = "held" => act[c].pc # "preparing",
         pc \in PerformingPcs => act[c].pc \in PerformingPcs,
         Fits([act[c] EXCEPT !.pc = pc])
  PROVE  InputInv'
<1>. DEFINE q == [act[c] EXCEPT !.pc = pc]
<1>1. act[c] \in ActRecord
  BY DEF InputInv, InputTypeOK
<1>2. /\ q \in ActRecord /\ q.pc = pc /\ q.raw = act[c].raw /\ q.file = act[c].file
  BY <1>1 DEF ActRecord
<1>3. act' = [act EXCEPT ![c] = q]
  BY <1>1 DEF InputBecomes, InputInv, InputTypeOK, ActRecord
<1>4. Fits(q)
  OBVIOUS
<1>. HIDE DEF q
<1>. QED BY <1>2, <1>3, <1>4, OneActSteps DEF InputInv, OwnedBy

-----------------------------------------------------------------------------
(* Ordinary input.                                                         *)

LEMMA StartKeeps ==
  ASSUME InputInv, NEW c \in Callers, NEW kind \in {"ordinary", "navigate"},
         act[c].pc = "idle", gesture.plan = Nobody,
         act' = [act EXCEPT ![c] = [Idle EXCEPT !.kind = kind, !.pc = "acting"]],
         ordinary' = ordinary \cup {c}, UNCHANGED <<gesture, doc, inputClosed>>
  PROVE  InputInv'
<1>. DEFINE q == [Idle EXCEPT !.kind = kind, !.pc = "acting"]
<1>1. /\ q \in ActRecord /\ q.pc = "acting" /\ ~q.raw /\ q.file = "none" /\ Fits(q)
  BY DEF ActRecord, Idle, InputPcs, Fits
<1>2. act' = [act EXCEPT ![c] = q]
  OBVIOUS
<1>. HIDE DEF q
<1>3. act' \in [Callers -> ActRecord] /\ act'[c] = q /\ \A d \in Callers \ {c} : act'[d] = act[d]
  BY <1>1, <1>2 DEF InputInv, InputTypeOK
<1>4. InputTypeOK'
  BY <1>3 DEF InputInv, InputTypeOK
<1>5. OwnedBy(act', gesture', ordinary', inputClosed')
  BY ZenonT(60), <1>1, <1>3, InputAssumption DEF InputInv, OwnedBy, PerformingPcs
<1>6. \A d \in Callers : Fits(act'[d])
  BY <1>1, <1>3 DEF InputInv
<1>. QED BY <1>4, <1>5, <1>6 DEF InputInv

LEMMA OrdinaryKeeps ==
  ASSUME InputInv, NEW c \in Callers, OrdinaryStep(c) PROVE InputInv'
<1>1. CASE StartOrdinary(c)
  <2>1. gesture.plan = Nobody
    BY <1>1 DEF StartOrdinary, GestureRefuses, GestureBusy
  <2>. QED BY <1>1, <2>1, StartKeeps DEF StartOrdinary
<1>2. CASE StartNavigation(c)
  <2>1. gesture.plan = Nobody
    BY <1>2 DEF StartNavigation, GestureBusy
  <2>. QED BY <1>2, <2>1, StartKeeps DEF StartNavigation
<1>3. CASE EndOrdinary(c)
  <2>. DEFINE q == [act[c] EXCEPT !.pc = "done"]
  <2>1. act[c] \in ActRecord /\ act[c].pc = "acting"
    BY <1>3 DEF InputInv, InputTypeOK, OwnedBy, EndOrdinary
  <2>2. /\ q \in ActRecord /\ q.pc = "done" /\ q.raw = act[c].raw /\ q.file = act[c].file
        /\ q.sent = act[c].sent /\ q.pin = act[c].pin /\ q.answer = act[c].answer
    BY <2>1 DEF ActRecord, InputPcs
  <2>3. act' = [act EXCEPT ![c] = q]
    BY <1>3, <2>1 DEF EndOrdinary, InputBecomes, InputInv, InputTypeOK, ActRecord
  <2>. HIDE DEF q
  <2>4. /\ act' \in [Callers -> ActRecord] /\ act'[c] = q
        /\ \A d \in Callers \ {c} : act'[d] = act[d]
    BY <2>2, <2>3 DEF InputInv, InputTypeOK
  <2>5. InputTypeOK'
    BY <1>3, <2>4 DEF EndOrdinary, InputInv, InputTypeOK
  <2>6. OwnedBy(act', gesture', ordinary', inputClosed')
    BY <1>3, <2>1, <2>2, <2>4 DEF EndOrdinary, InputInv, OwnedBy, PerformingPcs
  <2>7. Fits(q)
    BY <2>1, <2>2 DEF InputInv, Fits
  <2>8. \A d \in Callers : Fits(act'[d])
    BY <2>4, <2>7 DEF InputInv
  <2>. QED BY <2>5, <2>6, <2>8 DEF InputInv
<1>. QED BY <1>1, <1>2, <1>3 DEF OrdinaryStep

-----------------------------------------------------------------------------
(* The gesture.                                                            *)

LEMMA PrepareGestureKeeps ==
  ASSUME InputInv, NEW c \in Callers, NEW kind \in Gestures, PrepareGesture(c, kind)
  PROVE  InputInv'
<1>. DEFINE q == [Idle EXCEPT !.kind = kind, !.pc = "preparing", !.pin = doc, !.life = doc,
                              !.file = IF kind = "uploadAt" THEN "reading" ELSE "none"]
            h == [gesture EXCEPT !.preparing = TRUE]
<1>1. /\ q \in ActRecord /\ q.pc = "preparing" /\ ~q.raw /\ q.file \in {"none", "reading"}
      /\ Fits(q)
  BY DEF ActRecord, Idle, InputPcs, Fits, Gestures, InputInv, InputTypeOK
<1>2. act' = [act EXCEPT ![c] = q] /\ gesture' = h
  BY DEF PrepareGesture, Idle
<1>3. /\ h \in GestureRecord /\ h.preparing /\ h.plan = Nobody
      /\ ~gesture.preparing /\ gesture.plan = Nobody
  BY DEF GestureRecord, InputInv, InputTypeOK, PrepareGesture, GestureBusy
<1>8. ordinary = {} /\ UNCHANGED <<ordinary, doc, inputClosed>>
  BY DEF PrepareGesture, gestureOwned
<1>. HIDE DEF q, h
<1>4. act' \in [Callers -> ActRecord] /\ act'[c] = q /\ \A d \in Callers \ {c} : act'[d] = act[d]
  BY <1>1, <1>2 DEF InputInv, InputTypeOK
<1>5. InputTypeOK'
  BY <1>2, <1>3, <1>4, <1>8 DEF InputInv, InputTypeOK
<1>6. OwnedBy(act', gesture', ordinary', inputClosed')
  BY <1>1, <1>2, <1>3, <1>4, <1>8, InputAssumption DEF InputInv, OwnedBy, PerformingPcs
<1>7. \A d \in Callers : Fits(act'[d])
  BY <1>1, <1>4 DEF InputInv
<1>. QED BY <1>5, <1>6, <1>7 DEF InputInv

LEMMA FileReadKeeps ==
  ASSUME InputInv, NEW c \in Callers, FileRead(c) PROVE InputInv'
<1>. DEFINE f == IF act[c].pc = "preparing" /\ Running(c) THEN "held" ELSE "zeroed"
            q == [act[c] EXCEPT !.file = f]
<1>1. act[c] \in ActRecord /\ act[c].file = "reading" /\ gesture.plan # c /\ Fits(act[c])
  BY DEF FileRead, InputInv, InputTypeOK, OwnedBy
<1>2. /\ q \in ActRecord /\ q.pc = act[c].pc /\ q.raw = act[c].raw /\ q.file = f
      /\ q.sent = act[c].sent /\ q.pin = act[c].pin /\ q.life = act[c].life
      /\ q.answer = act[c].answer
  BY <1>1 DEF ActRecord
<1>3. act' = [act EXCEPT ![c] = q]
  BY <1>1 DEF FileRead, InputInv, InputTypeOK, ActRecord
<1>4. Fits(q)
  BY <1>1, <1>2 DEF Fits
<1>5. /\ ~act[c].raw /\ act[c].pc \notin PerformingPcs
      /\ act[c].pc = "acting" \/ c \notin ordinary
  BY <1>1 DEF InputInv, OwnedBy
<1>6. CASE c \notin ordinary
  <2>1. f = "held" => act[c].pc = "preparing"
    OBVIOUS
  <2>. HIDE DEF q, f
  <2>. QED BY <2>1, <1>1, <1>2, <1>3, <1>4, <1>5, <1>6, OneActSteps DEF FileRead
<1>7. CASE c \in ordinary
  <2>1. act[c].pc = "acting"
    BY <1>7 DEF InputInv, OwnedBy
  <2>2. f = "zeroed"
    BY <2>1
  <2>. HIDE DEF q, f
  <2>3. act' \in [Callers -> ActRecord] /\ act'[c] = q /\ \A d \in Callers \ {c} : act'[d] = act[d]
    BY <1>2, <1>3 DEF InputInv, InputTypeOK
  <2>4. OwnedBy(act', gesture, ordinary, inputClosed)
    BY <2>1, <2>2, <2>3, <1>1, <1>2, <1>5 DEF InputInv, OwnedBy, PerformingPcs
  <2>5. \A d \in Callers : Fits(act'[d])
    BY <1>4, <2>3 DEF InputInv
  <2>. QED BY <2>3, <2>4, <2>5 DEF InputInv, InputTypeOK, FileRead
<1>. QED BY <1>6, <1>7

LEMMA GesturePreparedKeeps ==
  ASSUME InputInv, NEW c \in Callers, GesturePrepared(c) PROVE InputInv'
<1>. DEFINE q == [act[c] EXCEPT !.pc = "prepared"]
            h == [preparing |-> FALSE, plan |-> c, disposed |-> FALSE, performing |-> FALSE]
<1>1. /\ act[c] \in ActRecord /\ act[c].pc = "preparing" /\ act[c].file \in {"none", "held"}
      /\ Fits(act[c]) /\ gesture.plan = Nobody /\ ~act[c].raw
      /\ UNCHANGED <<ordinary, doc, inputClosed>> /\ gesture' = h
  BY InputAssumption
     DEF GesturePrepared, gestureOwned, InputInv, InputTypeOK, OwnedBy
<1>2. /\ q \in ActRecord /\ q.pc = "prepared" /\ q.raw = act[c].raw /\ q.file = act[c].file
      /\ q.sent = act[c].sent /\ q.pin = act[c].pin /\ q.answer = act[c].answer
  BY <1>1 DEF ActRecord, InputPcs
<1>3. act' = [act EXCEPT ![c] = q]
  BY <1>1 DEF GesturePrepared, InputBecomes, InputInv, InputTypeOK, ActRecord
<1>4. Fits(q)
  BY <1>1, <1>2 DEF Fits
<1>5. h \in GestureRecord /\ ~h.preparing /\ h.plan = c
  BY DEF GestureRecord
<1>. HIDE DEF q, h
<1>6. act' \in [Callers -> ActRecord] /\ act'[c] = q /\ \A d \in Callers \ {c} : act'[d] = act[d]
  BY <1>2, <1>3 DEF InputInv, InputTypeOK
<1>7. \A d \in Callers \ {c} : /\ ~act[d].raw /\ act[d].pc \notin PerformingPcs
                               /\ act[d].pc # "preparing" /\ act[d].file # "held"
  BY <1>1, InputAssumption DEF InputInv, OwnedBy
<1>8. OwnedBy(act', gesture', ordinary', inputClosed')
  BY <1>1, <1>2, <1>5, <1>6, <1>7 DEF InputInv, OwnedBy, PerformingPcs
<1>9. \A d \in Callers : Fits(act'[d])
  BY <1>4, <1>6 DEF InputInv
<1>. QED BY <1>1, <1>5, <1>6, <1>8, <1>9 DEF InputInv, InputTypeOK

LEMMA PreparationFailsKeeps ==
  ASSUME InputInv, NEW c \in Callers, PreparationFails(c) PROVE InputInv'
<1>. DEFINE f == IF act[c].file = "held" THEN "zeroed" ELSE act[c].file
            q == [act[c] EXCEPT !.pc = "done", !.file = f]
            h == [gesture EXCEPT !.preparing = FALSE]
<1>1. /\ act[c] \in ActRecord /\ act[c].pc = "preparing"
      /\ Fits(act[c]) /\ gesture.plan = Nobody /\ ~act[c].raw
      /\ UNCHANGED <<ordinary, doc, inputClosed>> /\ gesture' = h
  BY InputAssumption
     DEF PreparationFails, gestureOwned, InputInv, InputTypeOK, OwnedBy
<1>2. /\ q \in ActRecord /\ q.pc = "done" /\ q.raw = act[c].raw /\ q.file # "held"
      /\ q.sent = act[c].sent /\ q.pin = act[c].pin /\ q.answer = act[c].answer
  BY <1>1 DEF ActRecord, InputPcs
<1>3. act' = [act EXCEPT ![c] = q]
  BY <1>1 DEF PreparationFails, InputInv, InputTypeOK, ActRecord
<1>4. Fits(q)
  BY <1>1, <1>2 DEF Fits
<1>5. h \in GestureRecord /\ ~h.preparing /\ h.plan = Nobody
  BY <1>1 DEF GestureRecord, InputInv, InputTypeOK
<1>. HIDE DEF q, h, f
<1>6. act' \in [Callers -> ActRecord] /\ act'[c] = q /\ \A d \in Callers \ {c} : act'[d] = act[d]
  BY <1>2, <1>3 DEF InputInv, InputTypeOK
<1>7. \A d \in Callers \ {c} : /\ ~act[d].raw /\ act[d].pc \notin PerformingPcs
                               /\ act[d].pc # "preparing" /\ act[d].file # "held"
  BY <1>1, InputAssumption DEF InputInv, OwnedBy
<1>8. OwnedBy(act', gesture', ordinary', inputClosed')
  BY <1>1, <1>2, <1>5, <1>6, <1>7, InputAssumption DEF InputInv, OwnedBy, PerformingPcs
<1>9. \A d \in Callers : Fits(act'[d])
  BY <1>4, <1>6 DEF InputInv
<1>. QED BY <1>1, <1>5, <1>6, <1>8, <1>9 DEF InputInv, InputTypeOK

\* The release a step ends with, after its own move from acts to a and of the gesture to g.
LEMMA ReleaseSteps ==
  ASSUME InputInv, NEW a \in [Callers -> ActRecord], NEW g \in GestureRecord,
         OwnedBy(a, g, ordinary, inputClosed), \A d \in Callers : Fits(a[d]),
         Release(g, a), UNCHANGED <<ordinary, doc, inputClosed>>
  PROVE  InputInv'
<1>1. inputClosed \in BOOLEAN
  BY DEF InputInv, InputTypeOK
<1>. DEFINE r == Released(g, a, inputClosed)
<1>2. /\ r.acts \in [Callers -> ActRecord] /\ r.plan \in GestureRecord
      /\ OwnedBy(r.acts, r.plan, ordinary, inputClosed)
      /\ \A c \in Callers : Fits(r.acts[c])
  BY <1>1, ReleaseKeepsOwnership
<1>3. act' = r.acts /\ gesture' = r.plan
  BY DEF Release
<1>. HIDE DEF r
<1>. QED BY <1>2, <1>3 DEF InputInv, InputTypeOK

LEMMA DisposeGestureKeeps ==
  ASSUME InputInv, NEW c \in Callers, DisposeGesture(c) PROVE InputInv'
<1>. DEFINE q == [act[c] EXCEPT !.pc = "done"]
            a == [act EXCEPT ![c] = q]
<1>1. /\ act[c] \in ActRecord /\ act[c].pc \in {"prepared", "ended"} /\ Fits(act[c])
      /\ c \notin ordinary /\ UNCHANGED <<ordinary, doc, inputClosed>>
  BY DEF DisposeGesture, gestureOwned, InputInv, InputTypeOK, OwnedBy
<1>2. /\ q \in ActRecord /\ q.pc = "done" /\ q.raw = act[c].raw /\ q.file = act[c].file
      /\ q.sent = act[c].sent /\ q.pin = act[c].pin /\ q.answer = act[c].answer
  BY <1>1 DEF ActRecord, InputPcs
<1>3. [act EXCEPT ![c].pc = "done"] = a
  BY <1>1 DEF InputInv, InputTypeOK, ActRecord
<1>4. Fits(q)
  BY <1>1, <1>2 DEF Fits
<1>5. \/ gesture.plan = c /\ Release(gesture, a)
      \/ act' = a /\ UNCHANGED gesture
  BY <1>3 DEF DisposeGesture
<1>6. /\ q.pc # "preparing" /\ q.pc \notin PerformingPcs
      /\ q.raw => gesture.plan = c /\ ordinary = {}
      /\ gesture.plan = c => q.file # "reading" /\ (q.file = "zeroed" => inputClosed)
      /\ q.file = "held" => q.pc = "preparing" \/ gesture.plan = c
  BY <1>1, <1>2 DEF InputInv, OwnedBy, PerformingPcs
<1>. HIDE DEF q
<1>7. /\ a \in [Callers -> ActRecord] /\ OwnedBy(a, gesture, ordinary, inputClosed)
      /\ \A d \in Callers : Fits(a[d])
  BY <1>1, <1>2, <1>4, <1>6, OneActMoves
<1>. HIDE DEF a
<1>8. CASE Release(gesture, a)
  BY <1>1, <1>7, <1>8, ReleaseSteps DEF InputInv, InputTypeOK
<1>9. CASE act' = a /\ UNCHANGED gesture
  BY <1>1, <1>7, <1>9 DEF InputInv, InputTypeOK
<1>. QED BY <1>5, <1>8, <1>9

LEMMA PerformGestureKeeps ==
  ASSUME InputInv, NEW c \in Callers, PerformGesture(c) PROVE InputInv'
<1>1. /\ act[c] \in ActRecord /\ act[c].pc = "prepared" /\ Fits(act[c])
      /\ c \notin ordinary /\ UNCHANGED <<ordinary, doc, inputClosed>>
  BY DEF PerformGesture, gestureOwned, InputInv, InputTypeOK, OwnedBy
<1>2. CASE InputBecomes(c, "ended") /\ UNCHANGED gesture
  <2>. DEFINE q == [act[c] EXCEPT !.pc = "ended"]
  <2>1. Fits(q)
    BY <1>1 DEF Fits, ActRecord
  <2>. QED BY <1>1, <1>2, <2>1, PcSteps DEF InputPcs, PerformingPcs
<1>3. CASE /\ ordinary = {} /\ gesture.plan = c
           /\ act' = [act EXCEPT ![c].pc = "check", ![c].life = doc]
           /\ gesture' = [gesture EXCEPT !.performing = TRUE]
  <2>. DEFINE q == [act[c] EXCEPT !.pc = "check", !.life = doc]
              h == [gesture EXCEPT !.performing = TRUE]
  <2>1. /\ q \in ActRecord /\ q.pc = "check" /\ q.raw = act[c].raw /\ q.file = act[c].file
        /\ q.sent = act[c].sent /\ q.pin = act[c].pin /\ q.answer = act[c].answer
    BY <1>1 DEF ActRecord, InputPcs, InputInv, InputTypeOK
  <2>2. act' = [act EXCEPT ![c] = q]
    BY <1>1, <1>3 DEF InputInv, InputTypeOK, ActRecord
  <2>3. Fits(q)
    BY <1>1, <2>1 DEF Fits
  <2>4. h \in GestureRecord /\ h.plan = c /\ h.performing /\ h.preparing = gesture.preparing
    BY <1>3 DEF GestureRecord, InputInv, InputTypeOK
  <2>5. gesture' = h
    BY <1>3
  <2>. HIDE DEF q, h
  <2>6. /\ act' \in [Callers -> ActRecord] /\ act'[c] = q
        /\ \A d \in Callers \ {c} : act'[d] = act[d]
    BY <2>1, <2>2 DEF InputInv, InputTypeOK
  <2>7. OwnedBy(act', gesture', ordinary', inputClosed')
    BY <1>1, <1>3, <2>1, <2>4, <2>5, <2>6 DEF InputInv, OwnedBy, PerformingPcs
  <2>8. \A d \in Callers : Fits(act'[d])
    BY <2>3, <2>6 DEF InputInv
  <2>. QED BY <1>1, <2>4, <2>5, <2>6, <2>7, <2>8 DEF InputInv, InputTypeOK
<1>. QED BY <1>2, <1>3 DEF PerformGesture

\* The reads of a performing gesture: only its place moves on.
LEMMA ReadsKeep ==
  ASSUME InputInv, NEW c \in Callers,
         Recheck(c) \/ ApprovalCommitted(c) \/ ChooserOpens(c)
  PROVE  InputInv'
<1>1. PICK pc \in {"consent", "armed", "recheck", "chosen"} : InputBecomes(c, pc)
  BY DEF Recheck, ApprovalCommitted, ChooserOpens
<1>2. /\ act[c] \in ActRecord /\ act[c].pc \in {"check", "recheck", "consent", "choosing"}
      /\ UNCHANGED <<gesture, ordinary, doc, inputClosed>>
  BY DEF Recheck, ApprovalCommitted, ChooserOpens, InputInv, InputTypeOK
<1>3. act[c].pc \in PerformingPcs /\ c \notin ordinary /\ Fits(act[c])
  BY <1>2 DEF InputInv, OwnedBy, PerformingPcs
<1>. DEFINE q == [act[c] EXCEPT !.pc = pc]
<1>4. /\ q.pc = pc /\ q.sent = act[c].sent /\ q.pin = act[c].pin /\ q.answer = act[c].answer
  BY <1>2 DEF ActRecord
<1>5. Fits(q)
  BY <1>2, <1>3, <1>4 DEF Fits
<1>. QED BY <1>1, <1>2, <1>3, <1>5, PcSteps DEF InputPcs

LEMMA SubmitKeeps ==
  ASSUME InputInv, NEW c \in Callers, Submit(c) PROVE InputInv'
<1>. DEFINE to == IF act[c].pc = "armed" THEN "clicking" ELSE "attaching"
            q == [act[c] EXCEPT !.pc = to, !.raw = TRUE, !.sent = doc]
<1>1. /\ act[c] \in ActRecord /\ act[c].pc \in PerformingPcs /\ Fits(act[c])
      /\ act[c].pc \in {"armed", "chosen"} /\ act[c].pin = doc
      /\ UNCHANGED <<gesture, ordinary, doc, inputClosed>>
  BY DEF Submit, PlanLive, InputInv, InputTypeOK, PerformingPcs
<1>2. /\ q \in ActRecord /\ q.pc = to /\ q.raw /\ q.file = act[c].file
      /\ q.sent = doc /\ q.pin = doc /\ q.answer = act[c].answer
  BY <1>1 DEF ActRecord, InputPcs, InputInv, InputTypeOK
<1>3. act' = [act EXCEPT ![c] = q]
  BY <1>1 DEF Submit, InputInv, InputTypeOK, ActRecord
<1>4. Fits(q)
  BY <1>1, <1>2 DEF Fits
<1>5. /\ gesture.plan = c /\ ordinary = {} /\ gesture.performing
      /\ q.file # "reading" /\ (q.file = "zeroed" => inputClosed)
  BY <1>1, <1>2 DEF InputInv, OwnedBy
<1>6. q.pc # "preparing"
  BY <1>2
<1>. HIDE DEF q, to
<1>. QED BY <1>1, <1>2, <1>3, <1>4, <1>5, <1>6, OneActSteps

LEMMA WriteSettlesKeeps ==
  ASSUME InputInv, NEW c \in Callers, WriteSettles(c) PROVE InputInv'
<1>. DEFINE on == act[c].pc \in {"clicking", "attaching"}
            past == IF act[c].pc = "clicking" /\ act[c].kind = "uploadAt"
                    THEN "choosing" ELSE "seen"
            to == IF on THEN (IF Running(c) THEN past ELSE act[c].pc) ELSE act[c].pc
            q == [act[c] EXCEPT !.raw = FALSE, !.pc = to]
            a == [act EXCEPT ![c] = q]
<1>1. /\ act[c] \in ActRecord /\ act[c].raw /\ Fits(act[c]) /\ gesture.plan = c /\ ordinary = {}
      /\ UNCHANGED <<ordinary, doc, inputClosed>>
  BY DEF WriteSettles, gestureOwned, InputInv, InputTypeOK, OwnedBy
<1>2. to \in InputPcs /\ (to = act[c].pc \/ (on /\ to \in {"choosing", "seen"}))
  BY <1>1 DEF ActRecord, InputPcs
<1>3. [act EXCEPT ![c].raw = FALSE,
                  ![c].pc = IF on THEN (IF Running(c) THEN past ELSE @) ELSE @] = a
  BY <1>1 DEF InputInv, InputTypeOK, ActRecord
<1>4. \/ Release(gesture, a)
      \/ act' = a /\ UNCHANGED gesture
  BY <1>3 DEF WriteSettles
<1>5. on => act[c].pc \in PerformingPcs
  BY DEF PerformingPcs
<1>6. to \in PerformingPcs => act[c].pc \in PerformingPcs
  BY <1>2, <1>5
<1>7. to = "preparing" => act[c].pc = "preparing"
  BY <1>2
<1>. HIDE DEF to
<1>8. /\ q \in ActRecord /\ q.pc = to /\ ~q.raw /\ q.file = act[c].file
      /\ q.sent = act[c].sent /\ q.pin = act[c].pin /\ q.answer = act[c].answer
      /\ q.life = act[c].life
  BY <1>1, <1>2 DEF ActRecord
<1>9. Fits(q)
  BY <1>1, <1>2, <1>8 DEF Fits
<1>10. /\ q.pc \in PerformingPcs => gesture.performing
       /\ gesture.plan = c => q.file # "reading" /\ (q.file = "zeroed" => inputClosed)
  BY <1>1, <1>6, <1>8 DEF InputInv, OwnedBy
<1>. HIDE DEF q
<1>11. /\ a \in [Callers -> ActRecord] /\ OwnedBy(a, gesture, ordinary, inputClosed)
       /\ \A d \in Callers : Fits(a[d])
  BY <1>1, <1>7, <1>8, <1>9, <1>10, OneActMoves
<1>. HIDE DEF a
<1>12. CASE Release(gesture, a)
  BY <1>1, <1>11, <1>12, ReleaseSteps DEF InputInv, InputTypeOK
<1>13. CASE act' = a /\ UNCHANGED gesture
  BY <1>1, <1>11, <1>13 DEF InputInv, InputTypeOK
<1>. QED BY <1>4, <1>12, <1>13

LEMMA EndGestureKeeps ==
  ASSUME InputInv, NEW c \in Callers, NEW answer \in {"dispatched", "uncertain", "refused"},
         Performing(c), EndGesture(c, answer), answer = "refused" => act[c].sent = 0
  PROVE  InputInv'
<1>. DEFINE q == [act[c] EXCEPT !.pc = "ended", !.answer = answer]
            a == [act EXCEPT ![c] = q]
            h == [gesture EXCEPT !.performing = FALSE]
<1>1. /\ act[c] \in ActRecord /\ act[c].pc \in PerformingPcs /\ Fits(act[c])
      /\ UNCHANGED <<ordinary, doc, inputClosed>>
  BY DEF EndGesture, gestureOwned, Performing, PerformingPcs, InputInv, InputTypeOK
<1>2. gesture.plan = c /\ ordinary = {} /\ gesture \in GestureRecord
  BY <1>1 DEF InputInv, InputTypeOK, OwnedBy
<1>3. /\ q \in ActRecord /\ q.pc = "ended" /\ q.raw = act[c].raw /\ q.file = act[c].file
      /\ q.sent = act[c].sent /\ q.pin = act[c].pin /\ q.answer = answer
  BY ZenonT(60), <1>1 DEF ActRecord, InputPcs, ActAnswers
<1>4. [act EXCEPT ![c].pc = "ended", ![c].answer = answer] = a
  BY <1>1 DEF InputInv, InputTypeOK, ActRecord
<1>5. Fits(q)
  BY <1>1, <1>3 DEF Fits
<1>6. /\ h \in GestureRecord /\ h.plan = c /\ h.preparing = gesture.preparing
  BY <1>2 DEF GestureRecord
<1>7. Release(h, a)
  BY <1>4 DEF EndGesture
<1>. HIDE DEF q, h
<1>8. a \in [Callers -> ActRecord] /\ a[c] = q /\ \A d \in Callers \ {c} : a[d] = act[d]
  BY <1>3 DEF InputInv, InputTypeOK
<1>. HIDE DEF a
<1>9. \A d \in Callers \ {c} : act[d].pc \notin PerformingPcs /\ ~act[d].raw
  BY <1>2 DEF InputInv, OwnedBy
<1>10. OwnedBy(a, h, ordinary, inputClosed)
  BY <1>1, <1>2, <1>3, <1>6, <1>8, <1>9 DEF InputInv, OwnedBy, PerformingPcs
<1>11. \A d \in Callers : Fits(a[d])
  BY <1>5, <1>8 DEF InputInv
<1>. QED BY <1>1, <1>6, <1>7, <1>8, <1>10, <1>11, ReleaseSteps

LEMMA GestureKeeps ==
  ASSUME InputInv, NEW c \in Callers, GestureStep(c) PROVE InputInv'
<1>1. ASSUME GestureSucceeds(c) PROVE InputInv'
  BY <1>1, EndGestureKeeps DEF GestureSucceeds, Performing
<1>2. ASSUME GestureFails(c) PROVE InputInv'
  <2>1. CASE act[c].sent # 0
    BY <1>2, <2>1, EndGestureKeeps DEF GestureFails
  <2>2. CASE act[c].sent = 0
    BY <1>2, <2>2, EndGestureKeeps DEF GestureFails
  <2>. QED BY <2>1, <2>2
<1>. QED BY <1>1, <1>2, PrepareGestureKeeps, FileReadKeeps, GesturePreparedKeeps,
            PreparationFailsKeeps, DisposeGestureKeeps, PerformGestureKeeps, ReadsKeep,
            SubmitKeeps, WriteSettlesKeeps DEF GestureStep

-----------------------------------------------------------------------------
(* The probe, the timer of a plan and the document.                        *)

LEMMA PrepareProbeKeeps ==
  ASSUME InputInv, NEW c \in Callers, PrepareProbe(c) PROVE InputInv'
<1>. DEFINE q == [Idle EXCEPT !.kind = "fetch", !.pc = "pinning", !.pin = doc, !.life = doc]
<1>1. /\ q \in ActRecord /\ q.pc = "pinning" /\ ~q.raw /\ q.file = "none" /\ Fits(q)
  BY DEF ActRecord, Idle, InputPcs, Fits, InputInv, InputTypeOK
<1>2. act' = [act EXCEPT ![c] = q] /\ UNCHANGED <<gesture, ordinary, doc, inputClosed>>
  BY DEF PrepareProbe
<1>3. c \notin ordinary
  BY DEF PrepareProbe
<1>4. q.pc \notin PerformingPcs
  BY <1>1 DEF PerformingPcs
<1>. HIDE DEF q
<1>. QED BY <1>1, <1>2, <1>3, <1>4, OneActSteps

\* The probe's own moves change the place of its act, its lifetime and what it says.
LEMMA ProbeMoves ==
  ASSUME InputInv, NEW c \in Callers, NEW q \in ActRecord, Fits(q),
         act' = [act EXCEPT ![c] = q], UNCHANGED <<gesture, ordinary, doc, inputClosed>>,
         act[c].pc \in {"pinning", "prepared", "ended", "repin", "commit", "world", "fetching",
                        "settled"},
         q.pc \notin PerformingPcs \cup {"preparing"},
         q.raw = act[c].raw, q.file = act[c].file
  PROVE  InputInv'
<1>1. /\ c \notin ordinary
      /\ q.raw => gesture.plan = c /\ ordinary = {}
      /\ gesture.plan = c => q.file # "reading" /\ (q.file = "zeroed" => inputClosed)
      /\ q.file = "held" => gesture.plan = c
  BY DEF InputInv, OwnedBy
<1>. QED BY <1>1, OneActSteps

LEMMA ProbeKeeps ==
  ASSUME InputInv, NEW c \in Callers, ProbeStep(c) PROVE InputInv'
<1>1. CASE PrepareProbe(c)
  BY <1>1, PrepareProbeKeeps
<1>2. CASE ProbeTimer(c)
  BY <1>2 DEF ProbeTimer, InputInv, InputTypeOK
<1>3. CASE \/ ProbePrepared(c) \/ ProbePreparationFails(c) \/ DisposeProbe(c)
           \/ PerformProbe(c) \/ RegisterProbe(c) \/ CommitProbe(c) \/ IssueFetch(c)
           \/ ProbeLost(c)
           \/ \E outcome \in {"denied", "failed", "admitted"} : ClaimSettles(c, outcome)
           \/ \E refused \in BOOLEAN : ProbeEnds(c, refused)
  <2>1. /\ act[c] \in ActRecord /\ Fits(act[c]) /\ doc \in Nat
        /\ act \in [Callers -> ActRecord]
    BY DEF InputInv, InputTypeOK
  <2>2. UNCHANGED <<gesture, ordinary, doc, inputClosed>>
    BY <1>3 DEF ProbePrepared, ProbePreparationFails, DisposeProbe, PerformProbe, RegisterProbe,
                CommitProbe, IssueFetch, ProbeLost, ClaimSettles, ProbeEnds, probeOwned
  <2>3. CASE \E pc \in {"prepared", "done", "ended"} :
               /\ act[c].pc \in {"pinning", "prepared", "ended"}
               /\ pc = "prepared" => act[c].pc = "pinning"
               /\ InputBecomes(c, pc)
    <3>1. PICK pc \in {"prepared", "done", "ended"} :
                 /\ act[c].pc \in {"pinning", "prepared", "ended"}
                 /\ pc = "prepared" => act[c].pc = "pinning"
                 /\ InputBecomes(c, pc)
      BY <2>3
    <3>. DEFINE q == [act[c] EXCEPT !.pc = pc]
    <3>2. /\ q \in ActRecord /\ q.pc = pc /\ q.raw = act[c].raw /\ q.file = act[c].file
          /\ q.sent = act[c].sent /\ q.pin = act[c].pin /\ q.answer = act[c].answer
      BY <2>1 DEF ActRecord, InputPcs
    <3>3. act' = [act EXCEPT ![c] = q]
      BY <2>1, <3>1 DEF InputBecomes, ActRecord
    <3>4. Fits(q)
      BY <2>1, <3>1, <3>2 DEF Fits
    <3>5. q.pc \notin PerformingPcs \cup {"preparing"}
      BY <3>2 DEF PerformingPcs
    <3>. HIDE DEF q
    <3>. QED BY <2>2, <3>1, <3>2, <3>3, <3>4, <3>5, ProbeMoves
  <2>4. CASE \E q \in ActRecord :
               /\ act[c].pc \in {"prepared", "repin", "commit", "world", "fetching", "settled"}
               /\ q.pc \in {"repin", "commit", "world", "fetching", "settled", "ended"} /\ Fits(q)
               /\ act' = [act EXCEPT ![c] = q]
               /\ q.raw = act[c].raw /\ q.file = act[c].file
    <3>1. PICK q \in ActRecord :
               /\ act[c].pc \in {"prepared", "repin", "commit", "world", "fetching", "settled"}
               /\ q.pc \in {"repin", "commit", "world", "fetching", "settled", "ended"} /\ Fits(q)
               /\ act' = [act EXCEPT ![c] = q]
               /\ q.raw = act[c].raw /\ q.file = act[c].file
      BY <2>4
    <3>2. q.pc \notin PerformingPcs \cup {"preparing"}
      BY <3>1 DEF PerformingPcs
    <3>. QED BY <2>2, <3>1, <3>2, ProbeMoves
  <2>5. CASE ProbePrepared(c)
    BY <2>3, <2>5 DEF ProbePrepared
  <2>6. CASE ProbePreparationFails(c)
    BY <2>3, <2>6 DEF ProbePreparationFails
  <2>7. CASE DisposeProbe(c)
    BY <2>3, <2>7 DEF DisposeProbe
  <2>8. CASE PerformProbe(c)
    <3>1. CASE InputBecomes(c, "ended")
      BY <2>3, <2>8, <3>1 DEF PerformProbe
    <3>2. CASE act' = [act EXCEPT ![c].pc = "repin", ![c].life = doc]
      <4>. DEFINE q == [act[c] EXCEPT !.pc = "repin", !.life = doc]
      <4>1. /\ q \in ActRecord /\ q.pc = "repin" /\ q.raw = act[c].raw /\ q.file = act[c].file
            /\ q.sent = act[c].sent /\ q.pin = act[c].pin /\ q.answer = act[c].answer
        BY <2>1 DEF ActRecord, InputPcs
      <4>2. act' = [act EXCEPT ![c] = q]
        BY <2>1, <3>2 DEF ActRecord
      <4>3. act[c].pc = "prepared"
        BY <2>8 DEF PerformProbe
      <4>4. Fits(q)
        BY <2>1, <4>1, <4>3 DEF Fits
      <4>. HIDE DEF q
      <4>. QED BY <2>4, <4>1, <4>2, <4>3, <4>4
    <3>. QED BY <2>8, <3>1, <3>2 DEF PerformProbe
  <2>9. CASE RegisterProbe(c) \/ CommitProbe(c)
    <3>1. PICK pc \in {"commit", "world"} : InputBecomes(c, pc)
      BY <2>9 DEF RegisterProbe, CommitProbe
    <3>. DEFINE q == [act[c] EXCEPT !.pc = pc]
    <3>2. /\ q \in ActRecord /\ q.pc = pc /\ q.raw = act[c].raw /\ q.file = act[c].file
          /\ q.sent = act[c].sent /\ q.pin = act[c].pin /\ q.answer = act[c].answer
          /\ q.life = act[c].life
      BY <2>1 DEF ActRecord, InputPcs
    <3>3. act' = [act EXCEPT ![c] = q]
      BY <2>1, <3>1 DEF InputBecomes, ActRecord
    <3>4. act[c].pc \in {"repin", "commit"} /\ act[c].pin = act[c].life
      BY <2>1, <2>9 DEF RegisterProbe, CommitProbe, Running, Fits
    <3>5. Fits(q)
      BY <2>1, <3>2, <3>4 DEF Fits
    <3>. HIDE DEF q
    <3>. QED BY <2>4, <3>2, <3>3, <3>4, <3>5
  <2>10. CASE IssueFetch(c)
    <3>. DEFINE q == [act[c] EXCEPT !.pc = "fetching", !.sent = doc]
    <3>1. /\ q \in ActRecord /\ q.pc = "fetching" /\ q.raw = act[c].raw /\ q.file = act[c].file
          /\ q.sent = doc /\ q.pin = act[c].pin /\ q.answer = act[c].answer
          /\ q.life = act[c].life
      BY <2>1 DEF ActRecord, InputPcs
    <3>2. act' = [act EXCEPT ![c] = q]
      BY <2>1, <2>10 DEF IssueFetch, ActRecord
    <3>3. act[c].pc = "world" /\ act[c].life = doc
      BY <2>10 DEF IssueFetch, Running
    <3>4. Fits(q)
      BY <2>1, <3>1, <3>3 DEF Fits
    <3>. HIDE DEF q
    <3>. QED BY <2>4, <3>1, <3>2, <3>3, <3>4
  <2>11. CASE \E pc \in {"settled", "ended"}, answer \in ActAnswers :
                /\ act[c].pc \in {"repin", "commit", "world", "fetching", "settled"}
                /\ answer = "refused" => pc = "ended" /\ act[c].sent = 0
                /\ pc = "settled" => answer \in {"denied", "uncertain", "dispatched"}
                /\ act' = [act EXCEPT ![c] = [act[c] EXCEPT !.pc = pc, !.answer = answer]]
    <3>1. PICK pc \in {"settled", "ended"}, answer \in ActAnswers :
                 /\ act[c].pc \in {"repin", "commit", "world", "fetching", "settled"}
                 /\ answer = "refused" => pc = "ended" /\ act[c].sent = 0
                 /\ pc = "settled" => answer \in {"denied", "uncertain", "dispatched"}
                 /\ act' = [act EXCEPT ![c] = [act[c] EXCEPT !.pc = pc, !.answer = answer]]
      BY <2>11
    <3>. DEFINE q == [act[c] EXCEPT !.pc = pc, !.answer = answer]
    <3>2. /\ q \in ActRecord /\ q.pc = pc /\ q.raw = act[c].raw /\ q.file = act[c].file
          /\ q.sent = act[c].sent /\ q.pin = act[c].pin /\ q.answer = answer
      <4>1. pc \in InputPcs /\ answer \in ActAnswers \cup {"none"}
        BY <3>1 DEF InputPcs
      <4>. QED BY ZenonT(60), <2>1, <4>1 DEF ActRecord
    <3>3. act' = [act EXCEPT ![c] = q]
      BY <3>1
    <3>4. Fits(q)
      BY <2>1, <3>1, <3>2 DEF Fits
    <3>. HIDE DEF q
    <3>. QED BY <2>4, <3>1, <3>2, <3>3, <3>4
  <2>12. CASE ProbeLost(c)
    <3>. DEFINE answer == IF act[c].pc = "fetching" THEN "uncertain" ELSE "refused"
    <3>1. act' = [act EXCEPT ![c] = [act[c] EXCEPT !.pc = "ended", !.answer = answer]]
      BY <2>1, <2>12 DEF ProbeLost, ActRecord
    <3>2. /\ act[c].pc \in {"repin", "commit", "world", "fetching"}
          /\ act[c].pc # "fetching" => act[c].sent = 0
      BY <2>1, <2>12 DEF ProbeLost, Fits
    <3>3. answer \in {"uncertain", "refused"} /\ (answer = "refused" => act[c].sent = 0)
      BY <3>2
    <3>. HIDE DEF answer
    <3>. QED BY <2>11, <3>1, <3>2, <3>3 DEF ActAnswers
  <2>13. ASSUME NEW outcome \in {"denied", "failed", "admitted"}, ClaimSettles(c, outcome)
         PROVE  InputInv'
    <3>. DEFINE answer == [denied |-> "denied", failed |-> "uncertain",
                           admitted |-> "dispatched"][outcome]
    <3>1. act' = [act EXCEPT ![c] = [act[c] EXCEPT !.pc = "settled", !.answer = answer]]
      BY <2>1, <2>13 DEF ClaimSettles, ActRecord
    <3>2. act[c].pc = "fetching"
      BY <2>13 DEF ClaimSettles
    <3>3. answer \in {"denied", "uncertain", "dispatched"}
      OBVIOUS
    <3>. HIDE DEF answer
    <3>. QED BY <2>11, <3>1, <3>2, <3>3 DEF ActAnswers
  <2>14. ASSUME NEW refused \in BOOLEAN, ProbeEnds(c, refused) PROVE InputInv'
    <3>. DEFINE said == act[c].answer
                answer == IF refused /\ said = "dispatched" THEN "rejected" ELSE said
    <3>1. act' = [act EXCEPT ![c] = [act[c] EXCEPT !.pc = "ended", !.answer = answer]]
      BY <2>1, <2>14 DEF ProbeEnds, ActRecord
    <3>2. act[c].pc = "settled"
      BY <2>14 DEF ProbeEnds
    <3>3. said \in {"denied", "uncertain", "dispatched"}
      BY <2>1, <3>2 DEF Fits
    <3>4. answer \in {"denied", "uncertain", "dispatched", "rejected"}
      BY <3>3
    <3>. HIDE DEF answer
    <3>. QED BY <2>11, <3>1, <3>2, <3>4 DEF ActAnswers
  <2>. QED BY <1>3, <2>5, <2>6, <2>7, <2>8, <2>9, <2>10, <2>12, <2>13, <2>14
<1>. QED BY <1>1, <1>2, <1>3 DEF ProbeStep

LEMMA InvalidatesKeeps ==
  ASSUME InputInv, NEW ended \in BOOLEAN, ~inputClosed, Invalidates(ended), inputClosed' = ended
  PROVE  InputInv'
<1>. DEFINE r == Released(gesture, act, ended)
<1>1. /\ r.acts \in [Callers -> ActRecord] /\ r.plan \in GestureRecord
      /\ OwnedBy(r.acts, r.plan, ordinary, ended)
      /\ \A c \in Callers : Fits(r.acts[c])
  BY ReleaseKeepsOwnership DEF InputInv, InputTypeOK
<1>2. act' = r.acts /\ gesture' = r.plan /\ ordinary' = ordinary /\ doc' = doc + 1
  BY DEF Invalidates
<1>. HIDE DEF r
<1>. QED BY <1>1, <1>2 DEF InputInv, InputTypeOK

-----------------------------------------------------------------------------
\* Who owns the input of a page, through every act, release, navigation and close.
THEOREM InputInvariant == InputSpec => []InputInv
<1>1. PageInputInit => InputInv
  <2>1. /\ Idle \in ActRecord /\ Idle.pc = "idle" /\ ~Idle.raw /\ Idle.file = "none"
        /\ Fits(Idle)
    BY DEF Idle, ActRecord, InputPcs, Fits
  <2>2. [preparing |-> FALSE, plan |-> Nobody, disposed |-> FALSE, performing |-> FALSE]
          \in GestureRecord
    BY DEF GestureRecord
  <2>3. Idle.pc \notin PerformingPcs
    BY <2>1 DEF PerformingPcs
  <2>. SUFFICES ASSUME PageInputInit PROVE InputInv
    OBVIOUS
  <2>4. \A c \in Callers : act[c] = Idle
    BY DEF PageInputInit
  <2>5. /\ act \in [Callers -> ActRecord] /\ gesture \in GestureRecord
        /\ gesture.plan = Nobody /\ ~gesture.preparing /\ ordinary = {}
        /\ doc \in Nat \ {0}
    BY <2>1, <2>2 DEF PageInputInit
  <2>8. inputClosed \in BOOLEAN
    BY DEF PageInputInit
  <2>6. InputTypeOK
    BY <2>5, <2>8 DEF InputTypeOK
  <2>7. OwnedBy(act, gesture, ordinary, inputClosed)
    BY <2>1, <2>3, <2>4, <2>5, InputAssumption DEF OwnedBy
  <2>. QED BY <2>1, <2>4, <2>6, <2>7 DEF InputInv
<1>2. InputInv /\ [InputNext]_inputVars => InputInv'
  <2>. SUFFICES ASSUME InputInv, [InputNext]_inputVars PROVE InputInv'
    OBVIOUS
  <2>1. ASSUME NEW c \in Callers, OrdinaryStep(c) \/ GestureStep(c) \/ ProbeStep(c)
        PROVE  InputInv'
    BY <2>1, OrdinaryKeeps, GestureKeeps, ProbeKeeps
  <2>2. CASE GestureTimer
    BY <2>2, ReleaseSteps DEF GestureTimer, gestureOwned, InputInv, InputTypeOK
  <2>3. CASE Navigated
    <3>1. ~inputClosed /\ Invalidates(FALSE) /\ inputClosed' = FALSE
      BY <2>3 DEF Navigated, InputInv, InputTypeOK
    <3>. QED BY <3>1, InvalidatesKeeps
  <2>4. CASE ClosePage
    BY <2>4, InvalidatesKeeps DEF ClosePage
  <2>5. CASE UNCHANGED inputVars
    BY <2>5 DEF inputVars, InputInv, InputTypeOK
  <2>. QED BY <2>1, <2>2, <2>3, <2>4, <2>5 DEF InputNext
<1>. QED BY <1>1, <1>2, PTL DEF InputSpec

\* Input reaches only the document it was prepared for and is never denied once sent, a
\* write that is out is alone on its page, and file bytes stay with the plan they are for.
THEOREM InputKept == InputSpec => []InputMeetsItsDocument
<1>1. InputInv => InputMeetsItsDocument
  <2>. SUFFICES ASSUME InputInv PROVE InputMeetsItsDocument
    OBVIOUS
  <2>1. InputIsOfItsDocument
    BY DEF InputInv, InputIsOfItsDocument, Fits
  <2>2. PendingWriteIsAlone
    BY DEF InputInv, OwnedBy, PendingWriteIsAlone
  <2>3. BytesFollowThePlan
    BY DEF InputInv, OwnedBy, BytesFollowThePlan
  <2>. QED BY <2>1, <2>2, <2>3 DEF InputMeetsItsDocument
<1>. QED BY <1>1, InputInvariant, PTL

-----------------------------------------------------------------------------
(* The evidence of an act (PageActs).                                      *)

ActPlaces == {"idle", "resolving", "healed", "out", "done", "failed"}
PageActRecord ==
  [at : ActPlaces, kind : ActKinds, isolated : BOOLEAN, epoch : Nat, root : 0 .. MaxRequests,
   chain : SUBSET MainRequests, latest : 0 .. MaxRequests, seen : 0 .. MaxRequests,
   alone : BOOLEAN, says : 0 .. MaxRequests]
RequestState ==
  [sent : BOOLEAN, from : 0 .. MaxRequests, denied : BOOLEAN, ended : BOOLEAN]
ActsTypeOK ==
  /\ pageAct \in [Acts -> PageActRecord]
  /\ mainRequest \in [MainRequests -> RequestState]
  /\ epoch \in Nat

\* The chain of an act among requests m: it hangs together from its root, which no
\* request led to, and what the act has noted and reports is of it.
OneChain(q, m) ==
  /\ q.root = 0 => q.chain = {}
  /\ q.root # 0 => q.root \in q.chain /\ m[q.root].from = 0
  /\ \A r \in q.chain : m[r].sent /\ (r = q.root \/ m[r].from \in q.chain)
  /\ {q.latest, q.seen, q.says} \subseteq q.chain \cup {0}

\* An act that would still report was alone since its dispatch, because every other
\* dispatch and navigation moves the epoch e on.
Attributable(q, e) ==
  /\ q.epoch <= e
  /\ q.at = "out" /\ q.isolated /\ q.epoch = e => q.alone
  /\ q.at \in {"idle", "resolving", "healed", "out"} => q.says = 0
  /\ q.says # 0 => q.alone

ActsInv ==
  /\ ActsTypeOK
  /\ \A a \in Acts : OneChain(pageAct[a], mainRequest) /\ Attributable(pageAct[a], epoch)

-----------------------------------------------------------------------------
\* One act takes another record; the requests and the epoch stay.
LEMMA ActMoves ==
  ASSUME ActsInv, NEW a \in Acts, NEW q \in PageActRecord, OneChain(q, mainRequest),
         Attributable(q, epoch), pageAct' = [pageAct EXCEPT ![a] = q],
         UNCHANGED <<mainRequest, epoch>>
  PROVE  ActsInv'
<1>1. /\ pageAct' \in [Acts -> PageActRecord] /\ pageAct'[a] = q
      /\ \A b \in Acts \ {a} : pageAct'[b] = pageAct[b]
  BY DEF ActsInv, ActsTypeOK
<1>2. ActsTypeOK'
  BY <1>1 DEF ActsInv, ActsTypeOK
<1>3. \A b \in Acts : OneChain(pageAct'[b], mainRequest) /\ Attributable(pageAct'[b], epoch)
  BY <1>1 DEF ActsInv
<1>. QED BY <1>2, <1>3 DEF ActsInv

LEMMA StartActKeeps ==
  ASSUME ActsInv, NEW a \in Acts, NEW kind \in ActKinds, StartAct(a, kind) PROVE ActsInv'
<1>. DEFINE q == [IdleAct EXCEPT !.at = "resolving", !.kind = kind]
<1>0. 0 \in 0 .. MaxRequests
  BY ActsAssumption
<1>1. /\ q \in PageActRecord /\ q.root = 0 /\ q.chain = {} /\ q.latest = 0 /\ q.seen = 0
      /\ q.says = 0 /\ q.epoch = 0 /\ q.at = "resolving"
  BY <1>0 DEF IdleAct, PageActRecord, ActPlaces
<1>2. pageAct' = [pageAct EXCEPT ![a] = q] /\ UNCHANGED <<mainRequest, epoch>>
  BY DEF StartAct
<1>. HIDE DEF q
<1>3. OneChain(q, mainRequest)
  BY <1>1 DEF OneChain
<1>4. Attributable(q, epoch)
  BY <1>1 DEF Attributable, ActsInv, ActsTypeOK
<1>. QED BY <1>1, <1>2, <1>3, <1>4, ActMoves

LEMMA ActRefusedKeeps ==
  ASSUME ActsInv, NEW a \in Acts, NEW healed \in BOOLEAN, ActRefused(a, healed) PROVE ActsInv'
<1>. DEFINE to == IF healed /\ pageAct[a].at = "resolving" THEN "healed" ELSE "failed"
            q == [pageAct[a] EXCEPT !.at = to]
<1>1. /\ pageAct[a] \in PageActRecord /\ OneChain(pageAct[a], mainRequest)
      /\ Attributable(pageAct[a], epoch) /\ pageAct[a].at \in {"resolving", "healed"}
  BY DEF ActRefused, ActsInv, ActsTypeOK
<1>2. to \in {"healed", "failed"}
  OBVIOUS
<1>3. pageAct' = [pageAct EXCEPT ![a] = q] /\ UNCHANGED <<mainRequest, epoch>>
  BY <1>1 DEF ActRefused, ActsInv, ActsTypeOK, PageActRecord
<1>. HIDE DEF to
<1>4. /\ q \in PageActRecord /\ q.at = to /\ q.root = pageAct[a].root
      /\ q.chain = pageAct[a].chain /\ q.latest = pageAct[a].latest
      /\ q.seen = pageAct[a].seen /\ q.says = pageAct[a].says /\ q.epoch = pageAct[a].epoch
  BY <1>1, <1>2 DEF PageActRecord, ActPlaces
<1>. HIDE DEF q
<1>5. OneChain(q, mainRequest)
  BY <1>1, <1>4 DEF OneChain
<1>6. Attributable(q, epoch)
  BY <1>1, <1>2, <1>4 DEF Attributable
<1>. QED BY <1>3, <1>4, <1>5, <1>6, ActMoves

\* An act ends: it says the last denied request of its chain, if it is still alone.
LEMMA EndingKeeps ==
  ASSUME ActsInv, NEW a \in Acts, NEW at \in {"done", "failed"}, NEW ok \in BOOLEAN,
         pageAct[a].at = "out",
         pageAct' = [pageAct EXCEPT ![a].at = at,
                                    ![a].says = IF ok /\ Reports(a) THEN Inspected(a) ELSE 0],
         UNCHANGED <<mainRequest, epoch>>
  PROVE  ActsInv'
<1>. DEFINE says == IF ok /\ Reports(a) THEN Inspected(a) ELSE 0
            q == [pageAct[a] EXCEPT !.at = at, !.says = says]
<1>1. /\ pageAct[a] \in PageActRecord /\ OneChain(pageAct[a], mainRequest)
      /\ Attributable(pageAct[a], epoch)
  BY DEF ActsInv, ActsTypeOK
<1>2. Inspected(a) \in {pageAct[a].latest, pageAct[a].root, pageAct[a].seen}
  BY DEF Inspected
<1>3. pageAct[a].root \in pageAct[a].chain \cup {0}
  BY <1>1 DEF OneChain
<1>4. says \in pageAct[a].chain \cup {0} /\ says \in 0 .. MaxRequests
  BY <1>1, <1>2, <1>3, ActsAssumption DEF OneChain, PageActRecord
<1>5. says # 0 => pageAct[a].alone
  BY <1>1 DEF Attributable, Reports
<1>6. pageAct' = [pageAct EXCEPT ![a] = q]
  BY <1>1 DEF ActsInv, ActsTypeOK, PageActRecord
<1>. HIDE DEF says
<1>7. /\ q \in PageActRecord /\ q.at = at /\ q.root = pageAct[a].root
      /\ q.chain = pageAct[a].chain /\ q.latest = pageAct[a].latest
      /\ q.seen = pageAct[a].seen /\ q.says = says /\ q.epoch = pageAct[a].epoch
      /\ q.alone = pageAct[a].alone
  BY <1>1, <1>4 DEF PageActRecord, ActPlaces
<1>. HIDE DEF q
<1>8. OneChain(q, mainRequest)
  BY <1>1, <1>4, <1>7 DEF OneChain
<1>9. Attributable(q, epoch)
  BY <1>1, <1>5, <1>7 DEF Attributable
<1>. QED BY <1>6, <1>7, <1>8, <1>9, ActMoves

\* Whoever is under way is not alone any more, and the epoch has moved past it.
LEMMA EpochMoves ==
  ASSUME ActsInv, NEW e \in Nat, e > epoch
  PROVE  /\ NotAlone(pageAct) \in [Acts -> PageActRecord]
         /\ \A b \in Acts : /\ OneChain(NotAlone(pageAct)[b], mainRequest)
                            /\ Attributable(NotAlone(pageAct)[b], e)
<1>. DEFINE n == NotAlone(pageAct)
<1>1. ASSUME NEW b \in Acts
      PROVE  /\ n[b] \in PageActRecord
             /\ OneChain(n[b], mainRequest) /\ Attributable(n[b], e)
  <2>1. /\ pageAct[b] \in PageActRecord /\ OneChain(pageAct[b], mainRequest)
        /\ Attributable(pageAct[b], epoch) /\ epoch \in Nat
    BY DEF ActsInv, ActsTypeOK
  <2>2. CASE b \in Out
    <3>. DEFINE q == [pageAct[b] EXCEPT !.alone = FALSE]
    <3>1. n[b] = q /\ pageAct[b].at = "out"
      BY <2>2 DEF NotAlone, Out
    <3>2. /\ q \in PageActRecord /\ q.root = pageAct[b].root /\ q.at = pageAct[b].at
          /\ q.chain = pageAct[b].chain /\ q.latest = pageAct[b].latest
          /\ q.seen = pageAct[b].seen /\ q.says = pageAct[b].says /\ q.epoch = pageAct[b].epoch
      BY <2>1 DEF PageActRecord
    <3>. HIDE DEF q, n
    <3>3. OneChain(q, mainRequest)
      BY <2>1, <3>2 DEF OneChain
    <3>4. q.epoch \in Nat /\ q.epoch <= epoch /\ q.says = 0
      BY <2>1, <3>1, <3>2 DEF Attributable, PageActRecord
    <3>5. Attributable(q, e)
      BY <2>1, <3>4 DEF Attributable
    <3>. QED BY <3>1, <3>2, <3>3, <3>5
  <2>3. CASE b \notin Out
    <3>1. n[b] = pageAct[b] /\ pageAct[b].at # "out"
      BY <2>3 DEF NotAlone, Out
    <3>2. pageAct[b].epoch \in Nat
      BY <2>1 DEF PageActRecord
    <3>3. Attributable(pageAct[b], e)
      BY <2>1, <3>1, <3>2 DEF Attributable
    <3>. QED BY <2>1, <3>1, <3>3
  <2>. QED BY <2>2, <2>3
<1>2. n \in [Acts -> PageActRecord]
  BY <1>1 DEF NotAlone
<1>. QED BY <1>1, <1>2

LEMMA DispatchKeeps ==
  ASSUME ActsInv, NEW a \in Acts, Dispatch(a) PROVE ActsInv'
<1>. DEFINE e == epoch + (IF pageAct[a].kind = "navigate" THEN 2 ELSE 1)
            n == NotAlone(pageAct)
            free == Out = {} /\ going = {}
            q == [n[a] EXCEPT !.at = "out", !.epoch = epoch + 1, !.isolated = Isolated(a),
                              !.alone = free]
<1>1. e \in Nat /\ e > epoch /\ epoch + 1 <= e /\ epoch + 1 \in Nat
  BY DEF ActsInv, ActsTypeOK
<1>2. epoch' = e /\ mainRequest' = mainRequest
  BY DEF Dispatch
<1>3. /\ n \in [Acts -> PageActRecord]
      /\ \A b \in Acts : OneChain(n[b], mainRequest) /\ Attributable(n[b], e)
  BY <1>1, EpochMoves
<1>4. pageAct' = [n EXCEPT ![a].at = "out", ![a].epoch = epoch + 1,
                           ![a].isolated = Isolated(a), ![a].alone = free]
  BY DEF Dispatch
<1>5. n[a] = pageAct[a]
  BY DEF Dispatch, NotAlone, Out
<1>6. Isolated(a) \in BOOLEAN /\ (Isolated(a) => free)
  BY DEF Isolated
<1>7. pageAct[a].says = 0
  BY DEF ActsInv, Attributable, Dispatch
<1>. HIDE DEF e, n, free
<1>8. pageAct' = [n EXCEPT ![a] = q]
  BY <1>3, <1>4 DEF PageActRecord
<1>9. /\ q \in PageActRecord /\ q.at = "out" /\ q.root = n[a].root
      /\ q.chain = n[a].chain /\ q.latest = n[a].latest
      /\ q.seen = n[a].seen /\ q.says = n[a].says /\ q.epoch = epoch + 1
      /\ q.alone = free /\ q.isolated = Isolated(a)
  BY <1>1, <1>3, <1>6 DEF PageActRecord, ActPlaces, free
<1>. HIDE DEF q
<1>10. OneChain(q, mainRequest)
  BY <1>3, <1>9 DEF OneChain
<1>11. Attributable(q, e)
  BY <1>1, <1>5, <1>6, <1>7, <1>9 DEF Attributable
<1>12. /\ pageAct' \in [Acts -> PageActRecord] /\ pageAct'[a] = q
       /\ \A b \in Acts \ {a} : pageAct'[b] = n[b]
  BY <1>3, <1>8, <1>9
<1>13. \A b \in Acts : OneChain(pageAct'[b], mainRequest) /\ Attributable(pageAct'[b], e)
  BY <1>3, <1>10, <1>11, <1>12
<1>. QED BY <1>1, <1>2, <1>12, <1>13 DEF ActsInv, ActsTypeOK

\* Requests that keep who led to them, once sent, keep every chain.
LEMMA ChainStays ==
  ASSUME NEW q \in PageActRecord, NEW m \in [MainRequests -> RequestState],
         NEW k \in [MainRequests -> RequestState], OneChain(q, m),
         \A r \in MainRequests : m[r].sent => k[r].sent /\ k[r].from = m[r].from
  PROVE  OneChain(q, k)
<1>1. q.chain \subseteq MainRequests
  BY DEF PageActRecord
<1>. QED BY <1>1 DEF OneChain

LEMMA NavigationEndsKeeps ==
  ASSUME ActsInv, NEW n \in Navigations, NEW r \in 0 .. MaxRequests, NavigationEnds(n, r)
  PROVE  ActsInv'
<1>1. /\ mainRequest' \in [MainRequests -> RequestState]
      /\ \A x \in MainRequests : /\ mainRequest'[x].sent = mainRequest[x].sent
                                 /\ mainRequest'[x].from = mainRequest[x].from
  <2>1. CASE r # 0 /\ mainRequest[r].ended
    <3>. DEFINE k == [mainRequest[r] EXCEPT !.denied = FALSE]
    <3>1. r \in MainRequests /\ mainRequest[r] \in RequestState
      BY <2>1, ActsAssumption DEF MainRequests, ActsInv, ActsTypeOK
    <3>2. k \in RequestState /\ k.sent = mainRequest[r].sent /\ k.from = mainRequest[r].from
      BY <3>1 DEF RequestState
    <3>3. mainRequest' = [mainRequest EXCEPT ![r] = k]
      BY <2>1, <3>1 DEF NavigationEnds, ActsInv, ActsTypeOK, RequestState
    <3>. HIDE DEF k
    <3>. QED BY <3>1, <3>2, <3>3 DEF ActsInv, ActsTypeOK
  <2>2. CASE ~(r # 0 /\ mainRequest[r].ended)
    BY <2>2 DEF NavigationEnds, ActsInv, ActsTypeOK
  <2>. QED BY <2>1, <2>2
<1>2. UNCHANGED <<pageAct, epoch>>
  BY DEF NavigationEnds
<1>3. \A b \in Acts : OneChain(pageAct[b], mainRequest')
  BY <1>1, ChainStays DEF ActsInv, ActsTypeOK
<1>. QED BY <1>1, <1>2, <1>3 DEF ActsInv, ActsTypeOK

LEMMA RequestStartsKeeps ==
  ASSUME ActsInv, NEW r \in MainRequests, NEW from \in 0 .. r - 1, RequestStarts(r, from)
  PROVE  ActsInv'
<1>. DEFINE k == [mainRequest[r] EXCEPT !.sent = TRUE, !.from = from]
<1>1. /\ r \in Nat /\ r <= MaxRequests /\ r # 0 /\ from \in 0 .. MaxRequests
      /\ mainRequest[r] \in RequestState
  BY ActsAssumption DEF MainRequests, ActsInv, ActsTypeOK
<1>2. /\ k \in RequestState /\ k.sent /\ k.from = from
  BY <1>1 DEF RequestState
<1>3. mainRequest' = [mainRequest EXCEPT ![r] = k] /\ epoch' = epoch /\ ~mainRequest[r].sent
  BY <1>1 DEF RequestStarts, ActsInv, ActsTypeOK, RequestState
<1>. HIDE DEF k
<1>4. /\ mainRequest' \in [MainRequests -> RequestState]
      /\ mainRequest'[r].sent /\ mainRequest'[r].from = from
      /\ \A x \in MainRequests : mainRequest[x].sent =>
           mainRequest'[x].sent /\ mainRequest'[x].from = mainRequest[x].from
  BY <1>2, <1>3 DEF ActsInv, ActsTypeOK
<1>5. ASSUME NEW b \in Acts
      PROVE  /\ pageAct'[b] \in PageActRecord
             /\ OneChain(pageAct'[b], mainRequest') /\ Attributable(pageAct'[b], epoch)
  <2>. DEFINE p == pageAct[b]
  <2>1. /\ p \in PageActRecord /\ OneChain(p, mainRequest) /\ Attributable(p, epoch)
        /\ OneChain(p, mainRequest')
    BY <1>4, ChainStays DEF ActsInv, ActsTypeOK
  <2>2. pageAct'[b] = IF Listens(b) THEN Starts(b, r, from) ELSE p
    BY DEF RequestStarts
  <2>3. CASE ~Listens(b)
    BY <2>1, <2>2, <2>3
  <2>4. CASE Listens(b) /\ from = 0 /\ p.root = 0
    <3>. DEFINE q == [p EXCEPT !.root = r, !.latest = r, !.chain = {r}]
    <3>1. pageAct'[b] = q
      BY <2>2, <2>4 DEF Starts
    <3>2. /\ q \in PageActRecord /\ q.root = r /\ q.latest = r /\ q.chain = {r}
          /\ q.seen = p.seen /\ q.says = p.says /\ q.at = p.at /\ q.isolated = p.isolated
          /\ q.epoch = p.epoch /\ q.alone = p.alone
      <4>1. r \in 0 .. MaxRequests /\ {r} \in SUBSET MainRequests
        BY <1>1
      <4>. QED BY <2>1, <4>1 DEF PageActRecord
    <3>3. p.seen = 0 /\ p.says = 0
      BY <2>1, <2>4 DEF OneChain
    <3>. HIDE DEF q
    <3>4. OneChain(q, mainRequest')
      BY <1>1, <1>4, <2>4, <3>2, <3>3 DEF OneChain
    <3>5. Attributable(q, epoch)
      BY <2>1, <3>2 DEF Attributable
    <3>. QED BY <3>1, <3>2, <3>4, <3>5
  <2>5. CASE Listens(b) /\ ~(from = 0 /\ p.root = 0) /\ from # 0 /\ from \in p.chain
    <3>. DEFINE q == [p EXCEPT !.latest = r, !.chain = p.chain \cup {r}]
    <3>1. pageAct'[b] = q
      BY <2>2, <2>5 DEF Starts
    <3>2. /\ q \in PageActRecord /\ q.root = p.root /\ q.latest = r /\ q.chain = p.chain \cup {r}
          /\ q.seen = p.seen /\ q.says = p.says /\ q.at = p.at /\ q.isolated = p.isolated
          /\ q.epoch = p.epoch /\ q.alone = p.alone
      <4>1. r \in 0 .. MaxRequests /\ p.chain \cup {r} \in SUBSET MainRequests
        BY <1>1, <2>1 DEF PageActRecord
      <4>. QED BY <2>1, <4>1 DEF PageActRecord
    <3>. HIDE DEF q
    <3>4. OneChain(q, mainRequest')
      <4>1. q.root # 0 /\ q.root \in p.chain /\ mainRequest'[q.root].from = 0
        BY <2>1, <2>5, <3>2 DEF OneChain
      <4>2. \A x \in q.chain :
              mainRequest'[x].sent /\ (x = q.root \/ mainRequest'[x].from \in q.chain)
        <5>1. \A x \in p.chain :
                mainRequest'[x].sent /\ (x = p.root \/ mainRequest'[x].from \in p.chain)
          BY <2>1 DEF OneChain
        <5>. QED BY <1>4, <2>5, <3>2, <5>1
      <4>3. {q.latest, q.seen, q.says} \subseteq q.chain \cup {0}
        BY <2>1, <3>2 DEF OneChain
      <4>. QED BY <3>2, <4>1, <4>2, <4>3 DEF OneChain
    <3>5. Attributable(q, epoch)
      BY <2>1, <3>2 DEF Attributable
    <3>. QED BY <3>1, <3>2, <3>4, <3>5
  <2>6. CASE Listens(b) /\ ~(from = 0 /\ p.root = 0) /\ ~(from # 0 /\ from \in p.chain)
    <3>. DEFINE q == [p EXCEPT !.isolated = FALSE]
    <3>1. pageAct'[b] = q
      BY <2>2, <2>6 DEF Starts
    <3>2. /\ q \in PageActRecord /\ q.root = p.root /\ q.latest = p.latest /\ q.chain = p.chain
          /\ q.seen = p.seen /\ q.says = p.says /\ q.at = p.at /\ ~q.isolated
          /\ q.epoch = p.epoch /\ q.alone = p.alone
      BY <2>1 DEF PageActRecord
    <3>. HIDE DEF q
    <3>4. OneChain(q, mainRequest')
      BY <2>1, <3>2 DEF OneChain
    <3>5. Attributable(q, epoch)
      BY <2>1, <3>2 DEF Attributable
    <3>. QED BY <3>1, <3>2, <3>4, <3>5
  <2>. QED BY <2>3, <2>4, <2>5, <2>6
<1>6. pageAct' \in [Acts -> PageActRecord]
  BY <1>5 DEF RequestStarts
<1>. QED BY <1>3, <1>4, <1>5, <1>6 DEF ActsInv, ActsTypeOK

LEMMA RequestEndsKeeps ==
  ASSUME ActsInv, NEW r \in MainRequests, NEW denied \in BOOLEAN, RequestEnds(r, denied)
  PROVE  ActsInv'
<1>. DEFINE k == [mainRequest[r] EXCEPT !.ended = TRUE, !.denied = denied]
<1>1. mainRequest[r] \in RequestState /\ r \in 0 .. MaxRequests
  BY ActsAssumption DEF MainRequests, ActsInv, ActsTypeOK
<1>2. k \in RequestState /\ k.sent = mainRequest[r].sent /\ k.from = mainRequest[r].from
  BY <1>1 DEF RequestState
<1>3. mainRequest' = [mainRequest EXCEPT ![r] = k] /\ epoch' = epoch
  BY <1>1 DEF RequestEnds, ActsInv, ActsTypeOK, RequestState
<1>. HIDE DEF k
<1>4. /\ mainRequest' \in [MainRequests -> RequestState]
      /\ \A x \in MainRequests : mainRequest[x].sent =>
           mainRequest'[x].sent /\ mainRequest'[x].from = mainRequest[x].from
  BY <1>2, <1>3 DEF ActsInv, ActsTypeOK
<1>5. ASSUME NEW b \in Acts
      PROVE  /\ pageAct'[b] \in PageActRecord
             /\ OneChain(pageAct'[b], mainRequest') /\ Attributable(pageAct'[b], epoch)
  <2>. DEFINE p == pageAct[b]
              q == [p EXCEPT !.seen = r]
  <2>1. /\ p \in PageActRecord /\ OneChain(p, mainRequest) /\ Attributable(p, epoch)
        /\ OneChain(p, mainRequest')
    BY <1>4, ChainStays DEF ActsInv, ActsTypeOK
  <2>2. pageAct'[b] = IF denied /\ Listens(b) /\ r \in p.chain THEN q ELSE p
    BY DEF RequestEnds
  <2>3. /\ q \in PageActRecord /\ q.root = p.root /\ q.latest = p.latest /\ q.chain = p.chain
        /\ q.seen = r /\ q.says = p.says /\ q.at = p.at /\ q.isolated = p.isolated
        /\ q.epoch = p.epoch /\ q.alone = p.alone
    BY <1>1, <2>1 DEF PageActRecord
  <2>. HIDE DEF q
  <2>4. r \in p.chain => OneChain(q, mainRequest')
    BY <2>1, <2>3 DEF OneChain
  <2>5. Attributable(q, epoch)
    BY <2>1, <2>3 DEF Attributable
  <2>. QED BY <2>1, <2>2, <2>3, <2>4, <2>5
<1>6. pageAct' \in [Acts -> PageActRecord]
  BY <1>5 DEF RequestEnds
<1>. QED BY <1>3, <1>4, <1>5, <1>6 DEF ActsInv, ActsTypeOK

LEMMA NavigateKeeps ==
  ASSUME ActsInv, NEW n, Navigate(n) PROVE ActsInv'
<1>1. /\ epoch' = epoch + 1 /\ epoch' \in Nat /\ epoch' > epoch
      /\ pageAct' = NotAlone(pageAct) /\ mainRequest' = mainRequest
  BY DEF Navigate, ActsInv, ActsTypeOK
<1>. DEFINE e == epoch + 1
<1>2. /\ NotAlone(pageAct) \in [Acts -> PageActRecord]
      /\ \A b \in Acts : /\ OneChain(NotAlone(pageAct)[b], mainRequest)
                         /\ Attributable(NotAlone(pageAct)[b], e)
  BY <1>1, EpochMoves
<1>. QED BY <1>1, <1>2 DEF ActsInv, ActsTypeOK

-----------------------------------------------------------------------------
\* Every act's chain, and who could have caused it, at every moment.
THEOREM ActsInvariant == ActsSpec => []ActsInv
<1>1. ActsInit => ActsInv
  <2>. SUFFICES ASSUME ActsInit PROVE ActsInv
    OBVIOUS
  <2>1. 0 \in 0 .. MaxRequests
    BY ActsAssumption
  <2>2. /\ IdleAct \in PageActRecord /\ IdleAct.at = "idle" /\ IdleAct.root = 0
        /\ IdleAct.chain = {} /\ IdleAct.latest = 0 /\ IdleAct.seen = 0 /\ IdleAct.says = 0
        /\ IdleAct.epoch = 0
    BY <2>1 DEF IdleAct, PageActRecord, ActPlaces, ActKinds
  <2>3. [sent |-> FALSE, from |-> 0, denied |-> FALSE, ended |-> FALSE] \in RequestState
    BY <2>1 DEF RequestState
  <2>4. ActsTypeOK
    BY <2>2, <2>3 DEF ActsInit, ActsTypeOK
  <2>5. OneChain(IdleAct, mainRequest) /\ Attributable(IdleAct, 0)
    BY <2>2 DEF OneChain, Attributable
  <2>. QED BY <2>4, <2>5 DEF ActsInit, ActsInv
<1>2. ActsInv /\ [ActsNext]_actsVars => ActsInv'
  <2>. SUFFICES ASSUME ActsInv, [ActsNext]_actsVars PROVE ActsInv'
    OBVIOUS
  <2>1. ASSUME NEW a \in Acts, NEW ok \in BOOLEAN, EndAct(a, ok) PROVE ActsInv'
    <3>1. PICK at \in {"done", "failed"} : at = IF ok THEN "done" ELSE "failed"
      OBVIOUS
    <3>. QED BY <2>1, <3>1, EndingKeeps DEF EndAct
  <2>2. ASSUME NEW a \in Acts, SettleDialog(a) PROVE ActsInv'
    BY <2>2, EndingKeeps DEF SettleDialog
  <2>3. ASSUME NEW d \in Dialogs, DialogOpens(d) \/ DialogGone(d) \/ GraceEnds(d) PROVE ActsInv'
    BY <2>3 DEF DialogOpens, DialogGone, GraceEnds, ActsInv, ActsTypeOK
  <2>4. CASE PageCloses
    BY <2>4 DEF PageCloses, ActsInv, ActsTypeOK
  <2>5. CASE UNCHANGED actsVars
    BY <2>5 DEF actsVars, ActsInv, ActsTypeOK
  <2>. QED BY <2>1, <2>2, <2>3, <2>4, <2>5, StartActKeeps, ActRefusedKeeps, DispatchKeeps,
              NavigateKeeps, NavigationEndsKeeps, RequestStartsKeeps, RequestEndsKeeps
           DEF ActsNext
<1>. QED BY <1>1, <1>2, PTL DEF ActsSpec

\* A blocked navigation an act reports is of the one chain that began after its dispatch,
\* while no other act or navigation was under way.
THEOREM EvidenceIsOwn == ActsSpec => []EvidenceStandsAlone
<1>1. ActsInv => EvidenceStandsAlone
  <2>. SUFFICES ASSUME ActsInv, NEW a \in Acts, pageAct[a].says # 0
                PROVE  /\ pageAct[a].alone
                       /\ pageAct[a].says \in pageAct[a].chain
                       /\ mainRequest[pageAct[a].root].from = 0
                       /\ Cardinality({r \in pageAct[a].chain :
                                         mainRequest[r].from \notin pageAct[a].chain}) = 1
    BY DEF EvidenceStandsAlone
  <2>1. /\ pageAct[a] \in PageActRecord /\ OneChain(pageAct[a], mainRequest)
        /\ Attributable(pageAct[a], epoch)
    BY DEF ActsInv, ActsTypeOK
  <2>2. pageAct[a].alone /\ pageAct[a].says \in pageAct[a].chain
    BY <2>1 DEF OneChain, Attributable
  <2>3. /\ pageAct[a].root \in pageAct[a].chain /\ mainRequest[pageAct[a].root].from = 0
        /\ \A r \in pageAct[a].chain :
             r = pageAct[a].root \/ mainRequest[r].from \in pageAct[a].chain
    BY <2>1, <2>2 DEF OneChain
  <2>4. 0 \notin pageAct[a].chain
    BY <2>1 DEF PageActRecord, MainRequests
  <2>5. {r \in pageAct[a].chain : mainRequest[r].from \notin pageAct[a].chain}
          = {pageAct[a].root}
    BY <2>3, <2>4
  <2>6. Cardinality({pageAct[a].root}) = 1
    BY FS_Singleton
  <2>. QED BY <2>2, <2>3, <2>5, <2>6
<1>. QED BY <1>1, ActsInvariant, PTL

-----------------------------------------------------------------------------
(* References (PageRefs), for calls of one page that do not overlap.       *)

\* The fields of an observation and of an act, with their values in any set.
Observation(S) ==
  [at : S, include : S, degraded : S, document : S, rows : S, rev : S, previous : S,
   left : S, changed : BOOLEAN, got : S, minted : S]
ActOnRef(S) == [at : S, ref : S, meant : S, bound : S, hit : S]
RefShape ==
  /\ \E S : obs \in [Observers -> Observation(S)]
  /\ \E S : acting \in ActOnRef(S)
  /\ revision \in Nat

\* An observation and an act are never under way together, nor two observations.
OneCall ==
  /\ \A o, p \in Observers : Under(o) /\ Under(p) => o = p
  /\ \A o \in Observers : Under(o) => acting.at = "idle"

\* The revision does not move while an observation is under way.
OfRevision(o) ==
  /\ obs[o].at = "captured" => obs[o].got = NoMap
  /\ obs[o].at \in {"captured", "binding"} => obs[o].rev = revision
  /\ obs[o].at = "minted" => obs[o].minted = revision
  /\ obs[o].at = "answered" => obs[o].minted \in Nat /\ obs[o].minted <= revision

\* The references an answer of this revision gave are in the map with the node they
\* were given for, unless an observation that found no change left them out.
AgreesWith(o, map) ==
  obs[o].at \in {"minted", "answered"} /\ obs[o].minted = revision =>
    \A i \in DOMAIN obs[o].got : Ref(revision, i) \notin forgotten =>
      Ref(revision, i) \in DOMAIN map /\ map[Ref(revision, i)].node = obs[o].got[i]

\* While p binds its rows, the store holds what p has bound so far and nothing else,
\* and what it bound without finding a change is what was bound before.
BoundSoFar(p) ==
  /\ DOMAIN obs[p].got \subseteq 1 .. Len(obs[p].rows)
  /\ obs[p].left \subseteq 1 .. Len(obs[p].rows)
  /\ DOMAIN bindings = {Ref(revision, i) : i \in DOMAIN obs[p].got}
  /\ \A i \in DOMAIN obs[p].got :
       /\ bindings[Ref(revision, i)].node = obs[p].got[i]
       /\ ~obs[p].changed /\ Ref(revision, i) \in DOMAIN obs[p].previous =>
            obs[p].previous[Ref(revision, i)].node = obs[p].got[i]
Rebinds(p) ==
  obs[p].at = "binding" =>
    BoundSoFar(p) /\ \A o \in Observers : AgreesWith(o, obs[p].previous)

\* When nobody binds, the store agrees with every answer of the revision.
StoreAgrees ==
  (\A p \in Observers : obs[p].at # "binding") => \A o \in Observers : AgreesWith(o, bindings)

\* An act under way meets in the store what its caller was answered.
ActMeetsItsNode ==
  /\ acting.at \in {"resolving", "resolved"} /\ acting.ref \notin forgotten =>
       acting.ref \in DOMAIN bindings /\ bindings[acting.ref].node = acting.meant
  /\ ReferencesStayBound

RefInv ==
  /\ RefShape /\ OneCall /\ StoreAgrees /\ ActMeetsItsNode
  /\ \A o \in Observers : OfRevision(o) /\ Rebinds(o)
  /\ \A r \in DOMAIN bindings : r = Ref(revision, r[2])

LEMMA RefInitHolds == RefInit => RefInv
<1>. SUFFICES ASSUME RefInit PROVE RefInv
  OBVIOUS
<1>1. \A o \in Observers : obs[o] = NotObserved
  BY DEF RefInit
<1>2. RefShape
  <2>. DEFINE S == {"idle", FALSE, 0, <<>>, NoMap, {}}
  <2>1. obs \in [Observers -> Observation(S)]
    BY DEF RefInit, Observation, NotObserved, NoMap
  <2>. DEFINE T == {"idle", <<>>, NoElement}
  <2>2. acting \in ActOnRef(T)
    BY DEF RefInit, ActOnRef, NoAct
  <2>. QED BY <2>1, <2>2 DEF RefShape, RefInit
<1>3. OneCall /\ StoreAgrees /\ \A o \in Observers : OfRevision(o) /\ Rebinds(o)
  BY <1>1 DEF OneCall, StoreAgrees, AgreesWith, OfRevision, Rebinds, Under, NotObserved
<1>4. ActMeetsItsNode
  BY DEF RefInit, ActMeetsItsNode, ReferencesStayBound, NoAct
<1>5. \A r \in DOMAIN bindings : FALSE
  BY DEF RefInit, NoMap
<1>. QED BY <1>2, <1>3, <1>4, <1>5 DEF RefInv

\* What the page does to itself moves no reference.
LEMMA PageKeepsRefs ==
  ASSUME RefInv, UNCHANGED <<revision, bindings, obs, forgotten, acting>>
  PROVE  RefInv'
<1>1. RefShape' /\ OneCall' /\ ActMeetsItsNode'
  BY DEF RefInv, RefShape, OneCall, ActMeetsItsNode, ReferencesStayBound, Under
<1>2. \A o \in Observers : OfRevision(o)' /\ Rebinds(o)'
  <2>1. ASSUME NEW o \in Observers PROVE OfRevision(o)'
    BY DEF RefInv, OfRevision
  <2>2. ASSUME NEW o \in Observers PROVE Rebinds(o)'
    <3>1. Rebinds(o)
      BY DEF RefInv
    <3>. QED BY <3>1, Zenon DEF AgreesWith, Rebinds, BoundSoFar
  <2>. QED BY <2>1, <2>2
<1>3. StoreAgrees'
  BY DEF RefInv, StoreAgrees, AgreesWith
<1>. QED BY <1>1, <1>2, <1>3 DEF RefInv

LEMMA SnapshotsKeeps ==
  ASSUME RefInv, ~Concurrent, NEW o \in Observers, Snapshots(o) PROVE RefInv'
<1>1. PICK S : obs \in [Observers -> Observation(S)]
  BY DEF RefInv, RefShape
<1>2. PICK include \in Includes, degraded \in BOOLEAN :
        obs' = [obs EXCEPT ![o] = Snapshot(include, degraded)]
  BY DEF Snapshots
<1>. DEFINE rows == (IF degraded THEN ContentRows ELSE SnapshotRows) \o WidgetRows(include)
            T == S \union {"captured", include, degraded, document, rows, revision, NoMap, {}, 0}
<1>3. obs' \in [Observers -> Observation(T)]
  <2>. HIDE DEF rows
  <2>1. Snapshot(include, degraded) \in Observation(T)
    BY DEF Snapshot, Observation, rows
  <2>. QED BY <1>1, <1>2, <2>1 DEF Observation
<1>. HIDE DEF rows
<1>4. /\ obs'[o].at = "captured" /\ obs'[o].rev = revision /\ obs'[o].got = NoMap
      /\ \A p \in Observers : p # o => obs'[p] = obs[p]
  BY <1>1, <1>2 DEF Snapshot
<1>5. /\ obs[o].at = "idle" /\ acting.at = "idle" /\ \A p \in Observers : ~Under(p)
      /\ UNCHANGED <<revision, bindings, forgotten, acting>>
  BY DEF Snapshots, Alone, refs
<1>6. RefShape'
  BY <1>3, <1>5 DEF RefInv, RefShape
<1>7. OneCall'
  BY <1>4, <1>5 DEF OneCall, Under
<1>8. \A p \in Observers : obs[p].at # "binding"
  BY <1>5 DEF Under
<1>9. \A p \in Observers : AgreesWith(p, bindings)'
  BY <1>4, <1>5, <1>8 DEF RefInv, StoreAgrees, AgreesWith
<1>10. \A p \in Observers : OfRevision(p)' /\ Rebinds(p)'
  BY <1>4, <1>5, <1>8 DEF RefInv, OfRevision, Rebinds
<1>11. ActMeetsItsNode'
  BY <1>5 DEF RefInv, ActMeetsItsNode, ReferencesStayBound
<1>. QED BY <1>5, <1>6, <1>7, <1>9, <1>10, <1>11 DEF RefInv, StoreAgrees

\* A step of an observation under way: no act is, and no other observation.
LEMMA UnderAlone ==
  ASSUME RefInv, NEW o \in Observers, Under(o)
  PROVE  /\ acting.at = "idle"
         /\ \A p \in Observers : p # o => obs[p].at \notin {"captured", "binding", "minted"}
BY DEF RefInv, OneCall, Under

LEMMA RebuildKeeps ==
  ASSUME RefInv, NEW o \in Observers, Rebuild(o) PROVE RefInv'
<1>1. PICK S : obs \in [Observers -> Observation(S)]
  BY DEF RefInv, RefShape
<1>. DEFINE n == Len(obs[o].rows)
            base == Len(OfKind(obs[o].rows, Base))
            changed == \/ counts.base > 0 /\ counts.base # base
                       \/ /\ counts.include = obs[o].include
                          /\ counts.widgets # n - base
            left == 1 .. n
            T == S \union {"binding", bindings, left}
<1>2a. obs' = [obs EXCEPT ![o].at = "binding", ![o].previous = bindings, ![o].left = left,
                          ![o].changed = changed]
  BY DEF Rebuild, Recount
<1>2b. changed \in BOOLEAN
  OBVIOUS
<1>. HIDE DEF changed, left
<1>3. obs' \in [Observers -> Observation(T)]
  <2>1. obs \in [Observers -> Observation(T)]
    BY <1>1 DEF Observation
  <2>2. {"binding", bindings, left} \subseteq T
    OBVIOUS
  <2>. HIDE DEF T
  <2>. QED BY <2>1, <2>2, <1>2a, <1>2b, ZenonT(180) DEF Observation
<1>4. /\ obs'[o].at = "binding" /\ obs'[o].rev = obs[o].rev /\ obs'[o].got = obs[o].got
      /\ obs'[o].previous = bindings /\ obs'[o].left = left /\ obs'[o].rows = obs[o].rows
      /\ \A p \in Observers : p # o => obs'[p] = obs[p]
  BY <1>1, <1>2a DEF Observation
<1>5. /\ obs[o].at = "captured" /\ Under(o) /\ bindings' = NoMap
      /\ UNCHANGED <<revision, forgotten, acting>>
  BY DEF Rebuild, Under
<1>6. /\ acting.at = "idle"
      /\ \A p \in Observers : p # o => obs[p].at \notin {"captured", "binding", "minted"}
  BY <1>5, UnderAlone
<1>7. obs[o].got = NoMap /\ obs[o].rev = revision
  BY <1>5 DEF RefInv, OfRevision
<1>8. DOMAIN NoMap = {}
  BY DEF NoMap
<1>9. \A p \in Observers : AgreesWith(p, bindings)
  BY <1>5, <1>6 DEF RefInv, StoreAgrees
<1>10. \A p \in Observers : AgreesWith(p, obs[o].previous)'
  BY <1>4, <1>5, <1>9 DEF AgreesWith
<1>11. Rebinds(o)'
  BY <1>4, <1>5, <1>7, <1>8, <1>10 DEF Rebinds, BoundSoFar, left
<1>12. \A p \in Observers : OfRevision(p)' /\ (p # o => Rebinds(p)')
  BY <1>4, <1>5, <1>6, <1>7 DEF RefInv, OfRevision, Rebinds
<1>13. RefShape'
  BY <1>3, <1>5 DEF RefInv, RefShape
<1>14. OneCall'
  BY <1>4, <1>5, <1>6 DEF OneCall, Under
<1>15. StoreAgrees' /\ ActMeetsItsNode'
  BY <1>4, <1>5, <1>6 DEF RefInv, StoreAgrees, ActMeetsItsNode, ReferencesStayBound
<1>. QED BY <1>5, <1>8, <1>11, <1>12, <1>13, <1>14, <1>15 DEF RefInv

\* Binding a row leaves everything but the observation and the store as it was.
LEMMA StillBinding ==
  ASSUME RefInv, NEW o \in Observers, obs[o].at = "binding", obs'[o].at = "binding",
         obs'[o].rev = obs[o].rev, obs'[o].previous = obs[o].previous,
         \A p \in Observers : p # o => obs'[p] = obs[p],
         RefShape', BoundSoFar(o)', UNCHANGED <<revision, forgotten, acting>>
  PROVE  RefInv'
<1>1. /\ acting.at = "idle"
      /\ \A p \in Observers : p # o => obs[p].at \notin {"captured", "binding", "minted"}
  BY UnderAlone DEF Under
<1>2. \A p \in Observers : AgreesWith(p, obs[o].previous)
  BY DEF RefInv, Rebinds
<1>3. \A p \in Observers : AgreesWith(p, obs[o].previous)'
  BY <1>2 DEF AgreesWith
<1>4. \A p \in Observers : OfRevision(p)' /\ Rebinds(p)'
  BY <1>1, <1>3 DEF RefInv, OfRevision, Rebinds
<1>5. OneCall' /\ StoreAgrees' /\ ActMeetsItsNode'
  BY <1>1 DEF OneCall, Under, StoreAgrees, ActMeetsItsNode, ReferencesStayBound
<1>6. \A r \in DOMAIN bindings' : r = Ref(revision', r[2])
  BY DEF BoundSoFar, Ref
<1>. QED BY <1>4, <1>5, <1>6 DEF RefInv

LEMMA BindRowKeeps ==
  ASSUME RefInv, NEW o \in Observers, NEW i \in obs[o].left, BindRow(o, i) PROVE RefInv'
<1>1. PICK S : obs \in [Observers -> Observation(S)]
  BY DEF RefInv, RefShape
<1>2. obs[o].at = "binding" /\ UNCHANGED <<revision, forgotten, acting>>
  BY DEF BindRow
<1>3. obs[o].rev = revision /\ BoundSoFar(o)
  BY <1>2 DEF RefInv, OfRevision, Rebinds
<1>. DEFINE n == NodeOf(o, i)
            left == obs[o].left \ {i}
<1>4. CASE n = NoElement
  <2>. DEFINE T == S \union {left}
  <2>1. obs' = [obs EXCEPT ![o].left = left] /\ bindings' = bindings
    BY <1>4 DEF BindRow
  <2>2. obs' \in [Observers -> Observation(T)]
    BY <1>1, <2>1 DEF Observation
  <2>3. /\ obs'[o].at = obs[o].at /\ obs'[o].rev = obs[o].rev /\ obs'[o].left = left
        /\ obs'[o].previous = obs[o].previous /\ obs'[o].changed = obs[o].changed
        /\ obs'[o].got = obs[o].got /\ obs'[o].rows = obs[o].rows
        /\ \A p \in Observers : p # o => obs'[p] = obs[p]
    BY <1>1, <2>1 DEF Observation
  <2>4. BoundSoFar(o)'
    BY <1>2, <1>3, <2>1, <2>3 DEF BoundSoFar
  <2>5. RefShape'
    BY <1>2, <2>2 DEF RefInv, RefShape
  <2>. QED BY <1>2, <2>3, <2>4, <2>5, StillBinding
<1>5. CASE n # NoElement
  <2>. DEFINE got == With(obs[o].got, i, n)
              changed == obs[o].changed \/ ~SameAsBefore(o, i, n)
              binding == [by |-> o, node |-> n, nth |-> Ordinal(obs[o].rows, i),
                          altered |-> n \in altered]
              T == S \union {left, got}
  <2>1. /\ obs' = [obs EXCEPT ![o].left = left, ![o].got = got, ![o].changed = changed]
        /\ bindings' = With(bindings, Ref(obs[o].rev, i), binding)
    BY <1>5 DEF BindRow
  <2>2. /\ changed \in BOOLEAN /\ binding.node = n
        /\ ~changed => ~obs[o].changed /\ SameAsBefore(o, i, n)
    BY <1>1 DEF Observation
  <2>. HIDE DEF n, left, got, changed, binding
  <2>3. obs' \in [Observers -> Observation(T)]
    <3>1. obs \in [Observers -> Observation(T)] /\ left \in T /\ got \in T
      BY <1>1 DEF Observation
    <3>. HIDE DEF T
    <3>. QED BY <2>1, <2>2, <3>1, ZenonT(120) DEF Observation
  <2>4. /\ obs'[o].at = obs[o].at /\ obs'[o].rev = obs[o].rev /\ obs'[o].left = left
        /\ obs'[o].previous = obs[o].previous /\ obs'[o].changed = changed
        /\ obs'[o].got = got /\ obs'[o].rows = obs[o].rows
        /\ \A p \in Observers : p # o => obs'[p] = obs[p]
    BY <1>1, <2>1 DEF Observation
  <2>5. /\ DOMAIN got = DOMAIN obs[o].got \union {i} /\ got[i] = n
        /\ \A j \in DOMAIN obs[o].got : j # i => got[j] = obs[o].got[j]
    BY DEF With, got
  <2>6. /\ DOMAIN bindings' = DOMAIN bindings \union {Ref(revision, i)}
        /\ bindings'[Ref(revision, i)].node = n
        /\ \A r \in DOMAIN bindings : r # Ref(revision, i) => bindings'[r] = bindings[r]
    BY <1>3, <2>1, <2>2 DEF With
  <2>7. \A j : Ref(revision, j) = Ref(revision, i) => j = i
    BY DEF Ref
  <2>8. ~changed /\ Ref(revision, i) \in DOMAIN obs[o].previous =>
          obs[o].previous[Ref(revision, i)].node = n
    BY <1>3, <2>2 DEF SameAsBefore
  <2>9. DOMAIN bindings' = {Ref(revision', j) : j \in DOMAIN obs'[o].got}
    BY <1>2, <1>3, <2>4, <2>5, <2>6 DEF BoundSoFar
  <2>10. ASSUME NEW j \in DOMAIN got
         PROVE  /\ bindings'[Ref(revision, j)].node = got[j]
                /\ ~changed /\ Ref(revision, j) \in DOMAIN obs[o].previous =>
                     obs[o].previous[Ref(revision, j)].node = got[j]
    <3>1. CASE j = i
      BY <3>1, <2>5, <2>6, <2>8
    <3>2. CASE j # i
      <4>1. j \in DOMAIN obs[o].got /\ Ref(revision, j) # Ref(revision, i)
        BY <3>2, <2>5, <2>7
      <4>2. Ref(revision, j) \in DOMAIN bindings
        BY <4>1, <1>3 DEF BoundSoFar
      <4>. QED BY <3>2, <4>1, <4>2, <1>3, <2>2, <2>5, <2>6 DEF BoundSoFar
    <3>. QED BY <3>1, <3>2
  <2>11. /\ DOMAIN got \subseteq 1 .. Len(obs[o].rows) /\ left \subseteq 1 .. Len(obs[o].rows)
    BY <1>3, <2>5 DEF BoundSoFar, left
  <2>12. BoundSoFar(o)'
    BY <1>2, <2>4, <2>9, <2>10, <2>11 DEF BoundSoFar
  <2>13. RefShape'
    BY <1>2, <2>3 DEF RefInv, RefShape
  <2>. QED BY <1>2, <2>4, <2>12, <2>13, StillBinding
<1>. QED BY <1>4, <1>5

\* After a change every reference of before is of an older revision; without one
\* those that were bound again name the nodes they named.
LEMMA MintKeeps ==
  ASSUME RefInv, NEW o \in Observers, Mint(o) PROVE RefInv'
<1>1. PICK S : obs \in [Observers -> Observation(S)]
  BY DEF RefInv, RefShape
<1>2. obs[o].at = "binding" /\ Under(o) /\ acting' = acting
  BY DEF Mint, Under
<1>3. /\ acting.at = "idle"
      /\ \A p \in Observers : p # o => obs[p].at \notin {"captured", "binding", "minted"}
  BY <1>2, UnderAlone
<1>4. obs[o].rev = revision /\ BoundSoFar(o) /\ revision \in Nat
  BY <1>2 DEF RefInv, OfRevision, Rebinds, RefShape
<1>. DEFINE changed == obs[o].changed
            next == IF changed THEN revision + 1 ELSE revision
            T == S \union {"minted", next}
<1>5. /\ obs' = [obs EXCEPT ![o].at = "minted", ![o].minted = next]
      /\ revision' = next
  BY <1>4 DEF Mint
<1>. HIDE DEF next
<1>6. obs' \in [Observers -> Observation(T)]
  <2>1. obs \in [Observers -> Observation(T)] /\ "minted" \in T /\ next \in T
    BY <1>1 DEF Observation
  <2>. HIDE DEF T
  <2>. QED BY <1>5, <2>1, ZenonT(60) DEF Observation
<1>7. /\ obs'[o].at = "minted" /\ obs'[o].minted = next /\ obs'[o].got = obs[o].got
      /\ \A p \in Observers : p # o => obs'[p] = obs[p]
  BY <1>1, <1>5 DEF Observation
<1>8. /\ AgreesWith(o, bindings)'
      /\ \A r \in DOMAIN bindings' : r = Ref(next, r[2])
  <2>1. CASE changed
    <3>1. next = revision + 1
      BY <2>1 DEF next
    <3>2. bindings' = [r \in {Ref(next, i) :
                                i \in {j \in 1 .. Len(obs[o].rows) :
                                        Ref(revision, j) \in DOMAIN bindings}}
                        |-> bindings[Ref(revision, r[2])]]
      BY <1>4, <2>1, <3>1 DEF Mint
    <3>3. \A i : Ref(next, i)[2] = i
      BY DEF Ref
    <3>4. ASSUME NEW i \in DOMAIN obs[o].got
          PROVE  /\ Ref(next, i) \in DOMAIN bindings'
                 /\ bindings'[Ref(next, i)].node = obs[o].got[i]
      BY <1>4, <3>2, <3>3 DEF BoundSoFar
    <3>. QED BY <1>5, <1>7, <3>2, <3>3, <3>4 DEF AgreesWith
  <2>2. CASE ~changed
    <3>1. next = revision
      BY <2>2 DEF next
    <3>2. /\ DOMAIN bindings' = DOMAIN bindings
          /\ \A r \in DOMAIN bindings : bindings'[r] = bindings[r]
      BY <2>2 DEF Mint
    <3>3. \A r \in DOMAIN bindings : r = Ref(revision, r[2])
      BY DEF RefInv
    <3>4. ASSUME NEW i \in DOMAIN obs[o].got
          PROVE  /\ Ref(next, i) \in DOMAIN bindings'
                 /\ bindings'[Ref(next, i)].node = obs[o].got[i]
      BY <1>4, <3>1, <3>2 DEF BoundSoFar
    <3>5. AgreesWith(o, bindings)'
      BY <1>5, <1>7, <3>4 DEF AgreesWith
    <3>. QED BY <3>1, <3>2, <3>3, <3>5
  <2>. QED BY <2>1, <2>2
<1>9. ASSUME NEW p \in Observers, p # o PROVE AgreesWith(p, bindings)'
  <2>1. CASE changed
    <3>1. next = revision + 1
      BY <2>1 DEF next
    <3>2. obs[p].at = "answered" => obs[p].minted \in Nat /\ obs[p].minted <= revision
      BY DEF RefInv, OfRevision
    <3>3. obs[p].at = "answered" => obs[p].minted # next
      BY <1>4, <3>1, <3>2
    <3>4. obs'[p] = obs[p] /\ obs[p].at # "minted" /\ revision' = next
      BY <1>3, <1>5, <1>7, <1>9
    <3>. QED BY <3>3, <3>4 DEF AgreesWith
  <2>2. CASE ~changed
    <3>1. next = revision
      BY <2>2 DEF next
    <3>2. /\ DOMAIN bindings' = DOMAIN bindings
          /\ \A r \in DOMAIN bindings : bindings'[r] = bindings[r]
          /\ forgotten' = forgotten \union (DOMAIN obs[o].previous \ DOMAIN bindings)
      BY <2>2 DEF Mint
    <3>3. AgreesWith(p, obs[o].previous)
      BY <1>2 DEF RefInv, Rebinds
    <3>4. ASSUME obs[p].minted = revision, obs[p].at = "answered",
                 NEW i \in DOMAIN obs[p].got, Ref(revision, i) \notin forgotten'
          PROVE  /\ Ref(revision, i) \in DOMAIN bindings
                 /\ bindings[Ref(revision, i)].node = obs[p].got[i]
      <4>1. /\ Ref(revision, i) \in DOMAIN obs[o].previous
            /\ obs[o].previous[Ref(revision, i)].node = obs[p].got[i]
        BY <3>2, <3>3, <3>4 DEF AgreesWith
      <4>2. Ref(revision, i) \in DOMAIN bindings
        BY <3>2, <3>4, <4>1
      <4>3. PICK j \in DOMAIN obs[o].got : Ref(revision, i) = Ref(revision, j)
        BY <1>4, <4>2 DEF BoundSoFar
      <4>. QED BY <1>4, <2>2, <4>1, <4>2, <4>3 DEF BoundSoFar
    <3>. QED BY <1>3, <1>5, <1>7, <1>9, <3>1, <3>2, <3>4 DEF AgreesWith
  <2>. QED BY <2>1, <2>2
<1>10. StoreAgrees'
  BY <1>8, <1>9 DEF StoreAgrees
<1>11. next \in Nat /\ revision <= next
  <2>1. next \in {revision, revision + 1}
    BY DEF next
  <2>. QED BY <1>4, <2>1
<1>12. \A p \in Observers : OfRevision(p)' /\ Rebinds(p)'
  <2>1. ASSUME NEW p \in Observers, p # o PROVE OfRevision(p)' /\ Rebinds(p)'
    <3>1. OfRevision(p)
      BY DEF RefInv
    <3>2. obs[p].at = "answered" => obs[p].minted \in Nat /\ obs[p].minted <= next
      BY <1>4, <1>11, <3>1 DEF OfRevision
    <3>3. /\ obs'[p] = obs[p] /\ revision' = next
          /\ obs[p].at \notin {"captured", "binding", "minted"}
      BY <1>3, <1>5, <1>7, <2>1
    <3>. QED BY <3>2, <3>3 DEF OfRevision, Rebinds
  <2>2. OfRevision(o)' /\ Rebinds(o)'
    BY <1>5, <1>7 DEF OfRevision, Rebinds
  <2>. QED BY <2>1, <2>2
<1>13. RefShape'
  <2>. HIDE DEF T
  <2>. QED BY <1>2, <1>5, <1>6, <1>11 DEF RefInv, RefShape
<1>14. OneCall' /\ ActMeetsItsNode'
  BY <1>2, <1>3, <1>7 DEF OneCall, Under, ActMeetsItsNode, ReferencesStayBound
<1>. QED BY <1>5, <1>8, <1>10, <1>12, <1>13, <1>14 DEF RefInv

LEMMA AnswersKeeps ==
  ASSUME RefInv, NEW o \in Observers, Answers(o) PROVE RefInv'
<1>1. PICK S : obs \in [Observers -> Observation(S)]
  BY DEF RefInv, RefShape
<1>. DEFINE answer == TheAnswer(o)
            T == S \union {"answered", FALSE, 0, <<>>, NoMap, {}}
<1>2. /\ obs[o].at = "minted" /\ Under(o) /\ obs' = [obs EXCEPT ![o] = answer]
      /\ UNCHANGED <<revision, bindings, forgotten, acting>>
  BY DEF Answers, Under, refs
<1>3. /\ answer.at = "answered" /\ answer.minted = obs[o].minted /\ answer.got = obs[o].got
       /\ answer \in Observation(T)
  BY <1>1 DEF TheAnswer, NotObserved, Observation
<1>. HIDE DEF answer
<1>4. /\ acting.at = "idle"
      /\ \A p \in Observers : p # o => obs[p].at \notin {"captured", "binding", "minted"}
  BY <1>2, UnderAlone
<1>5. obs' \in [Observers -> Observation(T)]
  BY ZenonT(60), <1>1, <1>2, <1>3 DEF Observation
<1>6. /\ obs'[o].at = "answered" /\ obs'[o].minted = obs[o].minted /\ obs'[o].got = obs[o].got
      /\ \A p \in Observers : p # o => obs'[p] = obs[p]
  BY <1>1, <1>2, <1>3
<1>7. \A p \in Observers : AgreesWith(p, bindings)
  BY <1>2, <1>4 DEF RefInv, StoreAgrees
<1>8. StoreAgrees'
  BY <1>2, <1>6, <1>7 DEF StoreAgrees, AgreesWith
<1>9. revision \in Nat /\ RefShape'
  <2>. HIDE DEF T
  <2>. QED BY <1>2, <1>5 DEF RefInv, RefShape
<1>10. \A p \in Observers : OfRevision(p)' /\ Rebinds(p)'
  BY <1>2, <1>4, <1>6, <1>9 DEF RefInv, OfRevision, Rebinds
<1>11. OneCall' /\ ActMeetsItsNode'
  BY <1>2, <1>4, <1>6 DEF OneCall, Under, ActMeetsItsNode, ReferencesStayBound
<1>. QED BY <1>2, <1>8, <1>9, <1>10, <1>11 DEF RefInv

\* When the revision moves on with nobody observing, nothing is bound and every
\* answer is of an older revision.
LEMMA BumpKeeps ==
  ASSUME RefInv, bumpRevision, UNCHANGED forgotten, RefShape',
         \A o \in Observers :
           \/ obs'[o].at = "failed"
           \/ obs'[o] = obs[o] /\ obs[o].at \notin {"captured", "binding", "minted"},
         acting'.at \notin {"resolving", "resolved"}, ReferencesStayBound'
  PROVE  RefInv'
<1>1. revision \in Nat /\ revision' = revision + 1 /\ DOMAIN bindings' = {}
  BY DEF bumpRevision, NoMap, RefInv, RefShape
<1>2. \A o \in Observers : OfRevision(o)
  BY DEF RefInv
<1>3. \A o \in Observers : OfRevision(o)' /\ AgreesWith(o, bindings)' /\ Rebinds(o)'
  BY <1>1, <1>2 DEF OfRevision, AgreesWith, Rebinds
<1>4. OneCall' /\ StoreAgrees' /\ ActMeetsItsNode'
  BY <1>3 DEF OneCall, Under, StoreAgrees, ActMeetsItsNode
<1>. QED BY <1>1, <1>3, <1>4 DEF RefInv

LEMMA ObserveFailsKeeps ==
  ASSUME RefInv, NEW o \in Observers, ObserveFails(o) PROVE RefInv'
<1>1. PICK S : obs \in [Observers -> Observation(S)]
  BY DEF RefInv, RefShape
<1>. DEFINE failed == [NotObserved EXCEPT !.at = "failed"]
            T == S \union {"failed", FALSE, 0, <<>>, NoMap, {}}
<1>2. failed.at = "failed" /\ failed \in Observation(T)
  BY DEF NotObserved, Observation
<1>. HIDE DEF failed
<1>3. /\ Under(o) /\ obs' = [obs EXCEPT ![o] = failed] /\ bumpRevision
      /\ UNCHANGED <<forgotten, acting>>
  BY DEF ObserveFails, failed
<1>4. obs' \in [Observers -> Observation(T)]
  BY <1>1, <1>2, <1>3 DEF Observation
<1>5. /\ acting.at = "idle"
      /\ \A p \in Observers : p # o => obs[p].at \notin {"captured", "binding", "minted"}
  BY <1>3, UnderAlone
<1>6. RefShape'
  <2>. HIDE DEF T
  <2>. QED BY <1>3, <1>4 DEF RefInv, RefShape, bumpRevision
<1>7. obs'[o].at = "failed" /\ \A p \in Observers : p # o => obs'[p] = obs[p]
  BY <1>1, <1>2, <1>3
<1>. QED BY <1>3, <1>5, <1>6, <1>7, BumpKeeps DEF ReferencesStayBound

\* A step of an act that moves nothing: it only has to keep its own promise.
LEMMA ActGoesOn ==
  ASSUME RefInv, \A o \in Observers : ~Under(o), UNCHANGED <<revision, bindings, obs, forgotten>>,
         \E S : acting' \in ActOnRef(S), ActMeetsItsNode'
  PROVE  RefInv'
<1>1. RefShape' /\ OneCall'
  BY DEF RefInv, RefShape, OneCall, Under
<1>2. \A o \in Observers : obs[o].at # "binding"
  BY DEF Under
<1>3. \A o \in Observers : OfRevision(o)' /\ Rebinds(o)'
  BY <1>2 DEF RefInv, OfRevision, Rebinds
<1>4. StoreAgrees'
  BY DEF RefInv, StoreAgrees, AgreesWith
<1>. QED BY <1>1, <1>3, <1>4 DEF RefInv

LEMMA NoActShape ==
  /\ NoAct.at = "idle"
  /\ \E S : NoAct \in ActOnRef(S)
<1>. DEFINE T == {"idle", <<>>, NoElement}
<1>1. NoAct \in ActOnRef(T)
  BY DEF NoAct, ActOnRef
<1>. QED BY <1>1 DEF NoAct

LEMMA ActStartsKeeps ==
  ASSUME RefInv, ~Concurrent, NEW o \in Observers, NEW i \in DOMAIN obs[o].got, ActStarts(o, i)
  PROVE  RefInv'
<1>. DEFINE ref == Ref(obs[o].minted, i)
            started == [at |-> "resolving", ref |-> ref, meant |-> obs[o].got[i],
                        bound |-> bindings[ref], hit |-> NoElement]
            T == {"resolving", ref, obs[o].got[i], bindings[ref], NoElement}
<1>1. /\ \A p \in Observers : ~Under(p)
      /\ obs[o].at = "answered" /\ UNCHANGED <<revision, bindings, obs, forgotten>>
      /\ acting' = IF ref \in refStore /\ ref \in DOMAIN bindings THEN started ELSE NoAct
  BY DEF ActStarts, Alone, refs
<1>2. CASE ref \in refStore /\ ref \in DOMAIN bindings
  <2>1. acting' = started /\ started \in ActOnRef(T)
    BY <1>1, <1>2 DEF ActOnRef
  <2>2. ref = Ref(revision, ref[2])
    BY <1>2 DEF RefInv
  <2>3. obs[o].minted = revision
    BY <2>2 DEF Ref
  <2>4. AgreesWith(o, bindings)
    BY <1>1 DEF RefInv, StoreAgrees, Under
  <2>5. ref \notin forgotten => bindings[ref].node = obs[o].got[i]
    BY <1>1, <2>3, <2>4 DEF AgreesWith
  <2>6. ActMeetsItsNode'
    BY <1>1, <1>2, <2>1, <2>5 DEF ActMeetsItsNode, ReferencesStayBound
  <2>. QED BY <1>1, <2>1, <2>6, ActGoesOn
<1>3. CASE ~(ref \in refStore /\ ref \in DOMAIN bindings)
  <2>1. acting' = NoAct
    BY <1>1, <1>3
  <2>2. ActMeetsItsNode'
    BY <2>1, NoActShape DEF ActMeetsItsNode, ReferencesStayBound
  <2>. QED BY <1>1, <2>1, <2>2, NoActShape, ActGoesOn
<1>. QED BY <1>2, <1>3

LEMMA ActNotUnder ==
  ASSUME RefInv, acting.at # "idle" PROVE \A o \in Observers : ~Under(o)
BY DEF RefInv, OneCall

LEMMA ActResolvesKeeps ==
  ASSUME RefInv, ActResolves PROVE RefInv'
<1>1. /\ acting.at = "resolving" /\ UNCHANGED <<revision, bindings, obs, forgotten>>
      /\ acting' = IF StillHolds(acting.bound) THEN [acting EXCEPT !.at = "resolved"] ELSE NoAct
  BY DEF ActResolves, refs
<1>2. \A o \in Observers : ~Under(o)
  BY <1>1, ActNotUnder
<1>3. PICK S : acting \in ActOnRef(S)
  BY DEF RefInv, RefShape
<1>4. CASE acting' = [acting EXCEPT !.at = "resolved"]
  <2>. DEFINE T == S \union {"resolved"}
  <2>1. /\ acting' \in ActOnRef(T) /\ acting'.at = "resolved" /\ acting'.ref = acting.ref
        /\ acting'.meant = acting.meant
    BY <1>3, <1>4 DEF ActOnRef
  <2>2. ActMeetsItsNode'
    BY <1>1, <2>1 DEF RefInv, ActMeetsItsNode, ReferencesStayBound
  <2>. QED BY <1>1, <1>2, <2>1, <2>2, ActGoesOn
<1>5. CASE acting' = NoAct
  BY <1>1, <1>2, <1>5, NoActShape, ActGoesOn DEF ActMeetsItsNode, ReferencesStayBound
<1>. QED BY <1>1, <1>4, <1>5

\* What an input reaches is what its reference is bound to.
LEMMA HitsTheNode ==
  ASSUME RefInv, acting.at = "resolved", Reached # {}, Hits, UNCHANGED forgotten
  PROVE  /\ \E S : acting' \in ActOnRef(S)
         /\ acting'.at = "done" /\ ReferencesStayBound'
<1>1. PICK S : acting \in ActOnRef(S)
  BY DEF RefInv, RefShape
<1>. DEFINE hit == CHOOSE n \in Reached : TRUE
            T == S \union {"done", hit}
<1>2. acting.ref \in DOMAIN bindings /\ hit = bindings[acting.ref].node
  <2>1. hit \in Reached
    OBVIOUS
  <2>. QED BY <2>1 DEF Reached, locatorFor
<1>3. acting' = [acting EXCEPT !.at = "done", !.hit = hit]
  BY DEF Hits
<1>. HIDE DEF hit
<1>4. /\ acting' \in ActOnRef(T) /\ acting'.at = "done" /\ acting'.hit = hit
      /\ acting'.ref = acting.ref /\ acting'.meant = acting.meant
  BY <1>1, <1>3 DEF ActOnRef
<1>5. ReferencesStayBound'
  BY <1>2, <1>4 DEF RefInv, ActMeetsItsNode, ReferencesStayBound
<1>. QED BY <1>4, <1>5

LEMMA InputKeepsRefs ==
  ASSUME RefInv, acting.at = "resolved", Reached # {}, Hits, MovesOn \/ StaysOn,
         UNCHANGED <<obs, forgotten>>
  PROVE  RefInv'
<1>1. \A o \in Observers : ~Under(o)
  BY ActNotUnder
<1>2. /\ \E S : acting' \in ActOnRef(S)
      /\ acting'.at = "done" /\ ReferencesStayBound'
  BY HitsTheNode
<1>3. CASE MovesOn
  <2>1. bumpRevision /\ RefShape'
    BY <1>2, <1>3 DEF MovesOn, bumpRevision, RefInv, RefShape
  <2>. QED BY <1>1, <1>2, <2>1, BumpKeeps DEF Under
<1>4. CASE StaysOn
  BY <1>1, <1>2, <1>4, ActGoesOn DEF StaysOn, refs, ActMeetsItsNode
<1>. QED BY <1>3, <1>4

LEMMA ActStopsKeeps ==
  ASSUME RefInv, acting.at # "idle", acting' = NoAct,
         UNCHANGED <<revision, bindings, obs, forgotten>>
  PROVE  RefInv'
BY ActNotUnder, NoActShape, ActGoesOn DEF ActMeetsItsNode, ReferencesStayBound

LEMMA NavigatesKeeps ==
  ASSUME RefInv, ~Concurrent, Navigates PROVE RefInv'
<1>1. /\ \A o \in Observers : ~Under(o)
      /\ acting.at = "idle" /\ bumpRevision /\ UNCHANGED <<obs, forgotten, acting>>
  BY DEF Navigates, Alone
<1>2. RefShape'
  BY <1>1 DEF RefInv, RefShape, bumpRevision
<1>. QED BY <1>1, <1>2, BumpKeeps DEF Under, ReferencesStayBound

\* With calls of one page that do not overlap, every reachable state is of RefInv.
THEOREM RefInvariant ==
  ASSUME ~Concurrent PROVE RefSpec => []RefInv
<1>1. RefInv /\ [RefNext]_refVars => RefInv'
  <2>. SUFFICES ASSUME RefInv, [RefNext]_refVars PROVE RefInv'
    OBVIOUS
  <2>1. CASE Insert \/ RemoveNode \/ Alter \/ Moves
    BY <2>1, PageKeepsRefs DEF Insert, RemoveNode, Alter, Moves, refs
  <2>2. CASE Observes
    BY <2>2, SnapshotsKeeps, RebuildKeeps, MintKeeps, AnswersKeeps, ObserveFailsKeeps,
       BindRowKeeps DEF Observes
  <2>3. CASE Clicks \/ Writes \/ Uploads \/ Hovers
    BY <2>3, InputKeepsRefs DEF Clicks, Writes, Uploads, Hovers
  <2>4. CASE Refuses \/ ActEnds
    BY <2>4, ActStopsKeeps DEF Refuses, GivesUp, StaysOn, ActEnds, refs
  <2>5. CASE ActResolves \/ Navigates
    BY <2>5, ActResolvesKeeps, NavigatesKeeps
  <2>6. ASSUME NEW o \in Observers, NEW i \in DOMAIN obs[o].got, ActStarts(o, i) PROVE RefInv'
    BY <2>6, ActStartsKeeps
  <2>7. CASE UNCHANGED refVars
    BY <2>7, PageKeepsRefs DEF refVars, refs
  <2>. QED BY <2>1, <2>2, <2>3, <2>4, <2>5, <2>6, <2>7 DEF RefNext, ActSteps
<1>. QED BY <1>1, RefInitHolds, PTL DEF RefSpec

\* An input reaches the node its reference was answered for, unless an observation that
\* found no change left the reference unbound in between.
THEOREM ReferencesBound ==
  ASSUME ~Concurrent PROVE RefSpec => []ReferencesStayBound
<1>1. RefInv => ReferencesStayBound
  BY DEF RefInv, ActMeetsItsNode
<1>. QED BY <1>1, RefInvariant, PTL

-----------------------------------------------------------------------------
(* The pages of a session (SessionPages).                                  *)

RegistryTypeOK ==
  /\ raw \in [Pages -> {"none", "open", "closed"}]
  /\ work \in [Pages -> {"no", "opening", "sizing", "asking", "announcing", "done"}]
  /\ pageMap \subseteq owned /\ owned \subseteq Pages /\ DOMAIN held = Pages
\* A page that is open is in the registry, or its newPage will still see it; and what left
\* the registry was closed, with what it held.
RegistryInv ==
  /\ RegistryTypeOK
  /\ \A p \in Made : raw[p] = "open" => p \in pageMap \/ work[p] = "sizing"
  /\ \A p \in owned \ pageMap : raw[p] = "closed"
  /\ \A p \in Pages \ pageMap : held[p] = <<>>
  /\ sessionAt = "closed" => pageMap = {}

LEMMA RegistryInitHolds == RegistryInit => RegistryInv
BY DEF RegistryInit, RegistryInv, RegistryTypeOK, Pages

LEMMA NewPagesKeep ==
  ASSUME RegistryInv, NEW p \in Pages, NEW ok \in BOOLEAN,
         NewPage(p) \/ PageOpens(p, ok) \/ PageRegisters(p)
  PROVE  RegistryInv'
<1>1. CASE NewPage(p)
  BY <1>1 DEF NewPage, Goes, fileVars, RegistryInv, RegistryTypeOK, Pages
<1>2. CASE PageOpens(p, ok)
  BY <1>2 DEF PageOpens, Goes, fileVars, RegistryInv, RegistryTypeOK, Pages
<1>3. CASE PageRegisters(p)
  BY <1>3 DEF PageRegisters, Registers, Closed, Goes, fileVars, RegistryInv, RegistryTypeOK, Pages
<1>. QED BY <1>1, <1>2, <1>3

LEMMA PopupsKeep ==
  ASSUME RegistryInv, NEW p \in Pages, NEW by \in Pages,
         PopupOpens(p, by) \/ OpenerAnswers(p) \/ Announces(p)
  PROVE  RegistryInv'
<1>1. CASE PopupOpens(p, by)
  BY <1>1, RegistryAssumption DEF PopupOpens, Goes, fileVars, RegistryInv, RegistryTypeOK, Pages
<1>2. CASE OpenerAnswers(p)
  BY <1>2 DEF OpenerAnswers, Closed, Goes, fileVars, RegistryInv, RegistryTypeOK, Pages
<1>3. CASE Announces(p)
  BY <1>3 DEF Announces, Leaves, Goes, RegistryInv, RegistryTypeOK, Pages
<1>. QED BY <1>1, <1>2, <1>3

\* Downloads change what is held for pages of the registry only.
LEMMA FilesStay ==
  ASSUME RegistryInv, UNCHANGED <<raw, owned, pageMap, work, sessionAt>>,
         DOMAIN held' = DOMAIN held,
         \A q \in Pages \ pageMap : held'[q] = held[q]
  PROVE  RegistryInv'
BY DEF RegistryInv, RegistryTypeOK, Pages

LEMMA FilesKeep ==
  ASSUME RegistryInv, NEW f \in Files,
         \/ \E p \in Pages, size \in DownloadSizes : DownloadStarts(f, p, size)
         \/ DownloadRead(f) \/ DownloadHeld(f) \/ DownloadFails(f)
  PROVE  RegistryInv'
<1>1. CASE \/ \E p \in Pages, size \in DownloadSizes : DownloadStarts(f, p, size)
           \/ DownloadRead(f) \/ DownloadFails(f)
  BY <1>1, FilesStay DEF DownloadStarts, DownloadRead, DownloadFails
<1>2. CASE DownloadHeld(f)
  BY <1>2, FilesStay DEF DownloadHeld, RegistryInv, RegistryTypeOK
<1>. QED BY <1>1, <1>2

LEMMA TakeKeeps ==
  ASSUME RegistryInv, NEW p \in Pages, NEW i \in 1 .. MaxEntries, TakeDownload(p, i)
  PROVE  RegistryInv'
<1>1. held[p] # <<>>
  BY DEF TakeDownload
<1>. QED BY <1>1, FilesStay DEF TakeDownload, RegistryInv, RegistryTypeOK

LEMMA EndsKeep ==
  ASSUME RegistryInv, SessionCloses \/ SessionDisposed \/ \E p \in Pages : PageEnds(p)
  PROVE  RegistryInv'
<1>1. CASE SessionCloses
  BY <1>1 DEF SessionCloses, fileVars, RegistryInv, RegistryTypeOK, Pages
<1>2. CASE SessionDisposed
  BY <1>2 DEF SessionDisposed, ToClose, RegistryInv, RegistryTypeOK, Pages
<1>3. ASSUME NEW p \in Pages, PageEnds(p) PROVE RegistryInv'
  <2>1. CASE p \in pageMap
    BY <1>3, <2>1 DEF PageEnds, Leaves, RegistryInv, RegistryTypeOK, Pages
  <2>2. CASE p \notin pageMap
    BY <1>3, <2>2 DEF PageEnds, RegistryInv, RegistryTypeOK, Pages
  <2>. QED BY <2>1, <2>2
<1>. QED BY <1>1, <1>2, <1>3

\* Every reachable state is of RegistryInv.
THEOREM RegistryInvariant == RegistrySpec => []RegistryInv
<1>1. RegistryInv /\ [RegistryNext]_registryVars => RegistryInv'
  <2>. SUFFICES ASSUME RegistryInv, [RegistryNext]_registryVars PROVE RegistryInv'
    OBVIOUS
  <2>1. ASSUME NEW p \in Pages,
               \/ NewPage(p) \/ PageRegisters(p) \/ \E ok \in BOOLEAN : PageOpens(p, ok)
        PROVE  RegistryInv'
    BY <2>1, NewPagesKeep
  <2>2. ASSUME NEW p \in Pages,
               \/ \E by \in Pages : PopupOpens(p, by)
               \/ OpenerAnswers(p) \/ Announces(p)
        PROVE  RegistryInv'
    BY <2>2, PopupsKeep
  <2>3. ASSUME NEW p \in Pages, \E i \in 1 .. MaxEntries : TakeDownload(p, i)
        PROVE  RegistryInv'
    BY <2>3, TakeKeeps
  <2>4. ASSUME NEW f \in Files,
               \/ \E p \in Pages, size \in DownloadSizes : DownloadStarts(f, p, size)
               \/ DownloadRead(f) \/ DownloadHeld(f) \/ DownloadFails(f)
        PROVE  RegistryInv'
    BY <2>4, FilesKeep
  <2>5. CASE UNCHANGED registryVars
    BY <2>5 DEF registryVars, fileVars, RegistryInv, RegistryTypeOK, Pages
  <2>. QED BY <2>1, <2>2, <2>3, <2>4, <2>5, EndsKeep DEF RegistryNext
<1>. QED BY <1>1, RegistryInitHolds, PTL DEF RegistrySpec

\* A closed session with nothing under way left no page of its own open, and nothing is
\* held for a page that is gone, for any pages and downloads.
THEOREM PagesAccounted == RegistrySpec => []PagesAreAccounted
<1>1. RegistryInv => PagesAreAccounted
  BY DEF RegistryInv, RegistryTypeOK, PagesAreAccounted, NothingLeftBehind, Pages
<1>. QED BY <1>1, RegistryInvariant, PTL

-----------------------------------------------------------------------------
(* What is held for a page (SessionPages). Totals is a recursion over the  *)
(* entries; what it adds up to is shown by induction on their number, of a *)
(* set of numbers (AllUpTo).                                               *)

\* A set of numbers has a least.
LEMMA LeastExists ==
  ASSUME NEW S \in SUBSET Nat, S # {}
  PROVE  \E x \in S : \A y \in S : x =< y
<1> DEFINE T == {0 .. x : x \in S}
<1>0. \A x \in S : 0 .. x \in FiniteSubsetsOf(Nat)
  <2> SUFFICES ASSUME NEW x \in S PROVE 0 .. x \in FiniteSubsetsOf(Nat)
    OBVIOUS
  <2>1. x \in Int /\ 0 .. x \subseteq Nat
    OBVIOUS
  <2>2. IsFiniteSet(0 .. x)
    BY <2>1, FS_Interval
  <2> QED BY <2>1, <2>2 DEF FiniteSubsetsOf
<1>1. T \subseteq FiniteSubsetsOf(Nat) /\ T # {}
  BY <1>0
<1>2. PICK I \in T : \A J \in T : ~(<<J, I>> \in StrictSubsetOrdering(Nat))
  BY <1>1, FS_StrictSubsetOrderingWellFounded, WFMin
<1>3. PICK x \in S : I = 0 .. x
  BY <1>2
<1>4. \A y \in S : x =< y
  <2> SUFFICES ASSUME NEW y \in S, y < x PROVE FALSE
    OBVIOUS
  <2>1. 0 .. y \in T /\ 0 .. y \subseteq 0 .. x /\ x \in 0 .. x /\ x \notin 0 .. y
    OBVIOUS
  <2>2. <<0 .. y, 0 .. x>> \in StrictSubsetOrdering(Nat)
    BY <2>1 DEF StrictSubsetOrdering
  <2> QED BY <1>2, <1>3, <2>1, <2>2
<1> QED BY <1>4

\* Induction, for a set: what has zero and every successor of its members is all there is.
LEMMA AllUpTo ==
  ASSUME NEW n \in Nat, NEW S \in SUBSET Nat, 0 \in S,
         \A i \in 0 .. n - 1 : i \in S => i + 1 \in S
  PROVE  \A i \in 0 .. n : i \in S
<1>. DEFINE Missing == {i \in 0 .. n : i \notin S}
<1>. SUFFICES ASSUME Missing # {} PROVE FALSE
  OBVIOUS
<1>1. Missing \in SUBSET Nat
  OBVIOUS
<1>2. PICK m \in Missing : \A i \in Missing : m =< i
  <2>. HIDE DEF Missing
  <2>. QED BY <1>1, LeastExists
<1>3. m # 0 /\ m - 1 \in 0 .. n - 1
  OBVIOUS
<1>4. m - 1 \in S
  BY <1>2, <1>3
<1>5. m - 1 + 1 = m
  BY <1>3
<1>. QED BY <1>3, <1>4, <1>5

\* What is held for a page is a sequence of these.
HeldEntry == [file : Files, size : DownloadSizes]

\* A running total of the first n entries.
Adds(total, entries, n) ==
  /\ total \in [0 .. n -> Nat] /\ total[0] = 0
  /\ \A i \in 1 .. n : total[i] = total[i - 1] + entries[i].size

\* Sizes are numbers.
LEMMA SizesAdd ==
  ASSUME NEW s \in Seq(HeldEntry)
  PROVE  /\ Len(s) \in Nat
         /\ \A i \in 1 .. Len(s) : s[i].size \in DownloadSizes /\ s[i].size \in Nat
<1>1. ASSUME NEW i \in 1 .. Len(s) PROVE s[i].size \in DownloadSizes /\ s[i].size \in Nat
  <2>1. s[i] \in HeldEntry
    BY ElementOfSeq
  <2>2. s[i].size \in DownloadSizes
    BY <2>1 DEF HeldEntry
  <2>3. s[i].size \in 0 .. MaxBytes /\ MaxBytes \in Nat
    BY <2>2, RegistryAssumption
  <2>. QED BY <2>2, <2>3
<1>. QED BY <1>1

\* The totals of a sequence are what their recursion says.
LEMMA TotalsAdd ==
  ASSUME NEW s \in Seq(HeldEntry) PROVE Adds(Totals(s), s, Len(s))
<1>. DEFINE S == {n \in 0 .. Len(s) : \E g \in [0 .. n -> Nat] : Adds(g, s, n)}
<1>0. Len(s) \in Nat /\ \A i \in 1 .. Len(s) : s[i].size \in Nat
  BY SizesAdd
<1>1. 0 \in S
  <2>1. Adds([i \in 0 .. 0 |-> 0], s, 0)
    BY DEF Adds
  <2>. QED BY <2>1, <1>0
<1>2. ASSUME NEW n \in 0 .. Len(s) - 1, n \in S PROVE n + 1 \in S
  <2>1. PICK g \in [0 .. n -> Nat] : Adds(g, s, n)
    BY <1>2
  <2>. DEFINE h == [i \in 0 .. n + 1 |-> IF i = n + 1 THEN g[n] + s[n + 1].size ELSE g[i]]
  <2>2. h \in [0 .. n + 1 -> Nat]
    BY <1>0
  <2>3. h[0] = 0
    BY <2>1, <1>0 DEF Adds
  <2>4. ASSUME NEW i \in 1 .. n + 1 PROVE h[i] = h[i - 1] + s[i].size
    <3>1. CASE i = n + 1
      BY <3>1, <1>0
    <3>2. CASE i # n + 1
      BY <3>2, <2>1, <1>0 DEF Adds
    <3>. QED BY <3>1, <3>2
  <2>5. Adds(h, s, n + 1)
    <3>. HIDE DEF h
    <3>. QED BY <2>2, <2>3, <2>4 DEF Adds
  <2>6. n + 1 \in 0 .. Len(s)
    BY <1>0
  <2>. HIDE DEF h
  <2>. QED BY <2>2, <2>5, <2>6
<1>3. Len(s) \in S
  <2>. HIDE DEF S
  <2>1. S \in SUBSET Nat
    BY DEF S
  <2>2. \A i \in 0 .. Len(s) : i \in S
    BY <1>0, <1>1, <1>2, <2>1, AllUpTo
  <2>. QED BY <1>0, <2>2
<1>4. PICK g \in [0 .. Len(s) -> Nat] : Adds(g, s, Len(s))
  BY <1>3
<1>. DEFINE Recurs(total) ==
       total = [i \in 0 .. Len(s) |-> IF i = 0 THEN 0 ELSE total[i - 1] + s[i].size]
<1>5. Recurs(g)
  <2>. DEFINE w == [i \in 0 .. Len(s) |-> IF i = 0 THEN 0 ELSE g[i - 1] + s[i].size]
  <2>1. ASSUME NEW i \in 0 .. Len(s) PROVE g[i] = w[i]
    BY <1>4, <1>0 DEF Adds
  <2>2. DOMAIN g = DOMAIN w /\ w = [i \in DOMAIN w |-> w[i]] /\ g = [i \in DOMAIN g |-> g[i]]
    OBVIOUS
  <2>. QED BY <2>1, <2>2
<1>6. Recurs(Totals(s))
  BY <1>5 DEF Totals
<1>7. \A i \in 0 .. Len(s) :
        Totals(s)[i] = IF i = 0 THEN 0 ELSE Totals(s)[i - 1] + s[i].size
  BY <1>6
<1>8. \A i \in 0 .. Len(s) : Totals(s)[i] \in Nat
  <2>. DEFINE R == {i \in 0 .. Len(s) : Totals(s)[i] \in Nat}
  <2>1. 0 \in R /\ R \in SUBSET Nat
    BY <1>7, <1>0
  <2>2. ASSUME NEW i \in 0 .. Len(s) - 1, i \in R PROVE i + 1 \in R
    BY <2>2, <1>7, <1>0
  <2>3. \A i \in 0 .. Len(s) : i \in R
    <3>. HIDE DEF R
    <3>. QED BY <1>0, <2>1, <2>2, AllUpTo
  <2>. QED BY <2>3
<1>9. Totals(s) \in [0 .. Len(s) -> Nat]
  <2>1. Totals(s) = [i \in 0 .. Len(s) |-> Totals(s)[i]]
    BY <1>6, <1>7
  <2>. QED BY <2>1, <1>8
<1>. QED BY <1>7, <1>9, <1>0 DEF Adds

\* The n entries of s after the first k are as large as the n of t after its first m.
Same(s, k, t, m, n) == \A j \in 1 .. n : t[m + j].size = s[k + j].size

\* Where two sequences have the same sizes, they add the same.
LEMMA StretchesAgree ==
  ASSUME NEW s \in Seq(HeldEntry), NEW t \in Seq(HeldEntry),
         NEW k \in Nat, NEW m \in Nat, NEW n \in Nat,
         NEW kn \in 0 .. Len(s), kn = k + n, NEW mn \in 0 .. Len(t), mn = m + n,
         Same(s, k, t, m, n)
  PROVE  Totals(t)[mn] - Totals(t)[m] = Totals(s)[kn] - Totals(s)[k]
<1>. DEFINE S == {j \in 0 .. n : Totals(t)[m + j] - Totals(t)[m] = Totals(s)[k + j] - Totals(s)[k]}
<1>0. /\ Len(s) \in Nat /\ Len(t) \in Nat
      /\ \A i \in 0 .. Len(s) : Totals(s)[i] \in Nat
      /\ \A i \in 0 .. Len(t) : Totals(t)[i] \in Nat
      /\ \A i \in 1 .. Len(s) : Totals(s)[i] = Totals(s)[i - 1] + s[i].size
      /\ \A i \in 1 .. Len(t) : Totals(t)[i] = Totals(t)[i - 1] + t[i].size
      /\ \A i \in 1 .. Len(s) : s[i].size \in Nat
  <2>1. Adds(Totals(s), s, Len(s)) /\ Adds(Totals(t), t, Len(t))
    BY TotalsAdd
  <2>. QED BY <2>1, SizesAdd DEF Adds
<1>1. 0 \in S /\ S \in SUBSET Nat
  <2>1. m \in 0 .. Len(t) /\ k \in 0 .. Len(s) /\ m + 0 = m /\ k + 0 = k
    BY <1>0
  <2>2. Totals(t)[m] \in Nat /\ Totals(s)[k] \in Nat
    BY <1>0, <2>1
  <2>3. Totals(t)[m + 0] - Totals(t)[m] = Totals(s)[k + 0] - Totals(s)[k]
    BY <2>1, <2>2
  <2>. QED BY <2>3
<1>2. ASSUME NEW j \in 0 .. n - 1, j \in S PROVE j + 1 \in S
  <2>1. /\ m + (j + 1) \in 1 .. Len(t) /\ k + (j + 1) \in 1 .. Len(s) /\ j + 1 \in 1 .. n
        /\ m + (j + 1) - 1 = m + j /\ k + (j + 1) - 1 = k + j
        /\ m \in 0 .. Len(t) /\ k \in 0 .. Len(s) /\ m + j \in 0 .. Len(t) /\ k + j \in 0 .. Len(s)
    BY <1>0
  <2>2. t[m + (j + 1)].size = s[k + (j + 1)].size
    BY <2>1 DEF Same
  <2>3. /\ Totals(t)[m + (j + 1)] = Totals(t)[m + j] + t[m + (j + 1)].size
        /\ Totals(s)[k + (j + 1)] = Totals(s)[k + j] + s[k + (j + 1)].size
    BY <2>1, <1>0
  <2>4. Totals(t)[m + j] - Totals(t)[m] = Totals(s)[k + j] - Totals(s)[k]
    BY <1>2
  <2>5. j + 1 \in 0 .. n
    BY <2>1
  <2>6. /\ Totals(t)[m + j] \in Nat /\ Totals(s)[k + j] \in Nat /\ Totals(t)[m] \in Nat
        /\ Totals(s)[k] \in Nat /\ s[k + (j + 1)].size \in Nat
    BY <2>1, <1>0
  <2>7. Totals(t)[m + (j + 1)] - Totals(t)[m] = Totals(s)[k + (j + 1)] - Totals(s)[k]
    <3>. DEFINE a == Totals(t)[m + j]  b == Totals(s)[k + j]  c == Totals(t)[m]  d == Totals(s)[k]
                z == s[k + (j + 1)].size
    <3>1. a \in Nat /\ b \in Nat /\ c \in Nat /\ d \in Nat /\ z \in Nat /\ a - c = b - d
      BY <2>4, <2>6
    <3>2. Totals(t)[m + (j + 1)] = a + z /\ Totals(s)[k + (j + 1)] = b + z
      BY <2>2, <2>3
    <3>3. a + z - c = b + z - d
      <4>. HIDE DEF a, b, c, d, z
      <4>. QED BY <3>1
    <3>4. Totals(t)[m + (j + 1)] - c = Totals(s)[k + (j + 1)] - d
      <4>. HIDE DEF a, b, c, d, z
      <4>. QED BY <3>1, <3>2, <3>3
    <3>. QED BY <3>4
  <2>. QED BY <2>5, <2>7
<1>3. \A j \in 0 .. n : j \in S
  <2>. HIDE DEF S
  <2>. QED BY <1>1, <1>2, AllUpTo
<1>4. n \in 0 .. n
  OBVIOUS
<1>. QED BY <1>3, <1>4

\* What is left when the first of them are dropped.
LEMMA DroppedSize ==
  ASSUME NEW s \in Seq(HeldEntry), NEW k \in 0 .. Len(s)
  PROVE  LET rest == SubSeq(s, k + 1, Len(s)) IN
         /\ rest \in Seq(HeldEntry) /\ Len(rest) = Len(s) - k
         /\ SizeOf(rest) = SizeOf(s) - Totals(s)[k]
<1>. DEFINE rest == SubSeq(s, k + 1, Len(s))
            n == Len(s) - k
<1>1. Len(s) \in Nat /\ n \in Nat /\ k \in Nat /\ k + n = Len(s) /\ 0 + n = n
  OBVIOUS
<1>2. rest \in Seq(HeldEntry) /\ Len(rest) = n
  OBVIOUS
<1>3. Same(s, k, rest, 0, n)
  <2>. SUFFICES ASSUME NEW j \in 1 .. n PROVE rest[0 + j].size = s[k + j].size
    BY DEF Same
  <2>1. rest[j] = s[k + j]
    OBVIOUS
  <2>2. 0 + j = j
    OBVIOUS
  <2>. QED BY <2>1, <2>2
<1>. HIDE DEF rest, n
<1>4. Totals(rest)[n] - Totals(rest)[0] = Totals(s)[Len(s)] - Totals(s)[k]
  <2>1. /\ n \in 0 .. Len(rest) /\ Len(s) \in 0 .. Len(s) /\ 0 \in Nat
        /\ Len(s) = k + n /\ n = 0 + n
    BY <1>1, <1>2
  <2>. QED BY <1>1, <1>2, <1>3, <2>1, StretchesAgree
<1>5. Totals(rest)[0] = 0 /\ Totals(rest)[n] \in Nat
  <2>. HIDE DEF rest, n
  <2>1. Adds(Totals(rest), rest, Len(rest))
    BY <1>2, TotalsAdd
  <2>. QED BY <2>1, <1>1, <1>2 DEF Adds
<1>. QED
  <2>. HIDE DEF rest, n
  <2>1. Totals(rest)[n] = Totals(s)[Len(s)] - Totals(s)[k]
    BY <1>1, <1>4, <1>5
  <2>2. SizeOf(rest) = SizeOf(s) - Totals(s)[k]
    BY <1>2, <2>1 DEF SizeOf
  <2>. QED BY <1>2, <2>2 DEF rest, n

\* What there is once one is set.
LEMMA AppendedSize ==
  ASSUME NEW s \in Seq(HeldEntry), NEW e \in HeldEntry
  PROVE  /\ Append(s, e) \in Seq(HeldEntry) /\ Len(Append(s, e)) = Len(s) + 1
         /\ SizeOf(Append(s, e)) = SizeOf(s) + e.size
<1>. DEFINE t == Append(s, e)
            n == Len(s)
<1>1. n \in Nat /\ t \in Seq(HeldEntry) /\ Len(t) = n + 1 /\ t[n + 1] = e
  OBVIOUS
<1>2. Same(s, 0, t, 0, n)
  <2>. SUFFICES ASSUME NEW j \in 1 .. n PROVE t[0 + j].size = s[0 + j].size
    BY DEF Same
  <2>1. t[j] = s[j] /\ 0 + j = j
    OBVIOUS
  <2>. QED BY <2>1
<1>. HIDE DEF t, n
<1>3. Totals(t)[n] - Totals(t)[0] = Totals(s)[n] - Totals(s)[0]
  <2>1. 0 \in Nat /\ n \in 0 .. Len(s) /\ n \in 0 .. Len(t) /\ n = 0 + n
    BY <1>1 DEF n
  <2>. QED BY <1>1, <1>2, <2>1, StretchesAgree
<1>4. Adds(Totals(t), t, n + 1) /\ Adds(Totals(s), s, n)
  BY <1>1, TotalsAdd DEF n
<1>5. Totals(t)[n] = Totals(s)[n]
  BY <1>1, <1>3, <1>4 DEF Adds
<1>6. Totals(t)[n + 1] = Totals(t)[n] + e.size
  <2>1. n + 1 \in 1 .. n + 1 /\ n + 1 - 1 = n
    BY <1>1
  <2>. QED BY <1>1, <1>4, <2>1 DEF Adds
<1>7. SizeOf(t) = SizeOf(s) + e.size
  BY <1>1, <1>5, <1>6 DEF SizeOf, n
<1>. QED BY <1>1, <1>7 DEF t, n

\* What there is once one is taken.
LEMMA RemovedSize ==
  ASSUME NEW s \in Seq(HeldEntry), NEW i \in 1 .. Len(s)
  PROVE  /\ RemoveAt(s, i) \in Seq(HeldEntry) /\ Len(RemoveAt(s, i)) = Len(s) - 1
         /\ SizeOf(RemoveAt(s, i)) = SizeOf(s) - s[i].size
<1>. DEFINE t == RemoveAt(s, i)
            n == Len(s)
            before == SubSeq(s, 1, i - 1)
            after == SubSeq(s, i + 1, Len(s))
<1>1. /\ n \in Nat /\ i \in 1 .. n
      /\ before \in Seq(HeldEntry) /\ Len(before) = i - 1
      /\ after \in Seq(HeldEntry) /\ Len(after) = n - i
      /\ \A j \in 1 .. i - 1 : before[j] = s[j]
      /\ \A j \in 1 .. n - i : after[j] = s[i + j]
  OBVIOUS
<1>2. t = before \o after
  BY DEF RemoveAt
<1>. HIDE DEF t, n, before, after
<1>3. /\ t \in Seq(HeldEntry) /\ Len(t) = n - 1
      /\ \A x \in 1 .. n - 1 :
           t[x] = IF x <= Len(before) THEN before[x] ELSE after[x - Len(before)]
  <2>1. /\ t \in Seq(HeldEntry) /\ Len(t) = Len(before) + Len(after)
        /\ \A x \in 1 .. Len(before) + Len(after) :
             t[x] = IF x <= Len(before) THEN before[x] ELSE after[x - Len(before)]
    BY <1>1, <1>2, ConcatProperties
  <2>2. Len(before) + Len(after) = n - 1
    BY <1>1
  <2>. QED BY <2>1, <2>2
<1>4. Same(s, 0, t, 0, i - 1) /\ Same(s, i, t, i - 1, n - i)
  <2>1. ASSUME NEW j \in 1 .. i - 1 PROVE t[0 + j].size = s[0 + j].size
    <3>1. 0 + j = j /\ j \in 1 .. n - 1 /\ j <= Len(before)
      BY <1>1
    <3>2. t[j] = before[j]
      BY <3>1, <1>3
    <3>3. before[j] = s[j]
      BY <1>1
    <3>. QED BY <3>1, <3>2, <3>3
  <2>2. ASSUME NEW j \in 1 .. n - i PROVE t[(i - 1) + j].size = s[i + j].size
    <3>. DEFINE x == (i - 1) + j
    <3>1. x \in 1 .. n - 1 /\ ~(x <= Len(before)) /\ x - Len(before) = j
      BY <1>1
    <3>. HIDE DEF x
    <3>2. t[x] = after[j]
      BY <3>1, <1>3
    <3>3. after[j] = s[i + j]
      BY <1>1
    <3>. QED BY <3>2, <3>3 DEF x
  <2>. QED BY <2>1, <2>2 DEF Same
<1>5. Adds(Totals(t), t, n - 1) /\ Adds(Totals(s), s, n)
  BY <1>3, TotalsAdd DEF n
<1>6. Totals(t)[i - 1] - Totals(t)[0] = Totals(s)[i - 1] - Totals(s)[0]
  <2>1. /\ i - 1 \in Nat /\ i - 1 = 0 + (i - 1) /\ 0 \in Nat
        /\ i - 1 \in 0 .. Len(s) /\ i - 1 \in 0 .. Len(t)
    BY <1>1, <1>3 DEF n
  <2>. QED BY <1>3, <1>4, <2>1, StretchesAgree
<1>7. Totals(t)[n - 1] - Totals(t)[i - 1] = Totals(s)[n] - Totals(s)[i]
  <2>1. /\ i \in Nat /\ i - 1 \in Nat /\ n - i \in Nat
        /\ n = i + (n - i) /\ n - 1 = (i - 1) + (n - i)
        /\ n \in 0 .. Len(s) /\ n - 1 \in 0 .. Len(t)
    BY <1>1, <1>3 DEF n
  <2>. QED BY <1>3, <1>4, <2>1, StretchesAgree
<1>8. /\ Totals(s)[i] = Totals(s)[i - 1] + s[i].size
      /\ Totals(t)[0] = 0 /\ Totals(s)[0] = 0
      /\ Totals(t)[n - 1] \in Nat /\ Totals(t)[i - 1] \in Nat
      /\ Totals(s)[n] \in Nat /\ Totals(s)[i - 1] \in Nat /\ Totals(s)[i] \in Nat
  <2>1. /\ i \in 1 .. n /\ i - 1 \in 0 .. n /\ i \in 0 .. n /\ n \in 0 .. n /\ 0 \in 0 .. n
        /\ n - 1 \in 0 .. n - 1 /\ i - 1 \in 0 .. n - 1
    BY <1>1
  <2>2. /\ Totals(s)[i] = Totals(s)[i - 1] + s[i].size /\ Totals(s)[0] = 0
        /\ Totals(s)[n] \in Nat /\ Totals(s)[i - 1] \in Nat /\ Totals(s)[i] \in Nat
    BY <1>5, <2>1 DEF Adds
  <2>3. Totals(t)[0] = 0 /\ Totals(t)[n - 1] \in Nat /\ Totals(t)[i - 1] \in Nat
    BY <1>5, <2>1 DEF Adds
  <2>. QED BY <2>2, <2>3
<1>9. s[i].size \in Nat
  BY <1>1, SizesAdd DEF n
<1>10. Totals(t)[n - 1] = Totals(s)[n] - s[i].size
  <2>. DEFINE a == Totals(t)[n - 1]  b == Totals(t)[i - 1]  c == Totals(s)[n]
              d == Totals(s)[i]  e == Totals(s)[i - 1]  z == s[i].size
  <2>1. /\ a \in Nat /\ b \in Nat /\ c \in Nat /\ d \in Nat /\ e \in Nat /\ z \in Nat
        /\ b - 0 = e - 0 /\ a - b = c - d /\ d = e + z
    BY <1>6, <1>7, <1>8, <1>9
  <2>2. a = c - z
    <3>. HIDE DEF a, b, c, d, e, z
    <3>. QED BY <2>1
  <2>. QED BY <2>2
<1>11. SizeOf(t) = SizeOf(s) - s[i].size
  BY <1>3, <1>10 DEF SizeOf, n
<1>. QED BY <1>3, <1>11 DEF t, n

\* How many go: enough that the new one fits, or all.
LEMMA EvictedFits ==
  ASSUME NEW p, NEW n \in Nat, held[p] \in Seq(HeldEntry)
  PROVE  /\ Evicted(p, n) \in 0 .. Len(held[p])
         /\ \/ Evicted(p, n) = Len(held[p])
            \/ /\ Len(held[p]) - Evicted(p, n) < MaxEntries
               /\ bytes[p] - Totals(held[p])[Evicted(p, n)] + n <= MaxBytes
<1>. DEFINE S == {i \in 0 .. Len(held[p]) :
                   \/ i = Len(held[p])
                   \/ /\ Len(held[p]) - i < MaxEntries
                      /\ bytes[p] - Totals(held[p])[i] + n <= MaxBytes}
<1>1. Evicted(p, n) = Min(S)
  BY DEF Evicted
<1>2. S \in SUBSET Nat /\ S # {}
  OBVIOUS
<1>3. Min(S) \in S
  <2>. HIDE DEF S
  <2>. QED BY <1>2, LeastExists DEF Min
<1>. QED BY <1>1, <1>3

FileRecord == [page : Pages \cup {NoOpener}, size : Nat,
               at : {"none", "saving", "reading", "held", "dropped", "failed", "taken"}]

UnderWay(f) == file[f].at \in {"saving", "reading"}

\* A download under way is for a page and of a size that is not refused, and what is held
\* for a page is counted and within the limits.
HeldInv ==
  /\ held \in [Pages -> Seq(HeldEntry)] /\ bytes \in [Pages -> Nat]
  /\ file \in [Files -> FileRecord]
  /\ \A f \in Files : UnderWay(f) => file[f].page \in Pages /\ file[f].size \in DownloadSizes
  /\ BytesWithinHold

\* Nothing is held to begin with.
LEMMA HeldInitHolds == RegistryInit => HeldInv
<1>. SUFFICES ASSUME RegistryInit PROVE HeldInv
  OBVIOUS
<1>1. <<>> \in Seq(HeldEntry) /\ SizeOf(<<>>) = 0
  <2>1. <<>> \in Seq(HeldEntry) /\ Len(<<>>) = 0
    OBVIOUS
  <2>2. Adds(Totals(<<>>), <<>>, 0)
    BY <2>1, TotalsAdd
  <2>. QED BY <2>1, <2>2 DEF Adds, SizeOf
<1>2. held \in [Pages -> Seq(HeldEntry)] /\ bytes \in [Pages -> Nat]
  BY <1>1 DEF RegistryInit
<1>3. file \in [Files -> FileRecord] /\ \A f \in Files : file[f].at = "none"
  BY DEF RegistryInit, FileRecord
<1>4. BytesWithinHold
  BY <1>1, RegistryAssumption DEF RegistryInit, BytesWithinHold
<1>. QED BY <1>2, <1>3, <1>4 DEF HeldInv, UnderWay

\* What leaves the registry leaves nothing behind that is counted.
LEMMA ForgottenStays ==
  ASSUME HeldInv, UNCHANGED file, NEW left \in SUBSET Pages,
         held' = [p \in Pages |-> IF p \in left THEN <<>> ELSE held[p]],
         bytes' = [p \in Pages |-> IF p \in left THEN 0 ELSE bytes[p]]
  PROVE  HeldInv'
<1>1. <<>> \in Seq(HeldEntry) /\ Len(<<>>) = 0 /\ SizeOf(<<>>) = 0
  <2>1. <<>> \in Seq(HeldEntry) /\ Len(<<>>) = 0
    OBVIOUS
  <2>2. Adds(Totals(<<>>), <<>>, 0)
    BY <2>1, TotalsAdd
  <2>. QED BY <2>1, <2>2 DEF Adds, SizeOf
<1>2. held' \in [Pages -> Seq(HeldEntry)] /\ bytes' \in [Pages -> Nat]
  BY <1>1 DEF HeldInv
<1>3. BytesWithinHold'
  BY <1>1, RegistryAssumption DEF HeldInv, BytesWithinHold
<1>. QED BY <1>2, <1>3 DEF HeldInv, UnderWay

\* One entry of one page is set or taken.
LEMMA OneChanges ==
  ASSUME HeldInv, NEW p \in Pages, NEW f \in Files, NEW at,
         at \in {"held", "taken"},
         file' = [file EXCEPT ![f].at = at],
         NEW s \in Seq(HeldEntry), Len(s) <= MaxEntries,
         NEW b \in Nat, b = SizeOf(s), b <= MaxBytes,
         held' = [held EXCEPT ![p] = s], bytes' = [bytes EXCEPT ![p] = b]
  PROVE  HeldInv'
<1>1. held' \in [Pages -> Seq(HeldEntry)] /\ bytes' \in [Pages -> Nat]
  BY DEF HeldInv
<1>2. file' \in [Files -> FileRecord]
  BY ZenonT(60) DEF HeldInv, FileRecord
<1>3. \A g \in Files : UnderWay(g)' => UnderWay(g) /\ file'[g] = file[g]
  BY DEF HeldInv, FileRecord, UnderWay
<1>4. BytesWithinHold'
  BY DEF HeldInv, BytesWithinHold
<1>. QED BY <1>1, <1>2, <1>3, <1>4 DEF HeldInv

\* A download that was read is held, and the oldest go for it.
LEMMA HeldAfterRead ==
  ASSUME HeldInv, NEW f \in Files, DownloadHeld(f) PROVE HeldInv'
<1>. DEFINE p == file[f].page
            n == file[f].size
            k == Evicted(p, n)
            s == held[p]
            rest == SubSeq(s, k + 1, Len(s))
            e == [file |-> f, size |-> n]
<1>1. p \in Pages /\ n \in DownloadSizes /\ n \in 0 .. MaxBytes /\ MaxBytes \in Nat
  BY RegistryAssumption DEF HeldInv, DownloadHeld, UnderWay
<1>2. CASE p \notin pageMap
  <2>1. file' = [file EXCEPT ![f].at = "dropped"] /\ UNCHANGED <<held, bytes>>
    BY <1>2 DEF DownloadHeld
  <2>2. file' \in [Files -> FileRecord]
    BY ZenonT(60), <2>1 DEF HeldInv, FileRecord
  <2>3. \A g \in Files : UnderWay(g)' => UnderWay(g) /\ file'[g] = file[g]
    BY <2>1 DEF HeldInv, FileRecord, UnderWay
  <2>. QED BY <2>1, <2>2, <2>3 DEF HeldInv, BytesWithinHold
<1>3. CASE p \in pageMap
  <2>1. /\ file' = [file EXCEPT ![f].at = "held"] /\ file[f].at = "reading"
        /\ held' = [held EXCEPT ![p] = Append(rest, e)]
        /\ bytes' = [bytes EXCEPT ![p] = bytes[p] - Totals(s)[k] + n]
    BY <1>3 DEF DownloadHeld, Counts
  <2>2. /\ s \in Seq(HeldEntry) /\ bytes[p] = SizeOf(s) /\ e \in HeldEntry /\ e.size = n
        /\ n \in Nat /\ Len(s) \in Nat
    <3>1. held[p] \in Seq(HeldEntry) /\ bytes[p] = SizeOf(held[p])
      BY <1>1 DEF HeldInv, BytesWithinHold
    <3>2. Len(s) \in Nat /\ n \in Nat
      BY <3>1, <1>1
    <3>3. e \in HeldEntry /\ e.size = n
      BY <1>1 DEF HeldEntry
    <3>. QED BY <3>1, <3>2, <3>3
  <2>3. /\ k \in 0 .. Len(s)
        /\ \/ k = Len(s)
           \/ Len(s) - k < MaxEntries /\ bytes[p] - Totals(s)[k] + n <= MaxBytes
    BY <2>2, EvictedFits
  <2>. HIDE DEF k, s, p, n, e
  <2>4. rest \in Seq(HeldEntry) /\ Len(rest) = Len(s) - k /\ SizeOf(rest) = SizeOf(s) - Totals(s)[k]
    BY <2>2, <2>3, DroppedSize
  <2>. HIDE DEF rest
  <2>5. /\ Append(rest, e) \in Seq(HeldEntry) /\ Len(Append(rest, e)) = Len(s) - k + 1
        /\ SizeOf(Append(rest, e)) = bytes[p] - Totals(s)[k] + n
    BY <2>2, <2>4, AppendedSize
  <2>6. SizeOf(rest) \in Nat /\ Totals(s)[k] \in Nat /\ SizeOf(s) \in Nat
    <3>1. Adds(Totals(rest), rest, Len(rest)) /\ Adds(Totals(s), s, Len(s))
      BY <2>2, <2>4, TotalsAdd
    <3>2. Len(rest) \in Nat
      BY <2>4
    <3>. QED BY <3>1, <3>2, <2>2, <2>3 DEF Adds, SizeOf
  <2>7. /\ Len(Append(rest, e)) <= MaxEntries
        /\ bytes[p] - Totals(s)[k] + n <= MaxBytes /\ bytes[p] - Totals(s)[k] + n \in Nat
    <3>1. CASE k = Len(s)
      <4>1. Totals(s)[k] = bytes[p] /\ Len(Append(rest, e)) = 1
        BY <3>1, <2>2, <2>5 DEF SizeOf
      <4>. QED BY <4>1, <1>1, <2>2, <2>6, RegistryAssumption
    <3>2. CASE k # Len(s)
      <4>1. bytes[p] - Totals(s)[k] \in Nat
        BY <2>2, <2>4, <2>6
      <4>. QED BY <4>1, <3>2, <2>2, <2>3, <2>5, RegistryAssumption
    <3>. QED BY <3>1, <3>2
  <2>. DEFINE b == bytes[p] - Totals(s)[k] + n
              u == Append(rest, e)
  <2>9. /\ held' = [held EXCEPT ![p] = u] /\ bytes' = [bytes EXCEPT ![p] = b]
        /\ u \in Seq(HeldEntry) /\ b \in Nat /\ b = SizeOf(u) /\ b <= MaxBytes
        /\ Len(u) <= MaxEntries
    BY <2>1, <2>5, <2>7
  <2>. HIDE DEF b, u
  <2>10. p \in Pages
    BY <1>1
  <2>. QED BY <2>1, <2>9, <2>10, OneChanges
<1>. QED BY <1>2, <1>3

\* takeDownload.
LEMMA HeldAfterTake ==
  ASSUME HeldInv, NEW p \in Pages, NEW i \in 1 .. MaxEntries, TakeDownload(p, i)
  PROVE  HeldInv'
<1>. DEFINE s == held[p]
            u == RemoveAt(s, i)
            b == bytes[p] - s[i].size
            f == s[i].file
<1>1. s \in Seq(HeldEntry) /\ bytes[p] = SizeOf(s) /\ SizeOf(s) <= MaxBytes /\ Len(s) <= MaxEntries
  BY DEF HeldInv, BytesWithinHold
<1>2. i \in 1 .. Len(s)
  BY <1>1 DEF TakeDownload
<1>3. /\ held' = [held EXCEPT ![p] = u] /\ bytes' = [bytes EXCEPT ![p] = b]
      /\ file' = [file EXCEPT ![f].at = "taken"]
  BY DEF TakeDownload
<1>. HIDE DEF s
<1>4. u \in Seq(HeldEntry) /\ Len(u) = Len(s) - 1 /\ SizeOf(u) = SizeOf(s) - s[i].size
  BY <1>1, <1>2, RemovedSize
<1>. HIDE DEF u
<1>5. f \in Files
  <2>1. s[i] \in HeldEntry
    BY <1>1, <1>2, ElementOfSeq
  <2>. QED BY <2>1 DEF HeldEntry
<1>6. b = SizeOf(u) /\ SizeOf(u) \in Nat /\ b <= MaxBytes /\ Len(u) <= MaxEntries
  <2>1. Adds(Totals(u), u, Len(u)) /\ Adds(Totals(s), s, Len(s))
    BY <1>1, <1>4, TotalsAdd
  <2>2. SizeOf(u) \in Nat /\ SizeOf(s) \in Nat /\ Len(s) \in Nat
    <3>1. Len(u) \in Nat /\ Len(s) \in Nat
      BY <1>1, <1>4
    <3>2. Len(u) \in 0 .. Len(u) /\ Len(s) \in 0 .. Len(s)
      BY <3>1
    <3>. QED BY <2>1, <3>1, <3>2 DEF Adds, SizeOf
  <2>3. s[i].size \in Nat
    BY <1>1, <1>2, SizesAdd
  <2>. QED BY <2>2, <2>3, <1>1, <1>4, RegistryAssumption
<1>. HIDE DEF b
<1>. QED BY <1>3, <1>4, <1>5, <1>6, OneChanges

\* Downloads that begin, go on and fail.
LEMMA HeldAfterFiles ==
  ASSUME HeldInv, NEW f \in Files,
         \/ \E p \in Pages, size \in DownloadSizes : DownloadStarts(f, p, size)
         \/ DownloadRead(f) \/ DownloadFails(f)
  PROVE  HeldInv'
<1>1. UNCHANGED <<held, bytes>>
  BY DEF DownloadStarts, DownloadRead, DownloadFails
<1>2. BytesWithinHold'
  BY <1>1 DEF HeldInv, BytesWithinHold
<1>3. CASE \E p \in Pages, size \in DownloadSizes : DownloadStarts(f, p, size)
  <2>1. PICK p \in Pages, size \in DownloadSizes : DownloadStarts(f, p, size)
    BY <1>3
  <2>2. size \in Nat
    BY RegistryAssumption
  <2>3. file' = [file EXCEPT ![f] = [page |-> p, at |-> "saving", size |-> size]]
    BY <2>1 DEF DownloadStarts
  <2>4. file' \in [Files -> FileRecord]
    BY <2>2, <2>3 DEF HeldInv, FileRecord
  <2>5. \A g \in Files : UnderWay(g)' =>
                         file'[g].page \in Pages /\ file'[g].size \in DownloadSizes
    BY <2>3 DEF HeldInv, FileRecord, UnderWay
  <2>. QED BY <1>1, <1>2, <2>4, <2>5 DEF HeldInv
<1>4. CASE DownloadRead(f) \/ DownloadFails(f)
  <2>0. PICK at \in {"reading", "dropped", "failed"} :
            file' = [file EXCEPT ![f].at = at] /\ UnderWay(f)
    <3>1. CASE DownloadRead(f)
      <4>. DEFINE at == IF file[f].page \in pageMap THEN "reading" ELSE "dropped"
      <4>1. file' = [file EXCEPT ![f].at = at] /\ UnderWay(f)
        BY <3>1 DEF DownloadRead, UnderWay
      <4>2. at \in {"reading", "dropped", "failed"}
        OBVIOUS
      <4>. HIDE DEF at
      <4>. QED BY <4>1, <4>2
    <3>2. CASE DownloadFails(f)
      BY <3>2 DEF DownloadFails, UnderWay
    <3>. QED BY <1>4, <3>1, <3>2
  <2>1. file' \in [Files -> FileRecord]
    BY ZenonT(60), <2>0 DEF HeldInv, FileRecord
  <2>2. \A g \in Files : UnderWay(g)' =>
                         UnderWay(g) /\ file'[g].page = file[g].page /\ file'[g].size = file[g].size
    BY <2>0 DEF HeldInv, FileRecord, UnderWay
  <2>. QED BY <1>1, <1>2, <2>1, <2>2 DEF HeldInv
<1>. QED BY <1>3, <1>4

\* A page leaves with what is held for it.
LEMMA HeldAfterEnds ==
  ASSUME HeldInv, NEW p \in Pages, PageEnds(p) \/ Announces(p) PROVE HeldInv'
<1>0. ASSUME UNCHANGED fileVars PROVE HeldInv'
  BY <1>0 DEF fileVars, HeldInv, BytesWithinHold, UnderWay
<1>1. CASE PageEnds(p)
  BY <1>1, <1>0, ForgottenStays DEF PageEnds, Leaves, fileVars
<1>2. CASE Announces(p)
  BY <1>2, <1>0, ForgottenStays DEF Announces, Leaves, fileVars
<1>. QED BY <1>1, <1>2

\* Every reachable state is of HeldInv.
THEOREM HeldInvariant == RegistrySpec => []HeldInv
<1>1. HeldInv /\ [RegistryNext]_registryVars => HeldInv'
  <2>. SUFFICES ASSUME HeldInv, [RegistryNext]_registryVars PROVE HeldInv'
    OBVIOUS
  <2>1. ASSUME UNCHANGED fileVars PROVE HeldInv'
    BY <2>1 DEF fileVars, HeldInv, BytesWithinHold, UnderWay
  <2>2. ASSUME NEW p \in Pages,
               \/ NewPage(p) \/ PageRegisters(p) \/ \E ok \in BOOLEAN : PageOpens(p, ok)
               \/ \E by \in Pages : PopupOpens(p, by)
               \/ OpenerAnswers(p)
        PROVE  HeldInv'
    BY <2>1, <2>2 DEF NewPage, PageRegisters, PageOpens, PopupOpens, OpenerAnswers
  <2>3. ASSUME NEW p \in Pages, PageEnds(p) \/ Announces(p) PROVE HeldInv'
    BY <2>3, HeldAfterEnds
  <2>4. ASSUME NEW p \in Pages, \E i \in 1 .. MaxEntries : TakeDownload(p, i) PROVE HeldInv'
    BY <2>4, HeldAfterTake
  <2>5. ASSUME NEW f \in Files,
               \/ \E p \in Pages, size \in DownloadSizes : DownloadStarts(f, p, size)
               \/ DownloadRead(f) \/ DownloadHeld(f) \/ DownloadFails(f)
        PROVE  HeldInv'
    BY <2>5, HeldAfterFiles, HeldAfterRead
  <2>6. CASE SessionCloses
    BY <2>1, <2>6 DEF SessionCloses
  <2>7. CASE SessionDisposed
    <3>1. held' = [p \in Pages |-> IF p \in Pages THEN <<>> ELSE held[p]]
      BY <2>7 DEF SessionDisposed
    <3>2. bytes' = [p \in Pages |-> IF p \in Pages THEN 0 ELSE bytes[p]]
      BY <2>7 DEF SessionDisposed
    <3>. QED BY <2>7, <3>1, <3>2, ForgottenStays DEF SessionDisposed
  <2>8. CASE UNCHANGED registryVars
    BY <2>1, <2>8 DEF registryVars, fileVars
  <2>. QED BY <2>2, <2>3, <2>4, <2>5, <2>6, <2>7, <2>8 DEF RegistryNext
<1>. QED BY <1>1, HeldInitHolds, PTL DEF RegistrySpec

\* What is held for a page is counted right and stays within both limits, for any number
\* of downloads of any sizes, evicted and collected in any order.
THEOREM BytesHeld == RegistrySpec => []BytesWithinHold
<1>1. HeldInv => BytesWithinHold
  BY DEF HeldInv
<1>. QED BY <1>1, HeldInvariant, PTL

-----------------------------------------------------------------------------
(* The identity of forms (FormIdentity).                                   *)

DocRecord == [doc : Nat, root : Nat]
IdentityRecord == [mint : Nat, root : Nat]
MintRecord == [frame : Frames, generation : Nat, at : {"none", "running", "settled"}]
CallRecord ==
  [kind : {"observe", "act", "capture"}, frame : Frames,
   at : {"idle", "minting", "held", "failed", "bound", "stale", "passed", "reading", "captured"},
   mint : Nat, token : IdentityRecord, doc : DocRecord, content : Contents \cup {"none"}]
FormTypeOK ==
  /\ frameDoc \in [Frames -> DocRecord] /\ generation \in Nat
  /\ identity \in [Frames -> IdentityRecord] /\ cached \in [Frames -> Nat]
  /\ mint \in [Mints -> MintRecord] /\ call \in [FormCallers -> CallRecord]
  /\ form \in Contents

\* A mint that may still be kept is the one its frame waits for.
MintInv ==
  \A m \in Mints :
    /\ mint[m].generation <= generation
    /\ mint[m].at = "running" /\ mint[m].generation = generation =>
         cached[mint[m].frame] = m /\ identity[mint[m].frame].mint = 0

\* A document is never seen again once it was left.
NotAfter(d, e) == d.doc < e.doc \/ (d.doc = e.doc /\ d.root <= e.root)
HasToken(k) == k.kind = "act" \/ (k.kind = "observe" /\ k.at = "bound")
\* A token that was handed out is its frame's identity for as long as the document stands.
Named(k) ==
  /\ k.token.mint # 0
  /\ NotAfter(k.doc, frameDoc[k.frame])
  /\ k.frame = Main => k.token.root = k.doc.root
  /\ frameDoc[k.frame] = k.doc => identity[k.frame] = k.token
TokenInv ==
  \A c \in FormCallers :
    /\ HasToken(call[c]) => Named(call[c])
    /\ call[c].at = "stale" => call[c].kind = "act" /\ frameDoc[call[c].frame] # call[c].doc

FormInv == FormTypeOK /\ MintInv /\ TokenInv

LEMMA FormInitHolds == FormInit => FormInv
<1>. SUFFICES ASSUME FormInit PROVE FormInv
  OBVIOUS
<1>1. FormTypeOK
  BY DEF FormInit, FormTypeOK, DocRecord, IdentityRecord, MintRecord, CallRecord, Frames, NewDoc,
         NoIdentity, NoCall
<1>2. MintInv /\ TokenInv
  BY DEF FormInit, MintInv, TokenInv, HasToken, NoCall
<1>. QED BY <1>1, <1>2 DEF FormInv

\* A call's facts outlive a change of the documents that leaves every document it moved
\* behind, and drops no identity of another.
LEMMA DocumentsKeepTokens ==
  ASSUME FormInv, UNCHANGED call, FormTypeOK',
         \A f \in Frames : \/ /\ NotAfter(frameDoc[f], frameDoc'[f])
                              /\ frameDoc'[f] # frameDoc[f]
                           \/ frameDoc'[f] = frameDoc[f] /\ identity'[f] = identity[f]
  PROVE  TokenInv'
<1>. SUFFICES ASSUME NEW c \in FormCallers
              PROVE  /\ HasToken(call[c]) => Named(call[c])'
                     /\ call[c].at = "stale" =>
                          call[c].kind = "act" /\ frameDoc'[call[c].frame] # call[c].doc
  BY DEF TokenInv
<1>1. /\ call[c] \in CallRecord /\ call[c].frame \in Frames /\ call[c].doc \in DocRecord
      /\ frameDoc[call[c].frame] \in DocRecord /\ frameDoc'[call[c].frame] \in DocRecord
  BY DEF FormInv, FormTypeOK, CallRecord
<1>2. HasToken(call[c]) => Named(call[c])
  BY DEF FormInv, TokenInv
<1>3. call[c].at = "stale" => call[c].kind = "act" /\ frameDoc[call[c].frame] # call[c].doc
  BY DEF FormInv, TokenInv
<1>4. CASE /\ frameDoc'[call[c].frame] = frameDoc[call[c].frame]
           /\ identity'[call[c].frame] = identity[call[c].frame]
  BY <1>2, <1>3, <1>4 DEF Named
<1>5. CASE /\ NotAfter(frameDoc[call[c].frame], frameDoc'[call[c].frame])
           /\ frameDoc'[call[c].frame] # frameDoc[call[c].frame]
  <2>1. ASSUME NotAfter(call[c].doc, frameDoc[call[c].frame])
        PROVE  /\ NotAfter(call[c].doc, frameDoc'[call[c].frame])
               /\ frameDoc'[call[c].frame] # call[c].doc
    BY <1>1, <1>5, <2>1 DEF NotAfter, DocRecord
  <2>2. call[c].at = "stale" => HasToken(call[c])
    BY <1>3 DEF HasToken
  <2>. QED BY <1>2, <1>3, <2>1, <2>2 DEF Named
<1>. QED BY <1>1, <1>4, <1>5

LEMMA MainNavigatesKeeps ==
  ASSUME FormInv, MainNavigates PROVE FormInv'
<1>1. FormTypeOK'
  BY DEF FormInv, FormTypeOK, MainNavigates, DocRecord, IdentityRecord, NoIdentity
<1>2. MintInv'
  BY DEF FormInv, FormTypeOK, MintInv, MainNavigates, MintRecord
<1>3. \A f \in Frames : NotAfter(frameDoc[f], frameDoc'[f]) /\ frameDoc'[f] # frameDoc[f]
  BY DEF FormInv, FormTypeOK, MainNavigates, NotAfter, DocRecord
<1>. QED BY <1>1, <1>2, <1>3, DocumentsKeepTokens DEF FormInv, MainNavigates

LEMMA SubNavigatesKeeps ==
  ASSUME FormInv, NEW f \in Frames, SubNavigates(f) PROVE FormInv'
<1>1. FormTypeOK'
  BY DEF FormInv, FormTypeOK, SubNavigates, DocRecord, IdentityRecord, NoIdentity
<1>2. MintInv'
  BY DEF FormInv, FormTypeOK, MintInv, SubNavigates, MintRecord, NoIdentity
<1>3. \A g \in Frames : \/ NotAfter(frameDoc[g], frameDoc'[g]) /\ frameDoc'[g] # frameDoc[g]
                        \/ frameDoc'[g] = frameDoc[g] /\ identity'[g] = identity[g]
  BY DEF FormInv, FormTypeOK, SubNavigates, NotAfter, DocRecord
<1>. QED BY <1>1, <1>2, <1>3, DocumentsKeepTokens DEF FormInv, SubNavigates

LEMMA RootReplacedKeeps ==
  ASSUME FormInv, NEW f \in Frames, RootReplaced(f) PROVE FormInv'
<1>1. FormTypeOK'
  BY DEF FormInv, FormTypeOK, RootReplaced, DocRecord
<1>2. MintInv'
  BY DEF FormInv, MintInv, RootReplaced
<1>3. \A g \in Frames : \/ NotAfter(frameDoc[g], frameDoc'[g]) /\ frameDoc'[g] # frameDoc[g]
                        \/ frameDoc'[g] = frameDoc[g] /\ identity'[g] = identity[g]
  BY DEF FormInv, FormTypeOK, RootReplaced, NotAfter, DocRecord
<1>. QED BY <1>1, <1>2, <1>3, DocumentsKeepTokens DEF FormInv, RootReplaced

LEMMA FormChangesKeeps ==
  ASSUME FormInv, FormChanges PROVE FormInv'
<1>1. FormTypeOK'
  BY DEF FormInv, FormTypeOK, FormChanges
<1>2. MintInv'
  BY DEF FormInv, MintInv, FormChanges
<1>. QED BY <1>1, <1>2, DocumentsKeepTokens DEF FormInv, FormChanges

\* One call moves on, with a token that names its frame if it has one.
LEMMA CallKeepsTokens ==
  ASSUME FormInv, NEW c \in FormCallers, NEW k \in CallRecord,
         call' = [call EXCEPT ![c] = k], UNCHANGED frameDoc,
         \A d \in FormCallers \ {c} : HasToken(call[d]) /\ frameDoc[call[d].frame] = call[d].doc
            => identity'[call[d].frame] = identity[call[d].frame],
         HasToken(k) => Named(k)',
         k.at = "stale" => k.kind = "act" /\ frameDoc[k.frame] # k.doc
  PROVE  TokenInv'
<1>. SUFFICES ASSUME NEW d \in FormCallers
              PROVE  /\ HasToken(call'[d]) => Named(call[d])'
                     /\ call'[d].at = "stale" =>
                          call'[d].kind = "act" /\ frameDoc'[call'[d].frame] # call'[d].doc
  BY DEF TokenInv, HasToken
<1>1. CASE d = c
  <2>1. call'[d] = k
    BY <1>1 DEF FormInv, FormTypeOK
  <2>. QED BY <2>1 DEF Named
<1>2. CASE d # c
  <2>1. call'[d] = call[d] /\ (HasToken(call[d]) => Named(call[d]))
        /\ (call[d].at = "stale" => call[d].kind = "act" /\ frameDoc[call[d].frame] # call[d].doc)
    BY <1>2 DEF FormInv, FormTypeOK, TokenInv
  <2>. QED BY <1>2, <2>1 DEF Named
<1>. QED BY <1>1, <1>2

\* A call comes to its await for the state of its frame.
LEMMA EnsuresKeeps ==
  ASSUME FormInv, NEW c \in FormCallers, NEW asker \in CallRecord, Ensures(c, asker),
         UNCHANGED <<frameDoc, generation, identity, form>>,
         HasToken(asker) => asker.kind = "act" /\ Named(asker)
  PROVE  FormInv'
<1>. DEFINE f == asker.frame
<1>0. f \in Frames /\ identity[f].mint \in Nat /\ cached[f] \in Nat
  BY DEF FormInv, FormTypeOK, CallRecord, IdentityRecord
<1>1. ASSUME NEW at \in {"held", "minting"}, NEW m \in Nat,
             call' = [call EXCEPT ![c] = [asker EXCEPT !.at = at, !.mint = m]]
      PROVE  call' \in [FormCallers -> CallRecord] /\ TokenInv'
  <2>. DEFINE k == [asker EXCEPT !.at = at, !.mint = m]
  <2>1. /\ k \in CallRecord /\ k.at = at /\ k.kind = asker.kind /\ k.frame = asker.frame
        /\ k.token = asker.token /\ k.doc = asker.doc
    BY DEF CallRecord
  <2>2. call' = [call EXCEPT ![c] = k]
    BY <1>1
  <2>. HIDE DEF k
  <2>3. HasToken(k) => Named(k)'
    BY <2>1 DEF HasToken, Named
  <2>4. TokenInv'
    BY <2>1, <2>2, <2>3, CallKeepsTokens
  <2>. QED BY <2>1, <2>2, <2>4 DEF FormInv, FormTypeOK
<1>2. ASSUME UNCHANGED <<cached, mint>>, NEW at \in {"held", "minting"}, NEW m \in Nat,
             call' = [call EXCEPT ![c] = [asker EXCEPT !.at = at, !.mint = m]]
      PROVE  FormInv'
  BY <1>1, <1>2 DEF FormInv, FormTypeOK, MintInv
<1>3. ASSUME identity[f].mint = 0, ~Joins(f), NEW m \in Mints,
             mint' = [mint EXCEPT ![m] =
                        [frame |-> f, generation |-> generation, at |-> "running"]],
             cached' = [cached EXCEPT ![f] = m],
             call' = [call EXCEPT ![c] = [asker EXCEPT !.at = "minting", !.mint = m]]
      PROVE  FormInv'
  <2>1. m \in Nat
    BY DEF Mints
  <2>2. call' \in [FormCallers -> CallRecord] /\ TokenInv'
    BY <1>1, <1>3, <2>1
  <2>3. FormTypeOK'
    BY <1>0, <1>3, <2>1, <2>2 DEF FormInv, FormTypeOK, MintRecord
  <2>4. MintInv'
    <3>1. ASSUME NEW n \in Mints
          PROVE  /\ mint'[n].generation <= generation'
                 /\ mint'[n].at = "running" /\ mint'[n].generation = generation' =>
                      cached'[mint'[n].frame] = n /\ identity'[mint'[n].frame].mint = 0
      <4>1. CASE n = m
        BY <1>0, <1>3, <4>1 DEF FormInv, FormTypeOK
      <4>2. CASE n # m
        <5>1. n # 0 /\ mint[n] \in MintRecord
          BY DEF Mints, FormInv, FormTypeOK
        <5>. QED BY <1>0, <1>3, <4>2, <5>1 DEF FormInv, FormTypeOK, MintInv, MintRecord, Joins
      <4>. QED BY <4>1, <4>2
    <3>. QED BY <3>1 DEF MintInv
  <2>. QED BY <2>2, <2>3, <2>4 DEF FormInv
<1>4. CASE /\ identity[f].mint # 0 /\ UNCHANGED <<cached, mint>>
           /\ call' = [call EXCEPT ![c] = [asker EXCEPT !.at = "held", !.mint = identity[f].mint]]
  BY <1>0, <1>2, <1>4
<1>5. CASE /\ identity[f].mint = 0 /\ Joins(f) /\ UNCHANGED <<cached, mint>>
           /\ call' = [call EXCEPT ![c] = [asker EXCEPT !.at = "minting", !.mint = cached[f]]]
  BY <1>0, <1>2, <1>5
<1>. QED BY <1>3, <1>4, <1>5 DEF Ensures

LEMMA MintArrivesKeeps ==
  ASSUME FormInv, NEW m \in Mints, MintArrives(m) PROVE FormInv'
<1>. DEFINE f == mint[m].frame
            kept == mint[m].generation = generation
<1>0. /\ f \in Frames /\ m \in Nat /\ m # 0 /\ mint[m] \in MintRecord
      /\ frameDoc[f] \in DocRecord
  BY DEF FormInv, FormTypeOK, MintRecord, Mints
<1>1. /\ mint[m].at = "running" /\ UNCHANGED <<frameDoc, generation, form>>
      /\ mint' = [mint EXCEPT ![m].at = "settled"]
      /\ cached' = [cached EXCEPT ![f] = IF @ = m THEN 0 ELSE @]
      /\ identity' = IF kept THEN [identity EXCEPT ![f] = [mint |-> m, root |-> frameDoc[f].root]]
                     ELSE identity
      /\ call' = [c \in FormCallers |->
           IF call[c].at = "minting" /\ call[c].mint = m
           THEN [call[c] EXCEPT !.at = IF kept THEN "held" ELSE "failed"] ELSE call[c]]
  BY DEF MintArrives
<1>2. kept => cached[f] = m /\ identity[f].mint = 0
  BY <1>1 DEF FormInv, MintInv
<1>. HIDE DEF kept
<1>3. FormTypeOK'
  <2>1. call' \in [FormCallers -> CallRecord]
    BY SMTT(30), <1>1 DEF FormInv, FormTypeOK, CallRecord
  <2>2. identity' \in [Frames -> IdentityRecord] /\ cached' \in [Frames -> Nat]
    BY <1>0, <1>1 DEF FormInv, FormTypeOK, IdentityRecord, DocRecord
  <2>3. mint' \in [Mints -> MintRecord]
    BY <1>1 DEF FormInv, FormTypeOK, MintRecord
  <2>. QED BY <1>1, <2>1, <2>2, <2>3 DEF FormInv, FormTypeOK
<1>4. MintInv'
  <2>1. ASSUME NEW n \in Mints
        PROVE  /\ mint'[n].generation <= generation'
               /\ mint'[n].at = "running" /\ mint'[n].generation = generation' =>
                    cached'[mint'[n].frame] = n /\ identity'[mint'[n].frame].mint = 0
    <3>1. CASE n = m
      BY <1>1, <3>1 DEF FormInv, FormTypeOK, MintRecord, MintInv
    <3>2. CASE n # m
      <4>1. mint'[n] = mint[n] /\ mint[n] \in MintRecord
        BY <1>1, <3>2 DEF FormInv, FormTypeOK
      <4>. QED BY <1>0, <1>1, <1>2, <3>2, <4>1 DEF FormInv, FormTypeOK, MintInv, MintRecord
    <3>. QED BY <3>1, <3>2
  <2>. QED BY <2>1 DEF MintInv
<1>5. TokenInv'
  <2>1. ASSUME NEW c \in FormCallers
        PROVE  /\ HasToken(call'[c]) => Named(call[c])'
               /\ call'[c].at = "stale" =>
                    call'[c].kind = "act" /\ frameDoc'[call'[c].frame] # call'[c].doc
    <3>1. /\ call[c] \in CallRecord
          /\ HasToken(call[c]) => Named(call[c])
          /\ call[c].at = "stale" => call[c].kind = "act" /\ frameDoc[call[c].frame] # call[c].doc
      BY DEF FormInv, FormTypeOK, TokenInv
    <3>2. /\ call'[c].kind = call[c].kind /\ call'[c].frame = call[c].frame
          /\ call'[c].token = call[c].token /\ call'[c].doc = call[c].doc
          /\ call'[c].at = call[c].at \/ call'[c].at \in {"held", "failed"}
      BY <1>1, <3>1 DEF CallRecord
    <3>3. HasToken(call'[c]) => HasToken(call[c])
      BY <3>2 DEF HasToken
    <3>4. Named(call[c]) => Named(call[c])'
      <4>1. identity'[call[c].frame] = identity[call[c].frame] \/ identity[call[c].frame].mint = 0
        BY <1>0, <1>1, <1>2, <3>1 DEF FormInv, FormTypeOK, CallRecord
      <4>. QED BY <1>1, <3>2, <4>1 DEF Named
    <3>. QED BY <1>1, <3>1, <3>2, <3>3, <3>4
  <2>. QED BY <2>1 DEF TokenInv, HasToken
<1>. QED BY <1>3, <1>4, <1>5 DEF FormInv

LEMMA AsksKeeps ==
  ASSUME FormInv, NEW c \in FormCallers, NEW f \in Frames, Observe(c, f) \/ Capture(c)
  PROVE  FormInv'
<1>1. CASE Observe(c, f)
  <2>. DEFINE asker == [NoCall EXCEPT !.frame = f]
  <2>1. asker \in CallRecord /\ ~HasToken(asker)
    BY DEF NoCall, CallRecord, IdentityRecord, DocRecord, NewDoc, NoIdentity, HasToken
  <2>2. Ensures(c, asker) /\ UNCHANGED <<frameDoc, generation, identity, form>>
    BY <1>1 DEF Observe
  <2>. HIDE DEF asker
  <2>. QED BY <2>1, <2>2, EnsuresKeeps
<1>2. CASE Capture(c)
  <2>. DEFINE asker == [NoCall EXCEPT !.kind = "capture"]
  <2>1. asker \in CallRecord /\ ~HasToken(asker)
    BY DEF NoCall, CallRecord, IdentityRecord, DocRecord, NewDoc, NoIdentity, HasToken, Frames
  <2>2. Ensures(c, asker) /\ UNCHANGED <<frameDoc, generation, identity, form>>
    BY <1>2 DEF Capture
  <2>. HIDE DEF asker
  <2>. QED BY <2>1, <2>2, EnsuresKeeps
<1>. QED BY <1>1, <1>2

\* What a call does to the identity of the frame it holds: nothing, or a root renewed.
LEMMA RenewsKeeps ==
  ASSUME FormInv, NEW f \in Frames,
         identity' = [identity EXCEPT ![f] = Refreshed(f)], UNCHANGED <<frameDoc, generation>>,
         UNCHANGED <<cached, mint>>
  PROVE  /\ identity' \in [Frames -> IdentityRecord] /\ MintInv'
         /\ identity'[f].mint = identity[f].mint
         /\ f = Main => identity'[f].root = frameDoc[f].root
         /\ \A k \in CallRecord : Named(k) /\ frameDoc[k.frame] = k.doc
                                => identity'[k.frame] = identity[k.frame]
<1>1. /\ identity[f] \in IdentityRecord /\ frameDoc[f] \in DocRecord
  BY DEF FormInv, FormTypeOK
<1>2. /\ Refreshed(f) \in IdentityRecord /\ Refreshed(f).mint = identity[f].mint
      /\ f # Main => Refreshed(f) = identity[f]
      /\ f = Main => Refreshed(f).root = frameDoc[f].root
      /\ identity[f].root = frameDoc[f].root => Refreshed(f) = identity[f]
  BY <1>1 DEF Refreshed, IdentityRecord, DocRecord
<1>3. identity'[f] = Refreshed(f) /\ \A g \in Frames \ {f} : identity'[g] = identity[g]
  BY DEF FormInv, FormTypeOK
<1>4. MintInv'
  BY <1>2, <1>3 DEF FormInv, FormTypeOK, MintInv, MintRecord
<1>5. ASSUME NEW k \in CallRecord, Named(k), frameDoc[k.frame] = k.doc
      PROVE  identity'[k.frame] = identity[k.frame]
  <2>1. k.frame \in Frames
    BY DEF CallRecord
  <2>2. k.frame = f /\ f = Main => identity[f].root = frameDoc[f].root
    BY <1>5 DEF Named
  <2>. QED BY <1>2, <1>3, <2>1, <2>2
<1>. QED BY <1>2, <1>3, <1>4, <1>5 DEF FormInv, FormTypeOK

LEMMA BindKeeps ==
  ASSUME FormInv, NEW c \in FormCallers, Bind(c) PROVE FormInv'
<1>. DEFINE f == call[c].frame
<1>0. PICK k : k = [call[c] EXCEPT !.at = IF StillHeld(c) THEN "bound" ELSE "failed",
                                   !.token = identity'[f], !.doc = frameDoc[f]]
  OBVIOUS
<1>1. /\ call[c] \in CallRecord /\ f \in Frames /\ call[c].at = "held" /\ call[c].kind = "observe"
      /\ frameDoc[f] \in DocRecord /\ UNCHANGED <<frameDoc, generation, cached, mint, form>>
  BY DEF Bind, FormInv, FormTypeOK, CallRecord
<1>2. StillHeld(c) => identity[f].mint # 0
  BY DEF StillHeld
<1>3. identity' = IF StillHeld(c) THEN [identity EXCEPT ![f] = Refreshed(f)] ELSE identity
  BY DEF Bind
<1>4. /\ identity' \in [Frames -> IdentityRecord] /\ MintInv'
      /\ StillHeld(c) => identity'[f].mint # 0 /\ (f = Main => identity'[f].root = frameDoc[f].root)
      /\ \A j \in CallRecord : Named(j) /\ frameDoc[j.frame] = j.doc
                             => identity'[j.frame] = identity[j.frame]
  <2>1. CASE StillHeld(c)
    BY <1>1, <1>2, <1>3, <2>1, RenewsKeeps
  <2>2. CASE ~StillHeld(c)
    BY <1>1, <1>3, <2>2 DEF FormInv, FormTypeOK, MintInv
  <2>. QED BY <2>1, <2>2
<1>5. call' = [call EXCEPT ![c] = k]
  BY <1>0 DEF Bind
<1>6. /\ k \in CallRecord /\ k.kind = "observe" /\ k.frame = f /\ k.token = identity'[f]
      /\ k.doc = frameDoc[f] /\ k.at = IF StillHeld(c) THEN "bound" ELSE "failed"
  BY <1>0, <1>1, <1>4 DEF CallRecord
<1>7. HasToken(k) => Named(k)'
  BY <1>1, <1>4, <1>6 DEF HasToken, Named, NotAfter, DocRecord
<1>8. TokenInv'
  <2>1. \A d \in FormCallers \ {c} : HasToken(call[d]) /\ frameDoc[call[d].frame] = call[d].doc
            => identity'[call[d].frame] = identity[call[d].frame]
    BY <1>4 DEF FormInv, FormTypeOK, TokenInv
  <2>. QED BY <1>1, <1>5, <1>6, <1>7, <2>1, CallKeepsTokens
<1>. QED BY <1>1, <1>4, <1>5, <1>6, <1>8 DEF FormInv, FormTypeOK

\* A call moves on and leaves the identities as they are.
LEMMA MovesOnKeeps ==
  ASSUME FormInv, NEW c \in FormCallers, NEW k \in CallRecord,
         call' = [call EXCEPT ![c] = k],
         UNCHANGED <<frameDoc, generation, identity, cached, mint, form>>,
         HasToken(k) => Named(k),
         k.at = "stale" => k.kind = "act" /\ frameDoc[k.frame] # k.doc
  PROVE  FormInv'
<1>1. HasToken(k) => Named(k)'
  BY DEF Named
<1>2. TokenInv'
  BY <1>1, CallKeepsTokens
<1>. QED BY <1>2 DEF FormInv, FormTypeOK, MintInv

LEMMA ActAsksKeeps ==
  ASSUME FormInv, NEW c \in FormCallers, NEW of \in FormCallers, Act(c, of) PROVE FormInv'
<1>1. PICK asker : asker = [call[of] EXCEPT !.kind = "act"]
  OBVIOUS
<1>2. /\ call[of] \in CallRecord /\ HasToken(call[of]) /\ Named(call[of])
  BY DEF Act, HasToken, FormInv, FormTypeOK, TokenInv
<1>3. /\ asker \in CallRecord /\ asker.kind = "act" /\ asker.frame = call[of].frame
      /\ asker.token = call[of].token /\ asker.doc = call[of].doc
  BY <1>1, <1>2 DEF CallRecord
<1>4. Named(asker)
  BY <1>2, <1>3 DEF Named
<1>5. CASE call[of].frame \in Subs
  <2>1. Ensures(c, asker) /\ UNCHANGED <<frameDoc, generation, identity, form>>
    BY <1>1, <1>5 DEF Act
  <2>. QED BY <1>3, <1>4, <2>1, EnsuresKeeps
<1>6. CASE call[of].frame \notin Subs
  <2>1. PICK k : k = [asker EXCEPT !.at =
                        IF identity[asker.frame].mint = 0 THEN "stale" ELSE "held"]
    OBVIOUS
  <2>2. /\ call' = [call EXCEPT ![c] = k]
        /\ UNCHANGED <<frameDoc, generation, identity, cached, mint, form>>
    BY <1>1, <1>3, <1>6, <2>1 DEF Act
  <2>3. /\ k \in CallRecord /\ k.kind = "act" /\ k.frame = asker.frame
        /\ k.token = asker.token /\ k.doc = asker.doc
        /\ k.at = "stale" => identity[k.frame].mint = 0
    BY <1>3, <2>1 DEF CallRecord
  <2>4. Named(k) /\ (k.at = "stale" => frameDoc[k.frame] # k.doc)
    BY <1>4, <2>3 DEF Named
  <2>. QED BY <2>2, <2>3, <2>4, MovesOnKeeps
<1>. QED BY <1>5, <1>6

LEMMA VerifyKeeps ==
  ASSUME FormInv, NEW c \in FormCallers, Verify(c) PROVE FormInv'
<1>1. PICK k : k = [call[c] EXCEPT !.at =
           IF identity[call[c].frame].mint = 0 THEN "failed"
           ELSE IF identity[call[c].frame] = call[c].token THEN "passed" ELSE "stale"]
  OBVIOUS
<1>2. /\ call[c] \in CallRecord /\ HasToken(call[c]) /\ Named(call[c]) /\ call[c].kind = "act"
  BY DEF Verify, HasToken, FormInv, FormTypeOK, TokenInv
<1>3. /\ k \in CallRecord /\ k.kind = "act" /\ k.frame = call[c].frame
      /\ k.token = call[c].token /\ k.doc = call[c].doc
      /\ k.at = "stale" => identity[k.frame] # k.token
  BY <1>1, <1>2 DEF CallRecord
<1>4. Named(k) /\ (k.at = "stale" => frameDoc[k.frame] # k.doc)
  BY <1>2, <1>3 DEF Named
<1>5. /\ call' = [call EXCEPT ![c] = k]
      /\ UNCHANGED <<frameDoc, generation, identity, cached, mint, form>>
  BY <1>1 DEF Verify
<1>. QED BY <1>3, <1>4, <1>5, MovesOnKeeps

LEMMA SecondInventoryKeeps ==
  ASSUME FormInv, NEW c \in FormCallers, SecondInventory(c) PROVE FormInv'
<1>1. PICK k : k = [call[c] EXCEPT !.at = IF SameInventory(c) THEN "captured" ELSE "failed"]
  OBVIOUS
<1>2. /\ call[c] \in CallRecord /\ call[c].at = "reading" /\ (HasToken(call[c]) => Named(call[c]))
  BY DEF SecondInventory, FormInv, FormTypeOK, TokenInv
<1>3. /\ k \in CallRecord /\ k.kind = call[c].kind /\ k.frame = call[c].frame
      /\ k.token = call[c].token /\ k.doc = call[c].doc /\ k.at \in {"captured", "failed"}
  BY <1>1, <1>2 DEF CallRecord
<1>4. HasToken(k) => Named(k)
  BY <1>2, <1>3 DEF Named, HasToken
<1>5. /\ call' = [call EXCEPT ![c] = k]
      /\ UNCHANGED <<frameDoc, generation, identity, cached, mint, form>>
  BY <1>1 DEF SecondInventory
<1>. QED BY <1>3, <1>4, <1>5, MovesOnKeeps

LEMMA FirstInventoryKeeps ==
  ASSUME FormInv, NEW c \in FormCallers, FirstInventory(c) PROVE FormInv'
<1>0. PICK k : k = [call[c] EXCEPT !.at = IF StillHeld(c) THEN "reading" ELSE "failed",
                                   !.content = form, !.doc = frameDoc[Main]]
  OBVIOUS
<1>1. /\ call[c] \in CallRecord /\ call[c].kind = "capture" /\ Main \in Frames
      /\ frameDoc[Main] \in DocRecord /\ UNCHANGED <<frameDoc, generation, cached, mint, form>>
  BY DEF FirstInventory, FormInv, FormTypeOK, Frames
<1>2. identity' = IF StillHeld(c) THEN [identity EXCEPT ![Main] = Refreshed(Main)] ELSE identity
  BY DEF FirstInventory
<1>3. /\ identity' \in [Frames -> IdentityRecord] /\ MintInv'
      /\ \A j \in CallRecord : Named(j) /\ frameDoc[j.frame] = j.doc
                             => identity'[j.frame] = identity[j.frame]
  <2>1. CASE StillHeld(c)
    BY <1>1, <1>2, <2>1, RenewsKeeps
  <2>2. CASE ~StillHeld(c)
    BY <1>1, <1>2, <2>2 DEF FormInv, FormTypeOK, MintInv
  <2>. QED BY <2>1, <2>2
<1>4. call' = [call EXCEPT ![c] = k]
  BY <1>0 DEF FirstInventory
<1>5. k \in CallRecord /\ k.kind = "capture" /\ k.at \in {"reading", "failed"}
  BY <1>0, <1>1 DEF CallRecord, FormInv, FormTypeOK
<1>6. TokenInv'
  <2>1. \A d \in FormCallers \ {c} : HasToken(call[d]) /\ frameDoc[call[d].frame] = call[d].doc
            => identity'[call[d].frame] = identity[call[d].frame]
    BY <1>3 DEF FormInv, FormTypeOK, TokenInv
  <2>. QED BY <1>1, <1>4, <1>5, <2>1, CallKeepsTokens DEF HasToken
<1>. QED BY <1>1, <1>3, <1>4, <1>5, <1>6 DEF FormInv, FormTypeOK

\* In every reachable state: types, the mint each frame waits for, and every token that
\* was handed out names its frame while the document stands.
THEOREM FormInvariant == FormSpec => []FormInv
<1>1. FormInv /\ [FormNext]_formVars => FormInv'
  <2>. SUFFICES ASSUME FormInv, [FormNext]_formVars PROVE FormInv'
    OBVIOUS
  <2>1. CASE MainNavigates \/ FormChanges
    BY <2>1, MainNavigatesKeeps, FormChangesKeeps
  <2>2. CASE \E f \in Frames : SubNavigates(f) \/ RootReplaced(f)
    BY <2>2, SubNavigatesKeeps, RootReplacedKeeps
  <2>3. CASE \E m \in Mints : MintArrives(m)
    BY <2>3, MintArrivesKeeps
  <2>4. ASSUME NEW c \in FormCallers, \E f \in Frames : Observe(c, f)
        PROVE  FormInv'
    BY <2>4, AsksKeeps
  <2>5. ASSUME NEW c \in FormCallers, \E of \in FormCallers : Act(c, of)
        PROVE  FormInv'
    BY <2>5, ActAsksKeeps
  <2>6. ASSUME NEW c \in FormCallers, Capture(c) PROVE FormInv'
    BY <2>6, AsksKeeps DEF Frames
  <2>7. ASSUME NEW c \in FormCallers,
               Bind(c) \/ Verify(c) \/ FirstInventory(c) \/ SecondInventory(c)
        PROVE  FormInv'
    BY <2>7, BindKeeps, VerifyKeeps, FirstInventoryKeeps, SecondInventoryKeeps
  <2>8. CASE UNCHANGED formVars
    BY <2>8 DEF formVars, FormInv, FormTypeOK, MintInv, TokenInv, HasToken, Named
  <2>. QED BY <2>1, <2>2, <2>3, <2>4, <2>5, <2>6, <2>7, <2>8 DEF FormNext
<1>. QED BY <1>1, FormInitHolds, PTL DEF FormSpec

\* A popup that is ready has one owner, by how candidates are counted.
LEMMA ReadyHasOneOwner == ReadyPopupHasOneOwner
<1>. SUFFICES ASSUME NEW o \in Combos, NEW l \in Lists, Candidate(o, l), Owners(l) = {o}
              PROVE  /\ \A c \in Combos \ {o} : markup.id[l] \notin markup.refers[c]
                     /\ markup.refers[o] = {markup.id[l]}
                     /\ \A e \in Lists \cup Plain : e # l => markup.id[e] # markup.id[l]
  BY DEF ReadyPopupHasOneOwner, Ready
<1>1. markup.id[l] \in markup.refers[o]
  BY DEF Owners
<1>2. \A n \in markup.refers[o] : Matches(n) = {l}
  BY DEF Candidate
<1>3. \A n \in markup.refers[o] : n = markup.id[l]
  BY <1>2 DEF Matches
<1>4. \A e \in Lists \cup Plain : markup.id[e] = markup.id[l] => e \in Matches(markup.id[l])
  BY DEF Matches
<1>. QED BY <1>1, <1>2, <1>3, <1>4 DEF Owners

LEMMA EnsuresWaits ==
  ASSUME FormTypeOK, NEW c \in FormCallers, NEW d \in FormCallers, NEW asker \in CallRecord,
         Ensures(d, asker)
  PROVE  call'[c] = call[c] \/ call'[c].at \in {"held", "minting"}
<1>1. ASSUME NEW at \in {"held", "minting"}, NEW m,
             call' = [call EXCEPT ![d] = [asker EXCEPT !.at = at, !.mint = m]]
      PROVE  call'[c] = call[c] \/ call'[c].at \in {"held", "minting"}
  BY <1>1 DEF FormTypeOK, CallRecord
<1>. QED BY <1>1 DEF Ensures

\* Only the second inventory lets a capture answer.
LEMMA CapturesAtOnce ==
  ASSUME FormTypeOK, FormNext, NEW c \in FormCallers,
         call'[c].at = "captured", call[c].at # "captured"
  PROVE  form = call[c].content /\ frameDoc[Main] = call[c].doc
<1>0. \A d \in FormCallers : call[d] \in CallRecord
  BY DEF FormTypeOK
<1>1. CASE MainNavigates \/ FormChanges \/ \E f \in Frames : SubNavigates(f) \/ RootReplaced(f)
  BY <1>1 DEF MainNavigates, FormChanges, SubNavigates, RootReplaced
<1>2. CASE \E m \in Mints : MintArrives(m)
  BY <1>0, <1>2 DEF MintArrives, CallRecord
<1>3. ASSUME NEW d \in FormCallers, NEW f \in Frames, Observe(d, f) PROVE FALSE
  <2>1. [NoCall EXCEPT !.frame = f] \in CallRecord
    BY DEF NoCall, CallRecord, IdentityRecord, DocRecord, NewDoc, NoIdentity
  <2>. QED BY <1>3, <2>1, EnsuresWaits DEF Observe
<1>4. ASSUME NEW d \in FormCallers, NEW of \in FormCallers, Act(d, of) PROVE FALSE
  <2>1. [call[of] EXCEPT !.kind = "act"] \in CallRecord
    BY <1>0 DEF CallRecord
  <2>2. CASE call[of].frame \in Subs
    BY <1>4, <2>1, <2>2, EnsuresWaits DEF Act
  <2>3. CASE call[of].frame \notin Subs
    <3>1. PICK at \in {"stale", "held"} :
            call' = [call EXCEPT ![d] = [[call[of] EXCEPT !.kind = "act"] EXCEPT !.at = at]]
      BY <1>4, <2>3 DEF Act
    <3>2. [[call[of] EXCEPT !.kind = "act"] EXCEPT !.at = at].at = at
      BY <2>1 DEF CallRecord
    <3>. QED BY <3>1, <3>2 DEF FormTypeOK
  <2>. QED BY <2>2, <2>3
<1>5. ASSUME NEW d \in FormCallers, Capture(d) PROVE FALSE
  <2>1. [NoCall EXCEPT !.kind = "capture"] \in CallRecord
    BY DEF NoCall, CallRecord, IdentityRecord, DocRecord, NewDoc, NoIdentity, Frames
  <2>. QED BY <1>5, <2>1, EnsuresWaits DEF Capture
<1>6. ASSUME NEW d \in FormCallers, Bind(d) \/ Verify(d) \/ FirstInventory(d) PROVE FALSE
  <2>1. CASE Bind(d)
    BY <1>0, <2>1 DEF Bind, FormTypeOK, CallRecord
  <2>2. CASE Verify(d)
    BY <1>0, <2>2 DEF Verify, FormTypeOK, CallRecord
  <2>3. CASE FirstInventory(d)
    BY <1>0, <2>3 DEF FirstInventory, FormTypeOK, CallRecord
  <2>. QED BY <1>6, <2>1, <2>2, <2>3
<1>7. ASSUME NEW d \in FormCallers, SecondInventory(d)
      PROVE  form = call[c].content /\ frameDoc[Main] = call[c].doc
  BY <1>0, <1>7 DEF SecondInventory, SameInventory, FormTypeOK, CallRecord
<1>. QED BY <1>1, <1>2, <1>3, <1>4, <1>5, <1>6, <1>7 DEF FormNext

\* A refusal, a capture and an owner say what is so, for any frames, callers and popups.
THEOREM IdentitiesHold == FormSpec => IdentityHolds
<1>1. FormInv => StaleMeansChanged /\ ReadyPopupHasOneOwner
  BY ReadyHasOneOwner DEF FormInv, TokenInv, StaleMeansChanged
<1>2. FormInv /\ [FormNext]_formVars =>
        [\A c \in FormCallers :
           call'[c].at = "captured" /\ call[c].at # "captured"
             => call[c].content = form /\ call[c].doc = frameDoc[Main]]_formVars
  <2>. SUFFICES ASSUME FormInv, FormNext, NEW c \in FormCallers,
                       call'[c].at = "captured", call[c].at # "captured"
                PROVE  call[c].content = form /\ call[c].doc = frameDoc[Main]
    BY DEF formVars
  <2>. QED BY CapturesAtOnce DEF FormInv
<1>. QED BY <1>1, <1>2, FormInvariant, PTL DEF FormSpec, IdentityHolds, CaptureIsOneInstant

-----------------------------------------------------------------------------
(* The Safari engine (SafariSession): one driver session, its windows and *)
(* the queue of calls on it.                                               *)

InLine(x, line) == \E i \in 1 .. Len(line) : line[i] = x

LEMMA Appended ==
  ASSUME NEW S, NEW s \in Seq(S), NEW x \in S
  PROVE  /\ Append(s, x) \in Seq(S)
         /\ \A y : InLine(y, Append(s, x)) <=> InLine(y, s) \/ y = x
<1>1. /\ Append(s, x) \in Seq(S) /\ Len(Append(s, x)) = Len(s) + 1 /\ Len(s) \in Nat
      /\ \A i \in 1 .. Len(s) : Append(s, x)[i] = s[i]
      /\ Append(s, x)[Len(s) + 1] = x
  OBVIOUS
<1>. QED BY <1>1 DEF InLine

LEMMA Taken ==
  ASSUME NEW S, NEW s \in Seq(S), s # <<>>
  PROVE  /\ Tail(s) \in Seq(S) /\ Head(s) \in S
         /\ InLine(Head(s), s)
         /\ \A y : InLine(y, Tail(s)) => InLine(y, s)
<1>1. /\ Tail(s) \in Seq(S) /\ Len(Tail(s)) = Len(s) - 1 /\ Len(s) \in Nat /\ Len(s) >= 1
      /\ \A i \in 1 .. Len(Tail(s)) : Tail(s)[i] = s[i + 1]
      /\ Head(s) = s[1] /\ s[1] \in S
  OBVIOUS
<1>. QED BY <1>1 DEF InLine

Apart(s) == \A i, j \in 1 .. Len(s) : s[i] = s[j] => i = j

LEMMA ApartTaken ==
  ASSUME NEW S, NEW s \in Seq(S), s # <<>>, Apart(s)
  PROVE  Apart(Tail(s)) /\ ~InLine(Head(s), Tail(s))
<1>1. /\ Len(Tail(s)) = Len(s) - 1 /\ Len(s) \in Nat /\ Len(s) >= 1
      /\ \A i \in 1 .. Len(Tail(s)) : Tail(s)[i] = s[i + 1]
      /\ Head(s) = s[1]
  OBVIOUS
<1>2. \A i \in 1 .. Len(Tail(s)) : i + 1 \in 1 .. Len(s) /\ i + 1 # 1
  BY <1>1
<1>. QED BY <1>1, <1>2 DEF InLine, Apart

LEMMA ApartAppended ==
  ASSUME NEW S, NEW s \in Seq(S), NEW x \in S, Apart(s), ~InLine(x, s)
  PROVE  Apart(Append(s, x))
<1>1. /\ Len(Append(s, x)) = Len(s) + 1 /\ Len(s) \in Nat
      /\ \A i \in 1 .. Len(s) : Append(s, x)[i] = s[i]
      /\ Append(s, x)[Len(s) + 1] = x
  OBVIOUS
<1>2. \A i \in 1 .. Len(Append(s, x)) : i \in 1 .. Len(s) \/ i = Len(s) + 1
  BY <1>1
<1>. QED BY <1>1, <1>2 DEF InLine, Apart


LEMMA HeadStays ==
  ASSUME NEW S, NEW s \in Seq(S), NEW x \in S
  PROVE  /\ Append(s, x) # <<>>
         /\ s # <<>> => Head(Append(s, x)) = Head(s)
BY SMTT(30)

LEMMA OthersStay ==
  ASSUME NEW S, NEW s \in Seq(S), s # <<>>, NEW y, InLine(y, s), y # Head(s)
  PROVE  InLine(y, Tail(s))
<1>1. /\ Len(Tail(s)) = Len(s) - 1 /\ Len(s) \in Nat
      /\ \A i \in 1 .. Len(Tail(s)) : Tail(s)[i] = s[i + 1]
      /\ Head(s) = s[1]
  OBVIOUS
<1>2. PICK i \in 1 .. Len(s) : s[i] = y
  BY DEF InLine
<1>3. i - 1 \in 1 .. Len(Tail(s)) /\ Tail(s)[i - 1] = y
  BY <1>1, <1>2
<1>. QED BY <1>3 DEF InLine

OnDriver == {"request", "switch", "selected"}
SafariCall == [kind : OpKinds \cup {"none"}, page : Windows \cup {NoWindow},
               pc : OnDriver \cup {"none", "refused", "queued", "failed", "done"}]

\* What a call of each kind has, and where it can stand.
CallFits(k) ==
  /\ k.pc = "none" <=> k.kind = "none"
  /\ k.kind \in {"onPage", "closePage"} => k.page \in Windows
  /\ k.pc = "selected" => k.kind \in {"onPage", "closePage"}

SafariTypeOK ==
  /\ op \in [Ops -> SafariCall] /\ \A o \in Ops : CallFits(op[o])
  /\ queue \in Seq(Ops)
  /\ pageState \in [Windows -> {"none", "open", "shut"}]
  /\ closing \subseteq Windows
  /\ shut \in BOOLEAN /\ sessionGone \in BOOLEAN
  /\ window \subseteq Windows /\ selected \in Windows

\* The queue holds each call that has not settled once, and only its head runs.
QueueInv ==
  /\ Apart(queue)
  /\ \A o \in Ops : InLine(o, queue) <=> op[o].pc \in OnDriver \cup {"queued"}
  /\ \A o \in Ops : op[o].pc \in OnDriver => Head(queue) = o

\* Between the switch to a window and what is done in it, no other window is selected.
SelectedInv == \A o \in Ops : op[o].pc = "selected" => selected = op[o].page

HitInv ==
  \A hit \in hits : \E o \in Ops :
    hit = <<o, op[o].page>> /\ op[o].kind \in {"onPage", "closePage"}

\* A page whose close is under way stays closed: its window is known to be closing.
Closing(o) == op[o].kind = "closePage" /\ op[o].pc \in OnDriver \cup {"queued"}
ClosingInv ==
  /\ \A o \in Ops : Closing(o) =>
       /\ pageState[op[o].page] = "shut"
       /\ op[o].page \in window => op[o].page \in closing \/ shut
  /\ shut => \A h \in Windows : pageState[h] # "open"

SafariInv == SafariTypeOK /\ QueueInv /\ SelectedInv /\ HitInv /\ ClosingInv

LEMMA SafariInitHolds == SafariInit => SafariInv
<1>. SUFFICES ASSUME SafariInit PROVE SafariInv
  OBVIOUS
<1>1. SafariTypeOK
  <2>1. window \subseteq Windows /\ selected \in window
    BY DEF SafariInit
  <2>2. op \in [Ops -> SafariCall] /\ \A o \in Ops : CallFits(op[o])
    BY DEF SafariInit, SafariCall, CallFits
  <2>3. /\ pageState = [h \in Windows |-> "none"] /\ queue = <<>>
        /\ closing = {} /\ shut = FALSE /\ sessionGone = FALSE
    BY DEF SafariInit
  <2>4. /\ queue \in Seq(Ops) /\ closing \subseteq Windows /\ selected \in Windows
        /\ pageState \in [Windows -> {"none", "open", "shut"}]
    BY <2>1, <2>3
  <2>5. shut \in BOOLEAN /\ sessionGone \in BOOLEAN
    BY DEF SafariInit
  <2>. QED BY <2>1, <2>2, <2>4, <2>5 DEF SafariTypeOK
<1>2. queue = <<>> /\ Len(queue) = 0
  BY DEF SafariInit
<1>3. QueueInv
  BY <1>2 DEF SafariInit, QueueInv, InLine, Apart, OnDriver
<1>. QED BY <1>1, <1>3 DEF SafariInit, SafariInv, SelectedInv, HitInv, ClosingInv, Closing, OnDriver

\* A call goes on: it enters the queue or is refused, it runs at the head, or it settles.
Enters(o, k) ==
  /\ op[o].kind = "none" /\ k.kind # "none"
  /\ \/ k.pc = "queued" /\ queue' = Append(queue, o)
     \/ k.pc = "refused" /\ queue' = queue
TurnsTo(o, k) ==
  /\ k.kind = op[o].kind /\ (k.page = op[o].page \/ k.kind = "newPage")
  /\ op[o].pc \in OnDriver \cup {"queued"} /\ Head(queue) = o
  /\ \/ k.pc \in OnDriver /\ queue' = queue
     \/ k.pc \in {"failed", "done"} /\ queue' = Tail(queue)

LEMMA CallGoesOn ==
  ASSUME SafariInv, NEW o \in Ops, NEW k \in SafariCall, CallFits(k),
         op' = [op EXCEPT ![o] = k], Enters(o, k) \/ TurnsTo(o, k)
  PROVE  /\ op' \in [Ops -> SafariCall] /\ \A p \in Ops : CallFits(op'[p])
         /\ op'[o] = k /\ \A p \in Ops : p # o => op'[p] = op[p]
         /\ queue' \in Seq(Ops) /\ QueueInv'
<1>1. /\ op \in [Ops -> SafariCall] /\ queue \in Seq(Ops)
      /\ op' \in [Ops -> SafariCall]
      /\ op'[o] = k /\ \A p \in Ops : p # o => op'[p] = op[p]
  BY DEF SafariInv, SafariTypeOK
<1>2. \A p \in Ops : CallFits(op'[p])
  BY <1>1 DEF SafariInv, SafariTypeOK
<1>3. CASE Enters(o, k)
  <2>1. op[o].pc = "none" /\ ~InLine(o, queue)
    BY <1>3 DEF Enters, SafariInv, SafariTypeOK, CallFits, QueueInv, OnDriver
  <2>2. CASE k.pc = "refused" /\ queue' = queue
    <3>1. \A y : InLine(y, queue') <=> InLine(y, queue)
      BY <2>2 DEF InLine
    <3>2. Apart(queue')
      BY <2>2 DEF SafariInv, QueueInv, Apart
    <3>. QED BY <1>1, <1>2, <2>1, <2>2, <3>1, <3>2 DEF SafariInv, QueueInv, OnDriver
  <2>3. CASE k.pc = "queued" /\ queue' = Append(queue, o)
    <3>1. /\ queue' \in Seq(Ops) /\ Apart(queue')
          /\ \A y : InLine(y, queue') <=> InLine(y, queue) \/ y = o
          /\ queue # <<>> => Head(queue') = Head(queue)
      BY <1>1, <2>1, <2>3, Appended, ApartAppended, HeadStays DEF SafariInv, QueueInv
    <3>2. \A p \in Ops : InLine(p, queue) => queue # <<>>
      BY <1>1 DEF InLine
    <3>. QED BY <1>1, <1>2, <2>1, <2>3, <3>1, <3>2 DEF SafariInv, QueueInv, OnDriver
  <2>. QED BY <1>1, <1>2, <1>3, <2>2, <2>3 DEF Enters
<1>4. CASE TurnsTo(o, k)
  <2>1. InLine(o, queue) /\ Head(queue) = o /\ queue # <<>>
    BY <1>1, <1>4 DEF TurnsTo, SafariInv, QueueInv, InLine
  <2>2. CASE k.pc \in OnDriver /\ queue' = queue
    BY <1>1, <1>2, <2>1, <2>2 DEF SafariInv, QueueInv, Apart, InLine
  <2>3. CASE k.pc \in {"failed", "done"} /\ queue' = Tail(queue)
    <3>1. /\ queue' \in Seq(Ops) /\ Apart(queue') /\ ~InLine(o, queue')
          /\ \A y : InLine(y, queue') => InLine(y, queue)
      BY <1>1, <2>1, <2>3, Taken, ApartTaken DEF SafariInv, QueueInv
    <3>2. \A y : InLine(y, queue) /\ y # o => InLine(y, queue')
      BY <1>1, <2>1, <2>3, OthersStay
    <3>3. \A p \in Ops : p # o => op[p].pc \notin OnDriver
      BY <2>1 DEF SafariInv, QueueInv
    <3>. QED BY <1>1, <1>2, <2>1, <2>3, <3>1, <3>2, <3>3 DEF SafariInv, QueueInv, OnDriver
  <2>. QED BY <1>1, <1>2, <1>4, <2>2, <2>3 DEF TurnsTo
<1>. QED BY <1>1, <1>2, <1>3, <1>4

\* What else a call's step needs: what it selects, what it reaches, what it closes.
LEMMA CallKeeps ==
  ASSUME SafariInv, NEW o \in Ops, NEW k \in SafariCall, CallFits(k),
         op' = [op EXCEPT ![o] = k], Enters(o, k) \/ TurnsTo(o, k),
         k.pc = "selected" => selected' = k.page,
         selected' = selected \/ TurnsTo(o, k),
         \/ hits' = hits
         \/ op[o].pc = "selected" /\ hits' = hits \cup {<<o, selected>>},
         pageState' \in [Windows -> {"none", "open", "shut"}],
         closing' \subseteq Windows, shut' \in BOOLEAN, sessionGone' \in BOOLEAN,
         window' \subseteq Windows, selected' \in Windows,
         k.kind = "closePage" /\ k.pc \in OnDriver \cup {"queued"} =>
           /\ pageState'[k.page] = "shut"
           /\ k.page \in window' => k.page \in closing' \/ shut',
         \A p \in Ops : p # o /\ Closing(p) =>
           /\ pageState'[op[p].page] = "shut"
           /\ op[p].page \in window' => op[p].page \in closing' \/ shut',
         shut' => \A h \in Windows : pageState'[h] # "open"
  PROVE  SafariInv'
<1>1. /\ op' \in [Ops -> SafariCall] /\ \A p \in Ops : CallFits(op'[p])
      /\ op'[o] = k /\ \A p \in Ops : p # o => op'[p] = op[p]
      /\ queue' \in Seq(Ops) /\ QueueInv'
  BY CallGoesOn
<1>2. SelectedInv'
  <2>1. ASSUME NEW p \in Ops, p # o, op[p].pc = "selected"
        PROVE  selected' = selected
    BY <2>1 DEF TurnsTo, SafariInv, QueueInv, OnDriver
  <2>. QED BY <1>1, <2>1 DEF SafariInv, SelectedInv
<1>3. HitInv'
  <2>1. ASSUME NEW hit \in hits
        PROVE  \E p \in Ops :
                 hit = <<p, op'[p].page>> /\ op'[p].kind \in {"onPage", "closePage"}
    <3>1. PICK p \in Ops : hit = <<p, op[p].page>> /\ op[p].kind \in {"onPage", "closePage"}
      BY DEF SafariInv, HitInv
    <3>2. op'[p].page = op[p].page /\ op'[p].kind = op[p].kind
      BY <1>1, <3>1 DEF Enters, TurnsTo
    <3>. QED BY <3>1, <3>2
  <2>2. ASSUME op[o].pc = "selected"
        PROVE  <<o, selected>> = <<o, op'[o].page>> /\ op'[o].kind \in {"onPage", "closePage"}
    <3>1. /\ selected = op[o].page /\ op[o].kind \in {"onPage", "closePage"}
      BY <2>2 DEF SafariInv, SelectedInv, SafariTypeOK, CallFits
    <3>2. TurnsTo(o, k)
      BY <3>1 DEF Enters
    <3>. QED BY <1>1, <3>1, <3>2 DEF TurnsTo
  <2>. QED BY <2>1, <2>2 DEF HitInv
<1>4. ClosingInv'
  BY <1>1 DEF ClosingInv, Closing
<1>5. SafariTypeOK'
  BY <1>1 DEF SafariTypeOK
<1>. QED BY <1>1, <1>2, <1>3, <1>4, <1>5 DEF SafariInv

LEMMA CallsKeep ==
  ASSUME SafariInv, NEW o \in Ops, NEW kind \in OpKinds, NEW h \in Windows \cup {NoWindow},
         Call(o, kind, h)
  PROVE  SafariInv'
<1>1. PICK pc \in {"refused", "queued"} :
        /\ op' = [op EXCEPT ![o] = [kind |-> kind, page |-> h, pc |-> pc]]
        /\ pc = "queued" => queue' = Append(queue, o)
        /\ pc = "refused" => queue' = queue
  <2>1. \/ Mark(o, kind, h, "refused") /\ UNCHANGED queue
        \/ Mark(o, kind, h, "queued") /\ queue' = Append(queue, o)
    BY DEF Call
  <2>. QED BY <2>1 DEF Mark
<1>2. /\ op[o].kind = "none" /\ kind \in {"newPage", "pages", "onPage"}
      /\ kind = "onPage" => h \in Windows
  BY DEF Call, SafariInv, SafariTypeOK, CallFits
<1> DEFINE k == [kind |-> kind, page |-> h, pc |-> pc]
<1>3. k \in SafariCall /\ CallFits(k) /\ k.kind = kind /\ k.pc = pc
  BY <1>2 DEF SafariCall, CallFits
<1>4. Enters(o, k)
  BY <1>1, <1>2, <1>3 DEF Enters
<1> HIDE DEF k
<1>. QED BY <1>1, <1>2, <1>3, <1>4, CallKeeps DEF Call, SafariInv, SafariTypeOK, ClosingInv, k

LEMMA CloseWindowKeeps ==
  ASSUME SafariInv, NEW o \in Ops, NEW h \in Windows, CloseWindow(o, h)
  PROVE  SafariInv'
<1> DEFINE k == [kind |-> "closePage", page |-> h, pc |-> "queued"]
<1>1. /\ op' = [op EXCEPT ![o] = k] /\ queue' = Append(queue, o)
      /\ op[o].kind = "none" /\ pageState' = [pageState EXCEPT ![h] = "shut"]
      /\ closing' = closing \cup {h}
      /\ UNCHANGED <<shut, sessionGone, window, selected, hits>>
  BY DEF CloseWindow, Mark, SafariInv, SafariTypeOK, CallFits
<1>2. k \in SafariCall /\ CallFits(k) /\ k.kind = "closePage" /\ k.pc = "queued" /\ k.page = h
  BY DEF SafariCall, CallFits, OpKinds
<1> HIDE DEF k
<1>3. Enters(o, k)
  BY <1>1, <1>2 DEF Enters
<1>4. /\ pageState' \in [Windows -> {"none", "open", "shut"}] /\ pageState'[h] = "shut"
      /\ \A g \in Windows : pageState'[g] = pageState[g] \/ pageState'[g] = "shut"
  BY <1>1 DEF SafariInv, SafariTypeOK
<1>5. \A p \in Ops : Closing(p) => op[p].page \in Windows
  BY DEF Closing, SafariInv, SafariTypeOK, CallFits
<1>. QED BY ZenonT(60), <1>1, <1>2, <1>3, <1>4, <1>5, CallKeeps DEF SafariInv, SafariTypeOK, ClosingInv

LEMMA CloseSessionKeeps ==
  ASSUME SafariInv, NEW o \in Ops, CloseSession(o)
  PROVE  SafariInv'
<1> DEFINE k == [kind |-> "close", page |-> NoWindow, pc |-> "queued"]
<1>1. /\ op' = [op EXCEPT ![o] = k] /\ queue' = Append(queue, o)
      /\ op[o].kind = "none" /\ shut' = TRUE /\ closing' = {}
      /\ UNCHANGED <<sessionGone, window, selected, hits>>
  BY DEF CloseSession, Mark, SafariInv, SafariTypeOK, CallFits
<1>2. k \in SafariCall /\ CallFits(k) /\ k.kind = "close" /\ k.pc = "queued"
  BY DEF SafariCall, CallFits, OpKinds
<1> HIDE DEF k
<1>3. Enters(o, k)
  BY <1>1, <1>2 DEF Enters
<1>4. /\ pageState' \in [Windows -> {"none", "open", "shut"}]
      /\ \A g \in Windows : pageState'[g] # "open"
      /\ \A g \in Windows : pageState[g] = "shut" => pageState'[g] = "shut"
  BY DEF CloseSession, SafariInv, SafariTypeOK
<1>5. \A p \in Ops : Closing(p) => op[p].page \in Windows
  BY DEF Closing, SafariInv, SafariTypeOK, CallFits
<1>. QED BY <1>1, <1>2, <1>3, <1>4, <1>5, CallKeeps DEF SafariInv, SafariTypeOK, ClosingInv

\* What the call at the head of the queue is.
LEMMA HeadRuns ==
  ASSUME SafariInv, NEW o \in Ops, op[o].pc \in OnDriver \/ Turn(o)
  PROVE  /\ op[o] \in SafariCall /\ CallFits(op[o]) /\ Head(queue) = o
         /\ op[o].pc \in OnDriver \cup {"queued"}
         /\ \A p \in Ops : p # o => op[p].pc \notin OnDriver
<1>1. Head(queue) = o /\ op[o].pc \in OnDriver \cup {"queued"}
  BY DEF Turn, SafariInv, QueueInv
<1>. QED BY <1>1 DEF SafariInv, SafariTypeOK, QueueInv

\* A running call goes from one place to another and keeps what it is.
Onward(o, pc, k) ==
  /\ k \in SafariCall /\ CallFits(k) /\ k.kind = op[o].kind /\ k.page = op[o].page /\ k.pc = pc
  /\ op' = [op EXCEPT ![o] = k]

LEMMA GoesOnward ==
  ASSUME SafariInv, NEW o \in Ops, op[o].pc \in OnDriver \/ Turn(o),
         NEW pc \in OnDriver \cup {"failed", "done"},
         pc = "selected" => op[o].kind \in {"onPage", "closePage"},
         op' = [op EXCEPT ![o].pc = pc]
  PROVE  \E k : Onward(o, pc, k)
<1>1. op[o] \in SafariCall /\ CallFits(op[o]) /\ op[o].pc # "none"
  BY HeadRuns DEF OnDriver
<1>2. PICK k : k = [op[o] EXCEPT !.pc = pc]
  OBVIOUS
<1>3. /\ k \in SafariCall /\ k.kind = op[o].kind /\ k.page = op[o].page /\ k.pc = pc
  BY <1>1, <1>2 DEF SafariCall, OnDriver
<1>4. CallFits(k)
  BY <1>1, <1>3 DEF CallFits, OnDriver
<1>5. op' = [op EXCEPT ![o] = k]
  BY <1>2
<1>. QED BY <1>3, <1>4, <1>5 DEF Onward

\* A call that runs at the head and then settles, or goes on to its next request.
LEMMA ServedKeeps ==
  ASSUME SafariInv, NEW o \in Ops, op[o].pc \in OnDriver \/ Turn(o),
         NEW pc \in OnDriver \cup {"failed", "done"},
         pc = "selected" => op[o].kind \in {"onPage", "closePage"} /\ selected' = op[o].page,
         op' = [op EXCEPT ![o].pc = pc],
         \/ pc \in OnDriver /\ queue' = queue
         \/ pc \in {"failed", "done"} /\ queue' = Tail(queue),
         \/ hits' = hits
         \/ op[o].pc = "selected" /\ hits' = hits \cup {<<o, selected>>},
         pageState' \in [Windows -> {"none", "open", "shut"}],
         closing' \subseteq Windows, shut' = shut, sessionGone' \in BOOLEAN,
         window' \subseteq Windows, selected' \in Windows,
         op[o].kind = "closePage" /\ pc \in OnDriver =>
           pageState' = pageState /\ closing' = closing /\ window' = window,
         \A p \in Ops : p # o /\ Closing(p) =>
           /\ pageState'[op[p].page] = "shut"
           /\ op[p].page \in window' => op[p].page \in closing' \/ shut',
         shut' => \A h \in Windows : pageState'[h] # "open"
  PROVE  SafariInv'
<1>1. PICK k : Onward(o, pc, k)
  BY GoesOnward
<1>2. /\ k \in SafariCall /\ CallFits(k) /\ k.kind = op[o].kind /\ k.page = op[o].page
      /\ k.pc = pc /\ op' = [op EXCEPT ![o] = k]
  BY <1>1 DEF Onward
<1>3. TurnsTo(o, k)
  BY <1>2, HeadRuns DEF TurnsTo
<1>4. shut' \in BOOLEAN
  BY DEF SafariInv, SafariTypeOK
<1>5. ASSUME k.kind = "closePage", k.pc \in OnDriver \cup {"queued"}
      PROVE  /\ pageState'[k.page] = "shut"
             /\ k.page \in window' => k.page \in closing' \/ shut'
  <2>1. pageState' = pageState /\ closing' = closing /\ window' = window
    BY <1>2, <1>5 DEF OnDriver
  <2>2. Closing(o)
    <3>1. op[o].kind = "closePage" /\ op[o].pc \in OnDriver \cup {"queued"}
      BY <1>2, <1>5, HeadRuns
    <3>. QED BY <3>1 DEF Closing, OnDriver
  <2>. QED BY <1>2, <2>1, <2>2 DEF SafariInv, ClosingInv
<1>. QED BY <1>2, <1>3, <1>4, <1>5, CallKeeps

\* What other calls keep when no page and no window changes.
LEMMA OthersKeep ==
  ASSUME SafariInv, NEW o \in Ops, op[o].pc \in OnDriver \/ Turn(o),
         NEW pc \in OnDriver \cup {"failed", "done"},
         pc = "selected" => op[o].kind \in {"onPage", "closePage"} /\ selected' = op[o].page,
         op' = [op EXCEPT ![o].pc = pc],
         \/ pc \in OnDriver /\ queue' = queue
         \/ pc \in {"failed", "done"} /\ queue' = Tail(queue),
         \/ hits' = hits
         \/ op[o].pc = "selected" /\ hits' = hits \cup {<<o, selected>>},
         selected' \in Windows, sessionGone' \in BOOLEAN,
         window' = window \/ (window' = {} /\ pc \in {"failed", "done"}),
         UNCHANGED <<pageState, closing, shut>>
  PROVE  SafariInv'
<1>1. /\ pageState \in [Windows -> {"none", "open", "shut"}]
      /\ closing \subseteq Windows /\ window \subseteq Windows
      /\ shut => \A h \in Windows : pageState[h] # "open"
  BY DEF SafariInv, SafariTypeOK, ClosingInv
<1>2. ASSUME NEW p \in Ops, Closing(p)
      PROVE  /\ pageState'[op[p].page] = "shut"
             /\ op[p].page \in window' => op[p].page \in closing' \/ shut'
  BY <1>2 DEF SafariInv, ClosingInv
<1>3. pc \in OnDriver => window' = window
  BY DEF OnDriver
<1>. QED BY <1>1, <1>2, <1>3, ServedKeeps

LEMMA BeginKeeps == ASSUME SafariInv, NEW o \in Ops, Begin(o) PROVE SafariInv'
<1>1. PICK pc \in {"request", "failed"} :
        /\ op' = [op EXCEPT ![o].pc = pc]
        /\ pc = "request" => queue' = queue
        /\ pc = "failed" => queue' = Tail(queue)
  BY DEF Begin, Runs, Finishes, Settle
<1>2. /\ Turn(o) /\ UNCHANGED <<pageState, closing, shut, sessionGone, window, selected, hits>>
  BY DEF Begin
<1>3. pc \in OnDriver \cup {"failed", "done"} /\ (pc = "request" <=> pc \in OnDriver)
  BY DEF OnDriver
<1>. QED BY <1>1, <1>2, <1>3, OthersKeep DEF SafariInv, SafariTypeOK

LEMMA SwitchKeeps == ASSUME SafariInv, NEW o \in Ops, Switch(o) PROVE SafariInv'
<1> DEFINE h == op[o].page
<1>1. /\ op[o].pc \in OnDriver /\ op[o].kind \in {"onPage", "newPage", "closePage"}
      /\ selected' = IF h \in window THEN h ELSE selected
      /\ UNCHANGED <<pageState, closing, shut, sessionGone, window, hits>>
      /\ IF h \notin window \/ (op[o].kind # "closePage" /\ pageState[h] # "open")
         THEN Finishes(o, "failed")
         ELSE IF op[o].kind = "newPage" THEN Finishes(o, "done") ELSE Runs(o, "selected")
  BY DEF Switch, OnDriver
<1>2. selected' \in Windows /\ sessionGone' \in BOOLEAN
  BY <1>1 DEF SafariInv, SafariTypeOK
<1>3. CASE Finishes(o, "failed") \/ Finishes(o, "done")
  BY <1>1, <1>2, <1>3, OthersKeep DEF Finishes, Settle
<1>4. CASE Runs(o, "selected") /\ h \in window /\ op[o].kind # "newPage"
  BY <1>1, <1>2, <1>4, OthersKeep DEF Runs, OnDriver
<1>. QED BY <1>1, <1>3, <1>4

LEMMA ExecuteKeeps == ASSUME SafariInv, NEW o \in Ops, Execute(o) PROVE SafariInv'
<1>1. PICK pc \in {"done", "failed"} : op' = [op EXCEPT ![o].pc = pc] /\ queue' = Tail(queue)
  BY DEF Execute, Finishes, Settle
<1>2. op[o].pc = "selected" /\ op[o].pc \in OnDriver
  BY DEF Execute, OnDriver
<1>3. hits' = hits \/ hits' = hits \cup {<<o, selected>>}
  BY DEF Execute
<1>4. UNCHANGED <<pageState, closing, shut, sessionGone, window, selected>>
  BY DEF Execute
<1>5. pc \notin OnDriver /\ pc # "selected"
  BY DEF OnDriver
<1>. QED BY <1>1, <1>2, <1>3, <1>4, <1>5, OthersKeep DEF SafariInv, SafariTypeOK

LEMMA SessionEndsKeep ==
  ASSUME SafariInv, NEW o \in Ops, DeleteSession(o) \/ RequestFails(o)
  PROVE  SafariInv'
<1>1. PICK pc \in {"done", "failed"} : op' = [op EXCEPT ![o].pc = pc] /\ queue' = Tail(queue)
  BY DEF DeleteSession, RequestFails, Finishes, Settle
<1>2. /\ op[o].pc \in OnDriver /\ pc \notin OnDriver /\ pc # "selected"
      /\ window' = window \/ window' = {}
      /\ sessionGone' \in BOOLEAN
      /\ UNCHANGED <<pageState, closing, shut, selected, hits>>
  BY DEF DeleteSession, RequestFails, OnDriver, SafariInv, SafariTypeOK
<1>. QED BY <1>1, <1>2, OthersKeep DEF SafariInv, SafariTypeOK

LEMMA DeleteWindowKeeps == ASSUME SafariInv, NEW o \in Ops, DeleteWindow(o) PROVE SafariInv'
<1>1. /\ op[o].pc = "selected" /\ op[o].pc \in OnDriver /\ op[o].kind = "closePage"
      /\ op' = [op EXCEPT ![o].pc = "done"] /\ queue' = Tail(queue)
      /\ UNCHANGED <<pageState, shut, sessionGone, selected>>
      /\ IF selected \in window
         THEN /\ hits' = hits \cup {<<o, selected>>}
              /\ window' = window \ {selected}
              /\ closing' = closing \ {op[o].page}
         ELSE UNCHANGED <<hits, window, closing>>
  BY DEF DeleteWindow, Finishes, Settle, OnDriver
<1>2. selected = op[o].page
  BY <1>1 DEF SafariInv, SelectedInv
<1>3. ASSUME NEW p \in Ops, Closing(p)
      PROVE  /\ pageState'[op[p].page] = "shut"
             /\ op[p].page \in window' => op[p].page \in closing' \/ shut'
  BY <1>1, <1>2, <1>3 DEF SafariInv, ClosingInv
<1>4. /\ closing' \subseteq Windows /\ window' \subseteq Windows
      /\ "done" \notin OnDriver /\ selected' \in Windows /\ sessionGone' \in BOOLEAN
      /\ pageState' \in [Windows -> {"none", "open", "shut"}]
      /\ shut' => \A h \in Windows : pageState'[h] # "open"
  BY <1>1 DEF SafariInv, SafariTypeOK, ClosingInv, OnDriver
<1>. QED BY <1>1, <1>3, <1>4, ServedKeeps

LEMMA ListPagesKeeps == ASSUME SafariInv, NEW o \in Ops, ListPages(o) PROVE SafariInv'
<1>1. /\ op[o].pc \in OnDriver /\ op[o].kind = "pages"
      /\ UNCHANGED <<shut, sessionGone, window, selected, hits>>
  BY DEF ListPages, OnDriver
<1>2. CASE shut
  BY <1>1, <1>2, OthersKeep DEF ListPages, Finishes, Settle, OnDriver, SafariInv, SafariTypeOK
<1>3. CASE ~shut
  <2>1. /\ op' = [op EXCEPT ![o].pc = "done"] /\ queue' = Tail(queue)
        /\ closing' = closing \cap window
        /\ pageState' = [h \in Windows |-> Tracks(h)]
    BY <1>3 DEF ListPages, Finishes, Settle
  <2>2. /\ pageState \in [Windows -> {"none", "open", "shut"}]
        /\ closing \subseteq Windows /\ window \subseteq Windows
        /\ selected' \in Windows /\ sessionGone' \in BOOLEAN
        /\ "done" \notin OnDriver
    BY <1>1 DEF SafariInv, SafariTypeOK, OnDriver
  <2>3. pageState' \in [Windows -> {"none", "open", "shut"}] /\ closing' \subseteq Windows
    BY <2>1, <2>2 DEF Tracks
  <2>4. ASSUME NEW p \in Ops, Closing(p)
        PROVE  /\ pageState'[op[p].page] = "shut"
               /\ op[p].page \in window' => op[p].page \in closing' \/ shut'
    <3>1. /\ pageState[op[p].page] = "shut" /\ op[p].page \in Windows
          /\ op[p].page \in window => op[p].page \in closing
      BY <1>3, <2>4 DEF Closing, SafariInv, SafariTypeOK, CallFits, ClosingInv
    <3>. QED BY <1>1, <2>1, <3>1 DEF Tracks
  <2>. QED BY <1>1, <1>3, <2>1, <2>2, <2>3, <2>4, ServedKeeps
<1>. QED BY <1>2, <1>3

LEMMA NewWindowKeeps ==
  ASSUME SafariInv, NEW o \in Ops, NEW h \in Windows, NewWindow(o, h)
  PROVE  SafariInv'
<1>1. PICK pc \in {"failed", "switch"} : pc = IF shut THEN "failed" ELSE "switch"
  OBVIOUS
<1>2. /\ op[o].kind = "newPage" /\ op[o].pc = "request" /\ op[o].pc \in OnDriver
      /\ h \notin window /\ pageState[h] = "none"
      /\ window' = window \cup {h}
      /\ op' = [op EXCEPT ![o] = [op[o] EXCEPT !.pc = pc, !.page = h]]
      /\ UNCHANGED <<closing, shut, sessionGone, selected, hits>>
      /\ IF shut THEN Settle /\ UNCHANGED pageState
         ELSE pageState' = [pageState EXCEPT ![h] = "open"] /\ UNCHANGED queue
  BY <1>1 DEF NewWindow, OnDriver
<1>3. op[o] \in SafariCall /\ CallFits(op[o]) /\ Head(queue) = o
  BY <1>2, HeadRuns
<1>4. PICK k : k = [op[o] EXCEPT !.pc = pc, !.page = h]
  OBVIOUS
<1>5. /\ k \in SafariCall /\ k.kind = "newPage" /\ k.page = h /\ k.pc = pc
      /\ op' = [op EXCEPT ![o] = k]
  BY <1>2, <1>3, <1>4 DEF SafariCall, OnDriver
<1>6. CallFits(k)
  BY <1>5 DEF CallFits
<1>7. TurnsTo(o, k)
  BY <1>1, <1>2, <1>3, <1>5 DEF TurnsTo, Settle, OnDriver
<1>8. /\ pageState' \in [Windows -> {"none", "open", "shut"}]
      /\ \A g \in Windows : g # h => pageState'[g] = pageState[g]
      /\ shut => pageState' = pageState
  BY <1>2 DEF SafariInv, SafariTypeOK
<1>9. ASSUME NEW p \in Ops, Closing(p)
      PROVE  /\ pageState'[op[p].page] = "shut"
             /\ op[p].page \in window' => op[p].page \in closing' \/ shut'
  <2>1. /\ pageState[op[p].page] = "shut" /\ op[p].page \in Windows
        /\ op[p].page \in window => op[p].page \in closing \/ shut
    BY <1>9 DEF Closing, SafariInv, SafariTypeOK, CallFits, ClosingInv
  <2>2. op[p].page # h
    BY <1>2, <2>1
  <2>. QED BY <1>2, <1>8, <2>1, <2>2
<1>10. shut' => \A g \in Windows : pageState'[g] # "open"
  BY <1>2, <1>8 DEF SafariInv, ClosingInv
<1>11. /\ closing' \subseteq Windows /\ shut' \in BOOLEAN /\ sessionGone' \in BOOLEAN
       /\ window' \subseteq Windows /\ selected' \in Windows
       /\ k.pc # "selected" /\ k.kind # "closePage"
  BY <1>2, <1>5 DEF SafariInv, SafariTypeOK
<1>12. selected' = selected /\ hits' = hits
  BY <1>2
<1>. QED BY <1>5, <1>6, <1>7, <1>8, <1>9, <1>10, <1>11, <1>12, CallKeeps

\* Windows come and go by themselves, or nothing happens.
LEMMA WindowsKeep ==
  ASSUME SafariInv,
         UNCHANGED <<op, queue, pageState, closing, shut, sessionGone, selected, hits>>,
         \/ window' \subseteq window
         \/ \E h \in Windows : pageState[h] = "none" /\ window' = window \cup {h}
  PROVE  SafariInv'
<1>1. ASSUME NEW p \in Ops, Closing(p), op[p].page \in window'
      PROVE  op[p].page \in closing \/ shut
  BY <1>1 DEF SafariInv, ClosingInv
<1>2. ClosingInv'
  BY <1>1 DEF SafariInv, ClosingInv, Closing
<1>3. SafariTypeOK'
  BY DEF SafariInv, SafariTypeOK, CallFits
<1>. QED BY <1>2, <1>3 DEF SafariInv, QueueInv, SelectedInv, HitInv, Apart, InLine

LEMMA SafariStepKeeps == ASSUME SafariInv, [SafariNext]_safariVars PROVE SafariInv'
<1>1. CASE UNCHANGED safariVars
  BY <1>1, WindowsKeep DEF safariVars
<1>2. CASE \E o \in Ops, kind \in OpKinds, h \in Windows \cup {NoWindow} : Call(o, kind, h)
  BY <1>2, CallsKeep
<1>3. CASE \E o \in Ops, h \in Windows : CloseWindow(o, h) \/ NewWindow(o, h)
  BY <1>3, CloseWindowKeeps, NewWindowKeeps
<1>4. CASE \E o \in Ops : CloseSession(o)
  BY <1>4, CloseSessionKeeps
<1>5. CASE \E o \in Ops : \/ Begin(o) \/ ListPages(o) \/ Switch(o) \/ Execute(o)
                          \/ DeleteWindow(o) \/ DeleteSession(o) \/ RequestFails(o)
  BY <1>5, BeginKeeps, ListPagesKeeps, SwitchKeeps, ExecuteKeeps, DeleteWindowKeeps, SessionEndsKeep
<1>6. CASE \E h \in Windows : Appear(h) \/ Vanish(h)
  BY <1>6, WindowsKeep DEF Appear, Vanish
<1>. QED BY <1>1, <1>2, <1>3, <1>4, <1>5, <1>6 DEF SafariNext, Serve

\* A Safari session keeps its inductive invariant, for any windows and calls.
THEOREM SafariInvariant == SafariSpec => []SafariInv
<1>1. SafariInit => SafariInv
  BY SafariInitHolds
<1>2. SafariInv /\ [SafariNext]_safariVars => SafariInv'
  BY SafariStepKeeps
<1>. QED BY <1>1, <1>2, PTL DEF SafariSpec

\* An operation meets the window of its own page, and a closed page stays closed, however
\* windows come and go (operation-queue.ts; index.ts, pages and switchTo).
THEOREM WindowsOwned == SafariSpec => []WindowsAreOwn
<1>1. ASSUME SafariInv PROVE WindowsAreOwn
  <2>1. OwnWindowOnly
    <3>1. ASSUME NEW hit \in hits PROVE hit[2] = op[hit[1]].page
      <4>1. PICK o \in Ops : hit = <<o, op[o].page>>
        BY <1>1 DEF SafariInv, HitInv
      <4>. QED BY <4>1
    <3>. QED BY <3>1 DEF OwnWindowOnly
  <2>2. ClosedStaysClosed
    BY <1>1 DEF SafariInv, ClosingInv, Closing, OnDriver, ClosedStaysClosed
  <2>. QED BY <2>1, <2>2 DEF WindowsAreOwn
<1>. QED BY <1>1, SafariInvariant, PTL
=============================================================================
