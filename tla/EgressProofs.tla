---------------------------- MODULE EgressProofs -----------------------------
(***************************************************************************)
(* What leaves the machine, for every number of transfers, generations and *)
(* requests and every limit, however late a policy decision, a DNS answer, *)
(* a socket event or a timer arrives: download budgets, the choke point    *)
(* that every request of a page goes through, and the engagement scope.    *)
(*                                                                         *)
(* The properties the run checks are not inductive.  For the budgets,      *)
(* Sound says what a connection attempt is at each of its stages, and      *)
(* BudgetInv counts the attempts and the transfers that hold a slot.  At   *)
(* the choke point, Judged says what one request has been allowed and has  *)
(* contacted, and SwapInv that a frozen context admits nobody.  For the    *)
(* scope, AdmissionsCover says that what pace remembers is every paid      *)
(* request that still counts, and WindowsHold is the rate for the windows  *)
(* to come as well as those that have begun; GrantInv says that a grant    *)
(* being completed was authorized on disk.                                 *)
(*                                                                         *)
(* And the profile of the login browser, for any servers, paths and        *)
(* versions: WindowsInv says of which process and launch each Chrome is,   *)
(* OpenInv what an open has read by each of its stages, which holds of a   *)
(* server that is alone on the profile (Alone).                            *)
(***************************************************************************)
EXTENDS Downloads, ChokePoint, EngagementScope, LoginBrowser, FiniteSetTheorems, TLAPS

-----------------------------------------------------------------------------
(* Transfers and connection attempts (Downloads).                          *)

\* An attempt at its stages: no socket before every callback has settled, none that
\* connects or stays open once the attempt was stopped, drained only when both ended.
Sound(a) ==
  /\ a.stage = "none" => a.socket = "none" /\ ~a.drained
  /\ a.stage \in Callbacks => a.socket = "none"
  /\ a.stage \in {"tcp", "lease"} => a.settled /\ a.socket # "none"
  /\ a.drained => a.terminal /\ a.settled /\ a.socket \in {"none", "closed"}

\* What ended was stopped, and what was stopped and has ended is drained.
Settled(a) ==
  /\ a.terminal => a.socket \notin {"connecting", "open"}
  /\ a.stage \in Callbacks /\ a.settled => a.terminal
  /\ a.socket = "closed" => a.terminal
  /\ a.stage # "none" /\ a.terminal /\ a.settled /\ a.socket \in {"none", "closed"} => a.drained

\* A transfer between hops has no attempt, and the attempts of a revoked generation
\* have been stopped.
AttemptInv ==
  \A t \in Transfers :
    /\ Sound(attempt[t]) /\ Settled(attempt[t])
    /\ transfer[t].at \in {"idle", "hop"} => attempt[t].stage = "none"
    /\ transfer[t].of \in revoked /\ Admitted(attempt[t]) => attempt[t].terminal

AdmittedNow == {t \in Transfers : Admitted(attempt[t])}
RunningNow == {t \in Transfers : Running(t)}

\* Each counter is the number of those that hold a slot.
BudgetInv ==
  /\ connections = Cardinality(AdmittedNow) /\ connections <= Limit
  /\ transfers = Cardinality(RunningNow) /\ transfers <= Limit

DownloadsInv == TypeOK /\ AttemptInv /\ BudgetInv
-----------------------------------------------------------------------------
(* Attempts.                                                               *)

\* stop: whatever an admitted attempt was doing, it is terminal, no socket of it connects
\* or stays open, and it is drained if nothing of it is left; any other is left alone.
LEMMA StopEnds ==
  ASSUME NEW a \in AttemptRecord, Sound(a)
  PROVE  /\ Stopped(a) \in AttemptRecord
         /\ Sound(Stopped(a))
         /\ Stopped(a).stage = a.stage
         /\ a.drained => Stopped(a).drained
         /\ Admitted(a) => Settled(Stopped(a)) /\ Stopped(a).terminal
         /\ ~Admitted(a) => Stopped(a) = a
<1> DEFINE b == [a EXCEPT !.terminal = TRUE,
                          !.socket = IF @ \in {"connecting", "open"} THEN "closing" ELSE @]
<1>1. /\ b \in AttemptRecord /\ b.stage = a.stage /\ b.terminal
      /\ b.settled = a.settled /\ b.drained = a.drained
      /\ b.socket = IF a.socket \in {"connecting", "open"} THEN "closing" ELSE a.socket
  BY DEF AttemptRecord
<1>2. Stopped(a) = IF Admitted(a) THEN CheckDrained(b) ELSE a
  BY DEF Stopped
<1> HIDE DEF b
<1>3. /\ [b EXCEPT !.drained = TRUE] \in AttemptRecord
      /\ [b EXCEPT !.drained = TRUE].stage = b.stage
      /\ [b EXCEPT !.drained = TRUE].terminal = b.terminal
      /\ [b EXCEPT !.drained = TRUE].settled = b.settled
      /\ [b EXCEPT !.drained = TRUE].socket = b.socket
      /\ [b EXCEPT !.drained = TRUE].drained
  BY <1>1 DEF AttemptRecord
<1> QED
  BY <1>1, <1>2, <1>3 DEF CheckDrained, Admitted, Sound, Settled, AttemptRecord, Callbacks

\* What the continuation of an await makes of an attempt under way.
LEMMA AfterAnAwait ==
  ASSUME NEW a \in AttemptRecord, Sound(a), Settled(a), Pending(a),
         NEW stage \in {"dns", "addresses", "tcp"}
  PROVE  /\ After(a, stage) \in AttemptRecord
         /\ Sound(After(a, stage)) /\ Settled(After(a, stage))
         /\ After(a, stage).stage # "none"
         /\ After(a, stage).terminal = a.terminal
<1>1. CASE a.terminal
  BY <1>1 DEF After, CheckDrained, Sound, Settled, Pending, Callbacks, AttemptRecord
<1>2. CASE ~a.terminal /\ stage = "tcp"
  BY <1>2 DEF After, Sound, Settled, Pending, Callbacks, AttemptRecord
<1>3. CASE ~a.terminal /\ stage # "tcp"
  BY <1>3 DEF After, Sound, Settled, Pending, Callbacks, AttemptRecord
<1> QED
  BY <1>1, <1>2, <1>3

\* The attempts and the transfers that hold slots are finitely many.
LEMMA SlotsFinite ==
  /\ IsFiniteSet(AdmittedNow) /\ Cardinality(AdmittedNow) \in Nat
  /\ IsFiniteSet(RunningNow) /\ Cardinality(RunningNow) \in Nat
<1>1. AdmittedNow \subseteq Transfers /\ RunningNow \subseteq Transfers
  BY DEF AdmittedNow, RunningNow
<1> QED
  BY <1>1, DownloadsAssumption, FS_Subset, FS_CardinalityType

\* Attempts that move on give back a slot each when they drain, and no other.
LEMMA DrainedGiveBack ==
  ASSUME TypeOK, BudgetInv, NEW new \in [Transfers -> AttemptRecord], Attempts(new),
         \A t \in Transfers : /\ new[t].stage = "none" <=> attempt[t].stage = "none"
                              /\ attempt[t].drained => new[t].drained
  PROVE  /\ connections' \in Nat /\ connections' <= Limit
         /\ connections' = Cardinality(AdmittedNow')
<1> DEFINE over == {t \in Transfers : Admitted(attempt[t]) /\ new[t].drained}
<1>1. over \subseteq AdmittedNow /\ AdmittedNow' = AdmittedNow \ over
  BY DEF AdmittedNow, Admitted, Attempts
<1>2. IsFiniteSet(over) /\ Cardinality(over) \in Nat
  BY <1>1, SlotsFinite, FS_Subset, FS_CardinalityType
<1>3. AdmittedNow \cap over = over
  BY <1>1
<1>4. /\ IsFiniteSet(AdmittedNow \ over)
      /\ Cardinality(AdmittedNow \ over) = Cardinality(AdmittedNow) - Cardinality(AdmittedNow \cap over)
  BY SlotsFinite, FS_Difference
<1>5. connections' = Cardinality(AdmittedNow) - Cardinality(over)
  BY DEF Attempts, BudgetInv
<1>6. Cardinality(AdmittedNow \ over) \in Nat
  BY <1>4, FS_CardinalityType
<1>7. connections' = Cardinality(AdmittedNow \ over)
  BY <1>3, <1>4, <1>5
<1>8. Cardinality(AdmittedNow) \in Nat /\ Cardinality(AdmittedNow) <= Limit
  BY SlotsFinite DEF BudgetInv
<1> HIDE DEF over
<1>9. connections' <= Limit
  BY <1>2, <1>5, <1>8, DownloadsAssumption
<1> QED
  BY <1>1, <1>6, <1>7, <1>9

\* A step that stops or advances attempts while no transfer starts or ends.
LEMMA AttemptsMove ==
  ASSUME DownloadsInv, NEW new \in [Transfers -> AttemptRecord], Attempts(new),
         transfer' \in [Transfers -> TransferRecord], revoked' \subseteq Generations,
         UNCHANGED transfers,
         \A t \in Transfers :
           /\ new[t].stage = "none" <=> attempt[t].stage = "none"
           /\ attempt[t].drained => new[t].drained
           /\ Sound(new[t]) /\ Settled(new[t])
           /\ Running(t)' <=> Running(t)
           /\ transfer'[t].at \in {"idle", "hop"} => transfer[t].at \in {"idle", "hop"}
           /\ transfer'[t].of \in revoked' /\ Admitted(new[t]) => new[t].terminal
  PROVE  DownloadsInv'
<1>1. /\ connections' \in Nat /\ connections' <= Limit
      /\ connections' = Cardinality(AdmittedNow')
  BY DrainedGiveBack DEF DownloadsInv
<1>2. attempt' = new
  BY DEF Attempts
<1>3. RunningNow' = RunningNow
  BY DEF RunningNow
<1>4. TypeOK'
  BY <1>1, <1>2 DEF DownloadsInv, TypeOK
<1>5. AttemptInv'
  BY <1>2 DEF DownloadsInv, AttemptInv
<1>6. BudgetInv'
  BY <1>1, <1>3 DEF DownloadsInv, BudgetInv
<1> QED
  BY <1>4, <1>5, <1>6 DEF DownloadsInv

\* The same for the attempt of one transfer, which stays stopped if it was.
LEMMA OneAttemptMoves ==
  ASSUME DownloadsInv, NEW t \in Transfers, NEW b \in AttemptRecord,
         Attempts([attempt EXCEPT ![t] = b]),
         UNCHANGED <<revoked, transfer, transfers>>,
         b.stage = "none" <=> attempt[t].stage = "none",
         attempt[t].drained => b.drained,
         attempt[t].terminal => b.terminal,
         Admitted(b) => Admitted(attempt[t]),
         Sound(b), Settled(b)
  PROVE  DownloadsInv'
<1> DEFINE new == [attempt EXCEPT ![t] = b]
<1>1. new \in [Transfers -> AttemptRecord] /\ new[t] = b
      /\ \A u \in Transfers : u # t => new[u] = attempt[u]
  BY DEF DownloadsInv, TypeOK
<1>2. Attempts(new)
  OBVIOUS
<1> HIDE DEF new
<1>3. \A u \in Transfers :
        /\ new[u].stage = "none" <=> attempt[u].stage = "none"
        /\ attempt[u].drained => new[u].drained
        /\ Sound(new[u]) /\ Settled(new[u])
        /\ transfer[u].of \in revoked /\ Admitted(new[u]) => new[u].terminal
  BY <1>1 DEF DownloadsInv, AttemptInv
<1> QED
  BY <1>1, <1>2, <1>3, AttemptsMove DEF DownloadsInv, TypeOK, Running

-----------------------------------------------------------------------------
(* Transfers.                                                              *)

\* Records of transfers and attempts at the transfer t.
LEMMA AtTransfer ==
  ASSUME DownloadsInv, NEW t \in Transfers
  PROVE  /\ transfer[t] \in TransferRecord /\ attempt[t] \in AttemptRecord
         /\ Sound(attempt[t]) /\ Settled(attempt[t])
         /\ transfer[t].at \in {"idle", "hop"} => attempt[t].stage = "none"
         /\ transfer[t].of \in revoked /\ Admitted(attempt[t]) => attempt[t].terminal
BY DEF DownloadsInv, TypeOK, AttemptInv

\* The work of a running transfer is over: it gives back its slot.
LEMMA EndGivesBack ==
  ASSUME DownloadsInv, NEW t \in Transfers, Running(t),
         NEW answer \in {"none", "ok", "again", "error"}, End(t, answer),
         UNCHANGED <<revoked, attempt, connections>>
  PROVE  DownloadsInv'
<1> DEFINE r == [transfer[t] EXCEPT !.at = "done", !.answer = IF @ = "none" THEN answer ELSE @]
<1>1. r \in TransferRecord /\ r.at = "done" /\ r.of = transfer[t].of
  BY AtTransfer DEF TransferRecord
<1>2. transfer' = [transfer EXCEPT ![t] = r] /\ transfers' = transfers - 1
  BY AtTransfer DEF End, TransferRecord, DownloadsInv, TypeOK
<1> HIDE DEF r
<1>3. /\ transfer' \in [Transfers -> TransferRecord]
      /\ transfer'[t] = r /\ \A u \in Transfers : u # t => transfer'[u] = transfer[u]
  BY <1>1, <1>2 DEF DownloadsInv, TypeOK
<1>4. t \in RunningNow /\ RunningNow' = RunningNow \ {t}
  BY <1>1, <1>3 DEF RunningNow, Running
<1>5. Cardinality(RunningNow') = Cardinality(RunningNow) - 1
  BY <1>4, SlotsFinite, FS_RemoveElement
<1>6. IsFiniteSet(RunningNow') /\ Cardinality(RunningNow') \in Nat
  BY <1>4, SlotsFinite, FS_RemoveElement, FS_CardinalityType
<1>7. transfers' \in Nat /\ transfers' = Cardinality(RunningNow') /\ transfers' <= Limit
  BY <1>2, <1>5, <1>6, DownloadsAssumption DEF DownloadsInv, TypeOK, BudgetInv
<1>8. AdmittedNow' = AdmittedNow
  BY DEF AdmittedNow
<1>9. TypeOK' /\ BudgetInv'
  BY <1>3, <1>7, <1>8 DEF DownloadsInv, TypeOK, BudgetInv
<1>10. AttemptInv'
  BY <1>1, <1>3 DEF DownloadsInv, AttemptInv
<1> QED
  BY <1>9, <1>10 DEF DownloadsInv

\* A transfer moves on while it runs, its attempt untouched.
LEMMA TransferMoves ==
  ASSUME DownloadsInv, NEW t \in Transfers, NEW r \in TransferRecord,
         transfer' = [transfer EXCEPT ![t] = r],
         UNCHANGED <<revoked, attempt, connections, transfers>>,
         r.at \in {"idle", "done"} <=> transfer[t].at \in {"idle", "done"},
         r.at \in {"idle", "hop"} => attempt[t].stage = "none",
         r.of = transfer[t].of \/ ~Admitted(attempt[t])
  PROVE  DownloadsInv'
<1>1. /\ transfer' \in [Transfers -> TransferRecord]
      /\ transfer'[t] = r /\ \A u \in Transfers : u # t => transfer'[u] = transfer[u]
  BY DEF DownloadsInv, TypeOK
<1>2. RunningNow' = RunningNow /\ AdmittedNow' = AdmittedNow
  BY <1>1 DEF RunningNow, Running, AdmittedNow
<1>3. TypeOK' /\ BudgetInv'
  BY <1>1, <1>2 DEF DownloadsInv, TypeOK, BudgetInv
<1>4. AttemptInv'
  BY <1>1 DEF DownloadsInv, AttemptInv
<1> QED
  BY <1>3, <1>4 DEF DownloadsInv

\* What Aborts does to the transfers: the running ones among ts are cancelled and
\* answered, and go on to their end.
LEMMA AbortsEffect ==
  ASSUME DownloadsInv, NEW ts \in SUBSET Transfers, Aborts(ts)
  PROVE  /\ transfer' \in [Transfers -> TransferRecord]
         /\ \A t \in Transfers : /\ transfer'[t].at = transfer[t].at
                                 /\ transfer'[t].of = transfer[t].of
<1> DEFINE r(t) == [transfer[t] EXCEPT !.cancelled = TRUE,
                                       !.answer = IF @ = "none" THEN "error" ELSE @]
<1>1. \A t \in Transfers : /\ transfer[t] \in TransferRecord /\ r(t) \in TransferRecord
                           /\ r(t).at = transfer[t].at /\ r(t).of = transfer[t].of
  BY AtTransfer DEF TransferRecord
<1>2. transfer' = [t \in Transfers |-> IF t \in ts /\ Running(t) THEN r(t) ELSE transfer[t]]
  BY DEF Aborts
<1> HIDE DEF r
<1> QED
  BY <1>1, <1>2

-----------------------------------------------------------------------------
(* The invariant.                                                          *)

LEMMA DownloadsStart == DownloadsInit => DownloadsInv
<1> SUFFICES ASSUME DownloadsInit PROVE DownloadsInv
  OBVIOUS
<1>1. /\ NoAttempt \in AttemptRecord /\ Sound(NoAttempt) /\ Settled(NoAttempt)
      /\ ~Admitted(NoAttempt) /\ NoAttempt.stage = "none"
  BY DEF NoAttempt, AttemptRecord, Sound, Settled, Admitted, Callbacks
<1>2. TypeOK
  BY <1>1, DownloadsAssumption DEF DownloadsInit, TypeOK, TransferRecord
<1>3. AttemptInv
  BY <1>1 DEF DownloadsInit, AttemptInv
<1>4. AdmittedNow = {} /\ RunningNow = {}
  BY <1>1 DEF DownloadsInit, AdmittedNow, RunningNow, Running
<1>5. BudgetInv
  BY <1>4, FS_EmptySet, DownloadsAssumption DEF DownloadsInit, BudgetInv
<1> QED
  BY <1>2, <1>3, <1>5 DEF DownloadsInv

LEMMA CallbackAnswersKeeps ==
  ASSUME DownloadsInv, NEW t \in Transfers, NEW stage \in Callbacks \cup {"tcp"},
         CallbackAnswers(t, stage)
  PROVE  DownloadsInv'
<1>1. Pending(attempt[t]) /\ stage \in {"dns", "addresses", "tcp"}
  BY DEF CallbackAnswers
<1> DEFINE b == After(attempt[t], stage)
<1>2. /\ b \in AttemptRecord /\ Sound(b) /\ Settled(b)
      /\ b.stage # "none" /\ b.terminal = attempt[t].terminal
  BY <1>1, AtTransfer, AfterAnAwait
<1>3. Attempts([attempt EXCEPT ![t] = b])
  BY DEF CallbackAnswers
<1>4. attempt[t].stage # "none" /\ ~attempt[t].drained /\ Admitted(attempt[t])
  BY <1>1, AtTransfer DEF Pending, Callbacks, Sound, Admitted
<1> HIDE DEF b
<1> QED
  BY <1>2, <1>3, <1>4, OneAttemptMoves DEF CallbackAnswers

LEMMA CallbackFailsKeeps ==
  ASSUME DownloadsInv, NEW t \in Transfers, CallbackFails(t)
  PROVE  DownloadsInv'
<1> DEFINE a == [attempt[t] EXCEPT !.settled = TRUE]
           b == Stopped(a)
<1>1. /\ a \in AttemptRecord /\ a.stage = attempt[t].stage /\ a.drained = attempt[t].drained
      /\ Sound(a) /\ Admitted(a) /\ Admitted(attempt[t])
  BY AtTransfer DEF CallbackFails, Pending, Callbacks, Sound, Admitted, AttemptRecord
<1>2. /\ b \in AttemptRecord /\ Sound(b) /\ b.stage = a.stage
      /\ Settled(b) /\ b.terminal
  BY <1>1, StopEnds
<1>3. Attempts([attempt EXCEPT ![t] = b])
  BY DEF CallbackFails
<1> HIDE DEF a, b
<1> QED
  BY <1>1, <1>2, <1>3, OneAttemptMoves DEF CallbackFails, Admitted

LEMMA ConnectedKeeps ==
  ASSUME DownloadsInv, NEW t \in Transfers, NEW peerMatches \in BOOLEAN, Connected(t, peerMatches)
  PROVE  DownloadsInv'
<1>1. attempt[t].stage \in {"tcp", "lease"} /\ ~attempt[t].drained /\ ~attempt[t].terminal
      /\ Admitted(attempt[t])
  BY AtTransfer DEF Connected, Sound, Settled, Callbacks, AttemptRecord, Admitted
<1> DEFINE b == IF peerMatches THEN [attempt[t] EXCEPT !.stage = "lease", !.socket = "open"]
                ELSE Stopped(attempt[t])
<1>2. CASE peerMatches
  <2>1. /\ b \in AttemptRecord /\ b.stage = "lease" /\ ~b.drained /\ ~b.terminal
        /\ Sound(b) /\ Settled(b)
    BY <1>1, <1>2, AtTransfer DEF AttemptRecord, Sound, Settled, Callbacks
  <2>2. Attempts([attempt EXCEPT ![t] = b])
    BY <1>2 DEF Connected
  <2> HIDE DEF b
  <2> QED
    BY <1>1, <2>1, <2>2, OneAttemptMoves DEF Connected
<1>3. CASE ~peerMatches
  <2>1. /\ b \in AttemptRecord /\ Sound(b) /\ b.stage = attempt[t].stage
        /\ Settled(b) /\ b.terminal
    BY <1>1, <1>3, AtTransfer, StopEnds
  <2>2. Attempts([attempt EXCEPT ![t] = b])
    BY <1>3 DEF Connected
  <2> HIDE DEF b
  <2> QED
    BY <1>1, <2>1, <2>2, OneAttemptMoves DEF Connected
<1> QED
  BY <1>2, <1>3

LEMMA SocketClosesKeeps ==
  ASSUME DownloadsInv, NEW t \in Transfers, SocketCloses(t)
  PROVE  DownloadsInv'
<1> DEFINE a == [attempt[t] EXCEPT !.socket = "closed"]
           b == Stopped(a)
<1>1. /\ a \in AttemptRecord /\ a.stage = attempt[t].stage /\ a.drained = attempt[t].drained
      /\ Sound(a) /\ Admitted(a) /\ Admitted(attempt[t])
  BY AtTransfer DEF SocketCloses, Callbacks, Sound, Admitted, AttemptRecord
<1>2. /\ b \in AttemptRecord /\ Sound(b) /\ b.stage = a.stage
      /\ Settled(b) /\ b.terminal
  BY <1>1, StopEnds
<1>3. Attempts([attempt EXCEPT ![t] = b])
  BY DEF SocketCloses
<1> HIDE DEF a, b
<1> QED
  BY <1>1, <1>2, <1>3, OneAttemptMoves DEF SocketCloses, Admitted

LEMMA DownloadKeeps ==
  ASSUME DownloadsInv, NEW t \in Transfers, NEW g \in Generations, Download(t, g)
  PROVE  DownloadsInv'
<1>1. /\ transfer[t].at = "idle" /\ transfer[t] \in TransferRecord
      /\ attempt[t].stage = "none" /\ ~Admitted(attempt[t])
  BY AtTransfer DEF Download, Admitted
<1>2. CASE g \in revoked \/ transfers >= Limit
  <2> DEFINE r == [transfer[t] EXCEPT !.at = "done", !.of = g, !.answer = "error"]
  <2>1. r \in TransferRecord /\ r.at = "done"
    BY <1>1 DEF TransferRecord
  <2>2. transfer' = [transfer EXCEPT ![t] = r] /\ UNCHANGED <<revoked, attempt, connections, transfers>>
    BY <1>2 DEF Download
  <2> HIDE DEF r
  <2> QED
    BY <1>1, <2>1, <2>2, TransferMoves
<1>3. CASE ~(g \in revoked \/ transfers >= Limit)
  <2> DEFINE r == [transfer[t] EXCEPT !.at = "hop", !.of = g]
  <2>1. r \in TransferRecord /\ r.at = "hop"
    BY <1>1 DEF TransferRecord
  <2>2. /\ transfer' = [transfer EXCEPT ![t] = r] /\ transfers' = transfers + 1
        /\ UNCHANGED <<revoked, attempt, connections>>
    BY <1>3 DEF Download
  <2> HIDE DEF r
  <2>3. /\ transfer' \in [Transfers -> TransferRecord]
        /\ transfer'[t] = r /\ \A u \in Transfers : u # t => transfer'[u] = transfer[u]
    BY <2>1, <2>2 DEF DownloadsInv, TypeOK
  <2>4. t \notin RunningNow /\ RunningNow' = RunningNow \cup {t}
    BY <1>1, <2>1, <2>3 DEF RunningNow, Running
  <2>5. Cardinality(RunningNow') = Cardinality(RunningNow) + 1
    BY <2>4, SlotsFinite, FS_AddElement
  <2>6. transfers' \in Nat /\ transfers' = Cardinality(RunningNow') /\ transfers' <= Limit
    BY <1>3, <2>2, <2>5, DownloadsAssumption DEF DownloadsInv, TypeOK, BudgetInv
  <2>7. AdmittedNow' = AdmittedNow
    BY <2>2 DEF AdmittedNow
  <2>8. TypeOK' /\ BudgetInv'
    BY <2>2, <2>3, <2>6, <2>7 DEF DownloadsInv, TypeOK, BudgetInv
  <2>9. AttemptInv'
    BY <1>1, <2>2, <2>3 DEF DownloadsInv, AttemptInv
  <2> QED
    BY <2>8, <2>9 DEF DownloadsInv
<1> QED
  BY <1>2, <1>3

LEMMA ConnectKeeps ==
  ASSUME DownloadsInv, NEW t \in Transfers, Connect(t)
  PROVE  DownloadsInv'
<1>1. /\ transfer[t].at = "hop" /\ transfer[t] \in TransferRecord /\ Running(t)
      /\ attempt[t].stage = "none" /\ ~Admitted(attempt[t])
  BY AtTransfer DEF Connect, Admitted, Running
<1>2. CASE transfer[t].cancelled \/ transfer[t].of \in revoked \/ connections >= Limit
  BY <1>1, <1>2, EndGivesBack DEF Connect
<1>3. CASE ~(transfer[t].cancelled \/ transfer[t].of \in revoked \/ connections >= Limit)
  <2> DEFINE r == [transfer[t] EXCEPT !.at = "connecting"]
             a == [NoAttempt EXCEPT !.stage = "policy"]
  <2>1. r \in TransferRecord /\ r.at = "connecting" /\ r.of = transfer[t].of
    BY <1>1 DEF TransferRecord
  <2>2. a \in AttemptRecord /\ Sound(a) /\ Settled(a) /\ Admitted(a)
    BY DEF AttemptRecord, NoAttempt, Sound, Settled, Admitted, Callbacks
  <2>3. /\ transfer' = [transfer EXCEPT ![t] = r] /\ attempt' = [attempt EXCEPT ![t] = a]
        /\ connections' = connections + 1 /\ UNCHANGED <<revoked, transfers>>
    BY <1>3 DEF Connect
  <2> HIDE DEF r, a
  <2>4. /\ transfer' \in [Transfers -> TransferRecord] /\ attempt' \in [Transfers -> AttemptRecord]
        /\ transfer'[t] = r /\ \A u \in Transfers : u # t => transfer'[u] = transfer[u]
        /\ attempt'[t] = a /\ \A u \in Transfers : u # t => attempt'[u] = attempt[u]
    BY <2>1, <2>2, <2>3 DEF DownloadsInv, TypeOK
  <2>5. t \notin AdmittedNow /\ AdmittedNow' = AdmittedNow \cup {t}
    BY <1>1, <2>2, <2>4 DEF AdmittedNow
  <2>6. Cardinality(AdmittedNow') = Cardinality(AdmittedNow) + 1
    BY <2>5, SlotsFinite, FS_AddElement
  <2>7. connections' \in Nat /\ connections' = Cardinality(AdmittedNow') /\ connections' <= Limit
    BY <1>3, <2>3, <2>6, DownloadsAssumption DEF DownloadsInv, TypeOK, BudgetInv
  <2>8. RunningNow' = RunningNow
    BY <1>1, <2>1, <2>4 DEF RunningNow, Running
  <2>9. TypeOK' /\ BudgetInv'
    BY <2>3, <2>4, <2>7, <2>8 DEF DownloadsInv, TypeOK, BudgetInv
  <2>10. AttemptInv'
    BY <1>3, <2>1, <2>2, <2>3, <2>4 DEF DownloadsInv, AttemptInv
  <2> QED
    BY <2>9, <2>10 DEF DownloadsInv
<1> QED
  BY <1>2, <1>3

LEMMA HandOverKeeps ==
  ASSUME DownloadsInv, NEW t \in Transfers, HandOver(t)
  PROVE  DownloadsInv'
<1>1. transfer[t].at = "connecting" /\ transfer[t] \in TransferRecord /\ Running(t)
  BY AtTransfer DEF HandOver, Running
<1>2. CASE attempt[t].terminal
  BY <1>1, <1>2, EndGivesBack DEF HandOver
<1>3. CASE ~attempt[t].terminal
  <2> DEFINE r == [transfer[t] EXCEPT !.at = "response"]
  <2>1. r \in TransferRecord /\ r.at = "response" /\ r.of = transfer[t].of
    BY <1>1 DEF TransferRecord
  <2>2. transfer' = [transfer EXCEPT ![t] = r] /\ UNCHANGED <<revoked, attempt, connections, transfers>>
    BY <1>3 DEF HandOver
  <2> HIDE DEF r
  <2> QED
    BY <1>1, <2>1, <2>2, TransferMoves
<1> QED
  BY <1>2, <1>3

LEMMA ExchangedKeeps ==
  ASSUME DownloadsInv, NEW t \in Transfers, NEW result \in {"ok", "again", "error"},
         Exchanged(t, result)
  PROVE  DownloadsInv'
<1> DEFINE r == [transfer[t] EXCEPT !.at = "closing", !.result = result]
           b == Stopped(attempt[t])
           new == [attempt EXCEPT ![t] = b]
<1>1. /\ r \in TransferRecord /\ r.at = "closing" /\ r.of = transfer[t].of
      /\ transfer' = [transfer EXCEPT ![t] = r] /\ Running(t)
  BY AtTransfer DEF Exchanged, TransferRecord, Running
<1>2. /\ b \in AttemptRecord /\ Sound(b) /\ Settled(b) /\ b.stage = attempt[t].stage
      /\ attempt[t].drained => b.drained
      /\ transfer[t].of \in revoked /\ Admitted(b) => b.terminal
  BY AtTransfer, StopEnds
<1>3. /\ new \in [Transfers -> AttemptRecord] /\ new[t] = b
      /\ \A u \in Transfers : u # t => new[u] = attempt[u]
  BY <1>2 DEF DownloadsInv, TypeOK
<1>4. Attempts(new)
  BY DEF Exchanged
<1> HIDE DEF r, b, new
<1>5. /\ transfer' \in [Transfers -> TransferRecord]
      /\ transfer'[t] = r /\ \A u \in Transfers : u # t => transfer'[u] = transfer[u]
  BY <1>1 DEF DownloadsInv, TypeOK
<1>6. \A u \in Transfers :
        /\ new[u].stage = "none" <=> attempt[u].stage = "none"
        /\ attempt[u].drained => new[u].drained
        /\ Sound(new[u]) /\ Settled(new[u])
        /\ Running(u)' <=> Running(u)
        /\ transfer'[u].at \in {"idle", "hop"} => transfer[u].at \in {"idle", "hop"}
        /\ transfer'[u].of \in revoked /\ Admitted(new[u]) => new[u].terminal
  BY <1>1, <1>2, <1>3, <1>5 DEF DownloadsInv, AttemptInv, Running
<1> QED
  BY <1>3, <1>4, <1>5, <1>6, AttemptsMove DEF Exchanged, DownloadsInv, TypeOK

LEMMA LeaseClosedKeeps ==
  ASSUME DownloadsInv, NEW t \in Transfers, LeaseClosed(t)
  PROVE  DownloadsInv'
<1>1. /\ transfer[t].at = "closing" /\ transfer[t] \in TransferRecord /\ Running(t)
      /\ attempt[t].drained
  BY AtTransfer DEF LeaseClosed, Running
<1>2. CASE transfer[t].result # "again"
  BY <1>1, <1>2, EndGivesBack DEF LeaseClosed, TransferRecord
<1>3. CASE transfer[t].result = "again"
  <2> DEFINE r == [transfer[t] EXCEPT !.at = "hop", !.hop = transfer[t].hop + 1]
  <2>1. r \in TransferRecord /\ r.at = "hop" /\ r.of = transfer[t].of
    <3>1. transfer[t].hop + 1 \in Nat
      BY <1>1 DEF TransferRecord
    <3> QED
      BY <1>1, <3>1 DEF TransferRecord
  <2>2. /\ NoAttempt \in AttemptRecord /\ Sound(NoAttempt) /\ Settled(NoAttempt)
        /\ ~Admitted(NoAttempt) /\ NoAttempt.stage = "none"
    BY DEF NoAttempt, AttemptRecord, Sound, Settled, Admitted, Callbacks
  <2>3. /\ transfer' = [transfer EXCEPT ![t] = r] /\ attempt' = [attempt EXCEPT ![t] = NoAttempt]
        /\ UNCHANGED <<revoked, connections, transfers>>
    BY <1>1, <1>3 DEF LeaseClosed, TransferRecord, DownloadsInv, TypeOK
  <2> HIDE DEF r
  <2>4. /\ transfer' \in [Transfers -> TransferRecord] /\ attempt' \in [Transfers -> AttemptRecord]
        /\ transfer'[t] = r /\ \A u \in Transfers : u # t => transfer'[u] = transfer[u]
        /\ attempt'[t] = NoAttempt /\ \A u \in Transfers : u # t => attempt'[u] = attempt[u]
    BY <2>1, <2>2, <2>3 DEF DownloadsInv, TypeOK
  <2>5. AdmittedNow' = AdmittedNow /\ RunningNow' = RunningNow
    BY <1>1, <2>1, <2>2, <2>4 DEF AdmittedNow, RunningNow, Admitted, Running
  <2>6. TypeOK' /\ BudgetInv'
    BY <2>3, <2>4, <2>5 DEF DownloadsInv, TypeOK, BudgetInv
  <2>7. AttemptInv'
    BY <2>1, <2>2, <2>3, <2>4 DEF DownloadsInv, AttemptInv
  <2> QED
    BY <2>6, <2>7 DEF DownloadsInv
<1> QED
  BY <1>2, <1>3

LEMMA AbortKeeps ==
  ASSUME DownloadsInv, NEW t \in Transfers, Abort(t)
  PROVE  DownloadsInv'
<1> DEFINE b == Stopped(attempt[t])
           new == [attempt EXCEPT ![t] = b]
<1>1. /\ transfer' \in [Transfers -> TransferRecord]
      /\ \A u \in Transfers : transfer'[u].at = transfer[u].at /\ transfer'[u].of = transfer[u].of
  BY AbortsEffect DEF Abort
<1>2. /\ b \in AttemptRecord /\ Sound(b) /\ Settled(b) /\ b.stage = attempt[t].stage
      /\ attempt[t].drained => b.drained
      /\ transfer[t].of \in revoked /\ Admitted(b) => b.terminal
  BY AtTransfer, StopEnds
<1>3. /\ new \in [Transfers -> AttemptRecord] /\ new[t] = b
      /\ \A u \in Transfers : u # t => new[u] = attempt[u]
  BY <1>2 DEF DownloadsInv, TypeOK
<1>4. Attempts(new)
  BY DEF Abort
<1> HIDE DEF b, new
<1>5. \A u \in Transfers :
        /\ new[u].stage = "none" <=> attempt[u].stage = "none"
        /\ attempt[u].drained => new[u].drained
        /\ Sound(new[u]) /\ Settled(new[u])
        /\ Running(u)' <=> Running(u)
        /\ transfer'[u].at \in {"idle", "hop"} => transfer[u].at \in {"idle", "hop"}
        /\ transfer'[u].of \in revoked /\ Admitted(new[u]) => new[u].terminal
  BY <1>1, <1>2, <1>3 DEF DownloadsInv, AttemptInv, Running
<1> QED
  BY <1>1, <1>3, <1>4, <1>5, AttemptsMove DEF Abort, DownloadsInv, TypeOK

LEMMA RevokeKeeps ==
  ASSUME DownloadsInv, NEW g \in Generations, Revoke(g)
  PROVE  DownloadsInv'
<1> DEFINE new == [t \in Transfers |-> IF transfer[t].of = g THEN Stopped(attempt[t]) ELSE attempt[t]]
<1>1. /\ transfer' \in [Transfers -> TransferRecord]
      /\ \A t \in Transfers : transfer'[t].at = transfer[t].at /\ transfer'[t].of = transfer[t].of
  BY AbortsEffect DEF Revoke
<1>2. revoked' = revoked \cup {g} /\ Attempts(new) /\ UNCHANGED transfers
  BY DEF Revoke
<1>3. \A t \in Transfers :
        /\ Stopped(attempt[t]) \in AttemptRecord /\ Sound(Stopped(attempt[t]))
        /\ Settled(Stopped(attempt[t])) /\ Stopped(attempt[t]).stage = attempt[t].stage
        /\ attempt[t].drained => Stopped(attempt[t]).drained
        /\ Admitted(Stopped(attempt[t])) => Stopped(attempt[t]).terminal
  BY AtTransfer, StopEnds
<1>4. /\ new \in [Transfers -> AttemptRecord]
      /\ \A t \in Transfers :
           new[t] = IF transfer[t].of = g THEN Stopped(attempt[t]) ELSE attempt[t]
  BY <1>3, AtTransfer
<1> HIDE DEF new
<1>5. \A t \in Transfers :
        /\ new[t].stage = "none" <=> attempt[t].stage = "none"
        /\ attempt[t].drained => new[t].drained
        /\ Sound(new[t]) /\ Settled(new[t])
        /\ Running(t)' <=> Running(t)
        /\ transfer'[t].at \in {"idle", "hop"} => transfer[t].at \in {"idle", "hop"}
        /\ transfer'[t].of \in revoked' /\ Admitted(new[t]) => new[t].terminal
  BY <1>1, <1>2, <1>3, <1>4 DEF DownloadsInv, AttemptInv, Running
<1> QED
  BY <1>1, <1>2, <1>4, <1>5, AttemptsMove DEF DownloadsInv, TypeOK

LEMMA DownloadsStep == DownloadsInv /\ [Next]_vars => DownloadsInv'
<1> SUFFICES ASSUME DownloadsInv, [Next]_vars PROVE DownloadsInv'
  OBVIOUS
<1>1. ASSUME NEW t \in Transfers, Settles(t) PROVE DownloadsInv'
  BY <1>1, CallbackAnswersKeeps, CallbackFailsKeeps DEF Settles
<1>2. ASSUME NEW t \in Transfers, NEW b \in BOOLEAN, Connected(t, b) PROVE DownloadsInv'
  BY <1>2, ConnectedKeeps
<1>3. ASSUME NEW t \in Transfers, NEW r \in {"ok", "again", "error"}, Exchanged(t, r)
      PROVE  DownloadsInv'
  BY <1>3, ExchangedKeeps
<1>4. ASSUME NEW t \in Transfers, NEW g \in Generations, Download(t, g) PROVE DownloadsInv'
  BY <1>4, DownloadKeeps
<1>5. ASSUME NEW t \in Transfers,
             SocketCloses(t) \/ Connect(t) \/ HandOver(t) \/ LeaseClosed(t) \/ Abort(t)
      PROVE  DownloadsInv'
  BY <1>5, SocketClosesKeeps, ConnectKeeps, HandOverKeeps, LeaseClosedKeeps, AbortKeeps
<1>6. ASSUME NEW g \in Generations, Revoke(g) PROVE DownloadsInv'
  BY <1>6, RevokeKeeps
<1>7. CASE UNCHANGED vars
  BY <1>7
  DEF vars, DownloadsInv, TypeOK, AttemptInv, BudgetInv, AdmittedNow, RunningNow, Running
<1> QED
  BY <1>1, <1>2, <1>3, <1>4, <1>5, <1>6, <1>7 DEF Next

-----------------------------------------------------------------------------
(* What follows.                                                           *)

\* Every reachable state of the download transport satisfies the invariant, its types
\* included.
THEOREM DownloadsInvariant == Spec => []DownloadsInv
BY DownloadsStart, DownloadsStep, PTL DEF Spec

\* What holds a slot is exactly what still runs or is still open.
LEMMA AdmittedIsAtWork ==
  ASSUME NEW a \in AttemptRecord, Sound(a), Settled(a)
  PROVE  Admitted(a) <=> Pending(a) \/ Sockets(a)
BY DEF AttemptRecord, Sound, Settled, Admitted, Pending, Sockets, Callbacks

\* The shared budgets cover whatever still runs and are never overdrawn, and the sockets
\* of a revoked generation neither connect nor stay open (TransfersAreBounded).
THEOREM DownloadsBounded == Spec => []TransfersAreBounded
<1>1. DownloadsInv => TransfersAreBounded
  <2> SUFFICES ASSUME DownloadsInv PROVE TransfersAreBounded
    OBVIOUS
  <2>1. AdmittedNow = {t \in Transfers : Pending(attempt[t]) \/ Sockets(attempt[t])}
    BY AtTransfer, AdmittedIsAtWork DEF AdmittedNow
  <2>2. SlotsCoverWork
    BY <2>1 DEF SlotsCoverWork, DownloadsInv, BudgetInv
  <2>3. RevokedIsDark
    BY AtTransfer DEF RevokedIsDark, Admitted, Sound, Settled
  <2> QED
    BY <2>2, <2>3 DEF TransfersAreBounded
<1> QED
  BY <1>1, DownloadsInvariant, PTL

-----------------------------------------------------------------------------
(* The choke point (ChokePoint).                                           *)

Pcs == {"unmade", "parked", "judge", "walk", "native", "answered", "over"}
RequestRecord ==
  [pc : Pcs, kind : [body : BOOLEAN, cross : BOOLEAN, probe : BOOLEAN],
   at : Places \cup {Nowhere}, tracked : BOOLEAN, seen : SUBSET Places, hops : Nat,
   allowed : SUBSET Places,
   contacted : SUBSET Places, terminals : Nat,
   claim : {"none", "live", "denied", "failed", "admitted"}]
ChokeTypeOK ==
  /\ hasGuard \in BOOLEAN
  /\ request \in [Requests -> RequestRecord]
  /\ frozen \in BOOLEAN /\ swap \in {"idle", "drain", "write"} /\ swaps \in Nat

\* One request: nothing is contacted before its own place was allowed, and afterwards
\* only what was allowed for it, unless it is a body in a context without a guard; a
\* body in the browser is tracked where there is a guard and only there; a probe exists
\* only under a guard and never leaves its origin; a request has had its one terminal
\* operation exactly when its handler has answered or handed it to the browser.
Judged(q, guard) ==
  /\ q.pc \in {"unmade", "parked", "judge"} => q.contacted = {}
  /\ q.pc \in {"walk", "native"} => q.at \in q.allowed
  /\ q.pc = "walk" => ~Native(q)
  /\ q.pc = "native" => Native(q) /\ (q.tracked <=> guard)
  /\ q.contacted # {} => q.at \in q.allowed
  /\ guard \/ ~Native(q) => q.contacted \subseteq q.allowed
  /\ q.kind.probe => guard
  /\ q.pc # "unmade" => q.at \in Places
  /\ q.kind.probe => q.contacted \subseteq {q.at}
  /\ q.terminals = IF q.pc \in {"native", "answered", "over"} THEN 1 ELSE 0

\* A frozen context admits nobody, so that what was drained stays drained.
SwapInv ==
  /\ frozen <=> swap # "idle"
  /\ swap = "write" => \A r \in Requests : ~Dispatched(r)

ChokeInv == ChokeTypeOK /\ (\A r \in Requests : Judged(request[r], hasGuard)) /\ SwapInv

-----------------------------------------------------------------------------
\* A step of one request's handler keeps the invariant if it keeps that request's
\* part of it and does not bring a parked or a new one into the browser while frozen.
LEMMA OneRequestMoves ==
  ASSUME ChokeInv, NEW r \in Requests, NEW q \in RequestRecord, SetTo(r, q), Steps(r),
         Judged(q, hasGuard), Dispatched(r) \/ ~frozen \/ q.pc \in {"parked", "over"}
  PROVE  ChokeInv'
<1>1. request' = [request EXCEPT ![r] = q] /\ UNCHANGED <<hasGuard, frozen, swap, swaps>>
  BY DEF SetTo, Steps
<1>2. ChokeTypeOK'
  BY <1>1 DEF ChokeInv, ChokeTypeOK
<1>3. \A t \in Requests : request'[t] = IF t = r THEN q ELSE request[t]
  BY <1>1 DEF ChokeInv, ChokeTypeOK
<1>4. \A t \in Requests : Judged(request'[t], hasGuard')
  BY <1>1, <1>3 DEF ChokeInv
<1>5. SwapInv'
  BY <1>1, <1>3 DEF ChokeInv, SwapInv, Dispatched, InFlight
<1> QED BY <1>2, <1>4, <1>5 DEF ChokeInv

\* What an answer of the handler leaves of a request.
LEMMA Answered ==
  ASSUME ChokeInv, NEW r \in Requests,
         NEW claim \in {"none", "live", "denied", "failed", "admitted"},
         request[r].pc \in {"judge", "walk"}, Answer(r, claim), Steps(r)
  PROVE  ChokeInv'
<1> DEFINE q == [request[r] EXCEPT !.pc = "answered", !.terminals = 1, !.claim = claim]
<1>1. request[r] \in RequestRecord /\ Judged(request[r], hasGuard)
  BY DEF ChokeInv, ChokeTypeOK
<1>2. SetTo(r, q)
  <2>1. request[r].terminals + 1 = 1
    BY <1>1 DEF Judged
  <2> QED BY <2>1 DEF Answer
<1>3. q \in RequestRecord /\ q.pc = "answered" /\ q.terminals = 1
      /\ q.kind = request[r].kind /\ q.at = request[r].at /\ q.allowed = request[r].allowed
      /\ q.contacted = request[r].contacted
  BY <1>1 DEF RequestRecord, Pcs
<1> HIDE DEF q
<1>4. Judged(q, hasGuard)
  BY <1>1, <1>3 DEF Judged, Native
<1>5. Dispatched(r)
  BY DEF Dispatched, InFlight
<1> QED BY <1>2, <1>3, <1>4, <1>5, OneRequestMoves

\* A request goes on to a place that was allowed for it, or that nobody watches.
LEMMA Contacted ==
  ASSUME ChokeInv, NEW r \in Requests, NEW q \in RequestRecord, NEW place \in Places,
         Contact(r, q, place), Steps(r), Dispatched(r),
         q.pc \in {"walk", "native"}, q.at \in Places, q.at \in q.allowed,
         q.pc = "walk" => ~Native(q),
         q.pc = "native" => Native(q) /\ (q.tracked <=> hasGuard),
         hasGuard \/ ~Native(q) => place \in q.allowed /\ q.contacted \subseteq q.allowed,
         q.kind.probe => hasGuard /\ q.contacted \subseteq {q.at} /\ place = q.at,
         q.terminals = IF q.pc = "native" THEN 1 ELSE 0
  PROVE  ChokeInv'
<1> DEFINE n == [q EXCEPT !.contacted = @ \cup {place}]
<1>1. SetTo(r, n)
  BY DEF Contact
<1>2. n \in RequestRecord /\ n.pc = q.pc /\ n.kind = q.kind /\ n.at = q.at
      /\ n.allowed = q.allowed /\ n.terminals = q.terminals /\ n.tracked = q.tracked
      /\ n.contacted = q.contacted \cup {place}
  BY DEF RequestRecord, Pcs
<1> HIDE DEF n
<1>3. Judged(n, hasGuard)
  BY <1>2 DEF Judged, Native
<1> QED BY <1>1, <1>2, <1>3, OneRequestMoves

-----------------------------------------------------------------------------
(* The route handler.                                                      *)

LEMMA AdmitKeeps ==
  ASSUME ChokeInv, NEW r \in Requests, NEW kind \in RequestKinds, NEW place \in Places,
         Admit(r, kind, place)
  PROVE  ChokeInv'
<1> DEFINE pc == IF frozen THEN "parked" ELSE "judge"
           claim == IF kind.probe THEN "live" ELSE "none"
           q == [Unmade EXCEPT !.pc = pc, !.kind = kind, !.at = place, !.seen = {place},
                               !.claim = claim]
<1>1. SetTo(r, q) /\ Steps(r) /\ (kind.probe => hasGuard)
  BY DEF Admit
<1>2. kind \in [body : BOOLEAN, cross : BOOLEAN, probe : BOOLEAN]
  BY ChokeAssumption
<1>3. pc \in {"parked", "judge"} /\ (pc = "parked" \/ ~frozen) /\ claim \in {"live", "none"}
  OBVIOUS
<1> HIDE DEF pc, claim
<1>4. Unmade \in RequestRecord
  BY DEF RequestRecord, Pcs, Unmade
<1>5. q \in RequestRecord
  BY <1>2, <1>3, <1>4 DEF RequestRecord, Pcs
<1>6. q.pc = pc /\ q.kind = kind /\ q.at = place /\ q.contacted = {} /\ q.terminals = 0
  <2>1. q.pc = pc /\ q.kind = kind /\ q.at = place /\ q.contacted = Unmade.contacted
        /\ q.terminals = Unmade.terminals
    BY <1>4 DEF RequestRecord
  <2> QED BY <2>1 DEF Unmade
<1> HIDE DEF q
<1>7. Judged(q, hasGuard)
  BY <1>1, <1>3, <1>6 DEF Judged
<1> QED BY <1>1, <1>3, <1>5, <1>6, <1>7, OneRequestMoves

LEMMA UnparkKeeps ==
  ASSUME ChokeInv, NEW r \in Requests, Unpark(r)
  PROVE  ChokeInv'
<1> DEFINE q == [request[r] EXCEPT !.pc = "judge"]
<1>1. request[r] \in RequestRecord /\ Judged(request[r], hasGuard) /\ request[r].pc = "parked"
  BY DEF ChokeInv, ChokeTypeOK, Unpark
<1>2. SetTo(r, q) /\ Steps(r) /\ ~frozen
  BY DEF Unpark
<1>3. q \in RequestRecord /\ q.pc = "judge" /\ q.contacted = request[r].contacted
      /\ q.terminals = request[r].terminals /\ q.at = request[r].at
      /\ q.kind = request[r].kind /\ q.allowed = request[r].allowed
  BY <1>1 DEF RequestRecord, Pcs
<1> HIDE DEF q
<1>4. Judged(q, hasGuard)
  BY <1>1, <1>3 DEF Judged
<1> QED BY <1>2, <1>3, <1>4, OneRequestMoves

LEMMA JudgeFirstKeeps ==
  ASSUME ChokeInv, NEW r \in Requests, NEW allow \in BOOLEAN, NEW seen \in BOOLEAN,
         JudgeFirst(r, allow, seen)
  PROVE  ChokeInv'
<1> DEFINE q == request[r]
           judged == [q EXCEPT !.allowed = {q.at}, !.tracked = seen]
<1>1. q \in RequestRecord /\ Judged(q, hasGuard) /\ q.pc = "judge" /\ Steps(r)
  BY DEF ChokeInv, ChokeTypeOK, JudgeFirst
<1>2. q.contacted = {} /\ q.terminals = 0 /\ q.at \in Places /\ (q.kind.probe => hasGuard)
  BY <1>1 DEF Judged
<1>3. Dispatched(r)
  BY <1>1 DEF Dispatched, InFlight
<1>4. judged \in RequestRecord /\ judged.allowed = {q.at} /\ judged.tracked = seen
      /\ judged.contacted = {} /\ judged.at = q.at /\ judged.kind = q.kind
      /\ judged.terminals = 0
  BY <1>1, <1>2 DEF RequestRecord
<1>5. CASE FirstRefused(q, allow, seen)
  <2>1. PICK outcome \in {"denied", "failed"} :
          (outcome = "failed" => allow) /\ Answer(r, settle(q.claim, outcome))
    BY <1>5 DEF JudgeFirst
  <2>2. settle(q.claim, outcome) \in {"none", "live", "denied", "failed", "admitted"}
    BY <1>1 DEF settle, RequestRecord
  <2> QED BY <1>1, <2>1, <2>2, Answered
<1>6. CASE ~FirstRefused(q, allow, seen) /\ Native(q)
  <2> DEFINE one == judged.terminals + 1
             n == [judged EXCEPT !.pc = "native", !.terminals = one]
  <2>1. Contact(r, n, q.at)
    BY <1>6 DEF JudgeFirst
  <2>2. seen <=> hasGuard
    BY <1>6 DEF JudgeFirst, FirstRefused, Native
  <2>3. one = 1
    BY <1>4
  <2> HIDE DEF one, judged
  <2>4. n \in RequestRecord /\ n.pc = "native" /\ n.terminals = 1 /\ n.allowed = {q.at}
        /\ n.contacted = {} /\ n.at = q.at /\ n.kind = q.kind /\ n.tracked = seen
    BY <1>4, <2>3 DEF RequestRecord, Pcs
  <2> HIDE DEF n
  <2>5. Native(n)
    BY <1>6, <2>4 DEF Native
  <2> QED BY <1>1, <1>2, <1>3, <2>1, <2>2, <2>4, <2>5, Contacted
<1>7. CASE ~FirstRefused(q, allow, seen) /\ ~Native(q)
  <2> DEFINE n == [judged EXCEPT !.pc = "walk"]
  <2>1. Contact(r, n, q.at)
    BY <1>7 DEF JudgeFirst
  <2>2. n \in RequestRecord /\ n.pc = "walk" /\ n.terminals = 0 /\ n.allowed = {q.at}
        /\ n.contacted = {} /\ n.at = q.at /\ n.kind = q.kind
    BY <1>4 DEF RequestRecord, Pcs
  <2> HIDE DEF n, judged
  <2>3. ~Native(n)
    BY <1>7, <2>2 DEF Native
  <2> QED BY <1>1, <1>2, <1>3, <2>1, <2>2, <2>3, Contacted
<1> QED BY <1>5, <1>6, <1>7

\* Every other answer of the handler.
LEMMA AnswersKeep ==
  ASSUME ChokeInv, NEW r \in Requests,
         \/ BodyLost(r) \/ TooManyHops(r) \/ HeadersTooLarge(r)
         \/ \E next \in Places : RedirectLoop(r, next)
         \/ \E small \in BOOLEAN : Finish(r, small)
  PROVE  ChokeInv'
<1>1. request[r].claim \in {"none", "live", "denied", "failed", "admitted"}
  BY DEF ChokeInv, ChokeTypeOK, RequestRecord
<1>2. \A small \in BOOLEAN : settle(request[r].claim, IF small THEN "admitted" ELSE "failed")
        \in {"none", "live", "denied", "failed", "admitted"}
  BY <1>1 DEF settle
<1>3. /\ request[r].pc \in {"judge", "walk"} /\ Steps(r)
      /\ \E claim \in {"none", "live", "denied", "failed", "admitted"} : Answer(r, claim)
  BY <1>1, <1>2 DEF BodyLost, TooManyHops, HeadersTooLarge, RedirectLoop, Finish
<1> QED BY <1>3, Answered

LEMMA RedirectKeeps ==
  ASSUME ChokeInv, NEW r \in Requests, NEW next \in Places, NEW allow \in BOOLEAN,
         Redirect(r, next, allow)
  PROVE  ChokeInv'
<1> DEFINE q == request[r]
           hop == [q EXCEPT !.hops = @ + 1, !.seen = @ \cup {next}]
           n == [hop EXCEPT !.allowed = IF allow THEN @ \cup {next} ELSE @]
           longer == q.hops + 1
           m == [q EXCEPT !.hops = longer, !.seen = @ \cup {next}, !.allowed = @ \cup {next}]
<1>1. q \in RequestRecord /\ Judged(q, hasGuard) /\ q.pc = "walk" /\ Steps(r)
  BY DEF ChokeInv, ChokeTypeOK, Redirect
<1>2. Dispatched(r)
  BY <1>1 DEF Dispatched, InFlight
<1>3. CASE HopRefused(q, next, allow)
  <2>1. Answer(r, settle(q.claim, "denied"))
    BY <1>3 DEF Redirect
  <2>2. settle(q.claim, "denied") \in {"none", "live", "denied", "failed", "admitted"}
    BY <1>1 DEF settle, RequestRecord
  <2> QED BY <1>1, <2>1, <2>2, Answered
<1>4. CASE ~HopRefused(q, next, allow)
  <2>1. Contact(r, n, next)
    BY <1>4 DEF Redirect
  <2>2. allow /\ (q.kind.probe => next = q.at)
    BY <1>4 DEF HopRefused
  <2>3. n = m
    BY <2>2
  <2>4. longer \in Nat
    BY <1>1 DEF RequestRecord
  <2> HIDE DEF longer, n
  <2>5. m \in RequestRecord /\ m.pc = "walk" /\ m.kind = q.kind /\ m.at = q.at
        /\ m.contacted = q.contacted /\ m.terminals = q.terminals
        /\ m.allowed = q.allowed \cup {next}
    BY <1>1, <2>4 DEF RequestRecord, Pcs
  <2> HIDE DEF m
  <2>6. q.at \in Places /\ q.at \in q.allowed /\ q.contacted \subseteq q.allowed /\ ~Native(q)
        /\ (q.kind.probe => hasGuard /\ q.contacted \subseteq {q.at}) /\ q.terminals = 0
    BY <1>1 DEF Judged
  <2>7. ~Native(m)
    BY <2>5, <2>6 DEF Native
  <2> QED BY <1>1, <1>2, <2>1, <2>2, <2>3, <2>5, <2>6, <2>7, Contacted
<1> QED BY <1>3, <1>4

LEMMA ThrowsKeeps ==
  ASSUME ChokeInv, NEW r \in Requests, Throws(r)
  PROVE  ChokeInv'
<1> DEFINE q == request[r]
           claim == settle(q.claim, "failed")
           caught == [q EXCEPT !.pc = "answered", !.claim = claim]
           n == IF q.terminals = 0 THEN [caught EXCEPT !.terminals = 1] ELSE caught
<1>1. q \in RequestRecord /\ Judged(q, hasGuard) /\ q.pc \in {"judge", "walk", "answered"}
  BY DEF ChokeInv, ChokeTypeOK, Throws
<1>2. SetTo(r, n) /\ Steps(r)
  BY DEF Throws
<1>3. claim \in {"none", "live", "denied", "failed", "admitted"}
  BY <1>1 DEF settle, RequestRecord
<1>4. q.terminals \in {0, 1}
  BY <1>1 DEF Judged
<1> HIDE DEF claim
<1>5. n \in RequestRecord /\ n.pc = "answered" /\ n.kind = q.kind /\ n.at = q.at
      /\ n.contacted = q.contacted /\ n.allowed = q.allowed /\ n.terminals = 1
  BY <1>1, <1>3, <1>4 DEF RequestRecord, Pcs
<1> HIDE DEF n
<1>6. Judged(n, hasGuard)
  BY <1>1, <1>5 DEF Judged, Native
<1>7. Dispatched(r)
  BY <1>1 DEF Dispatched, InFlight
<1> QED BY <1>2, <1>5, <1>6, <1>7, OneRequestMoves

-----------------------------------------------------------------------------
(* The guard of body-bearing requests.                                     *)

\* The end of a request that has had its answer.
LEMMA Ended ==
  ASSUME ChokeInv, NEW r \in Requests, NEW pc \in {"answered", "over"},
         NEW claim \in {"none", "live", "denied", "failed", "admitted"},
         request[r].pc \in {"native", "answered"},
         SetTo(r, [request[r] EXCEPT !.pc = pc, !.claim = claim]), Steps(r)
  PROVE  ChokeInv'
<1> DEFINE q == request[r]
           n == [q EXCEPT !.pc = pc, !.claim = claim]
<1>1. q \in RequestRecord /\ Judged(q, hasGuard)
  BY DEF ChokeInv, ChokeTypeOK
<1>2. n \in RequestRecord /\ n.pc = pc /\ n.kind = q.kind /\ n.at = q.at
      /\ n.contacted = q.contacted /\ n.allowed = q.allowed /\ n.terminals = q.terminals
  BY <1>1 DEF RequestRecord, Pcs
<1>3. SetTo(r, n)
  OBVIOUS
<1> HIDE DEF n
<1>4. Judged(n, hasGuard)
  BY <1>1, <1>2 DEF Judged, Native
<1>5. Dispatched(r)
  BY DEF Dispatched, InFlight
<1> QED BY <1>2, <1>3, <1>4, <1>5, OneRequestMoves

LEMMA GuardAnswersKeep ==
  ASSUME ChokeInv, NEW r \in Requests, NEW outcome \in {"denied", "failed", "admitted"},
         request[r].pc = "native", GuardAnswers(r, outcome), Steps(r)
  PROVE  ChokeInv'
<1> DEFINE claim == settle(request[r].claim, outcome)
<1>1. request[r].claim \in {"none", "live", "denied", "failed", "admitted"}
  BY DEF ChokeInv, ChokeTypeOK, RequestRecord
<1>2. claim \in {"none", "live", "denied", "failed", "admitted"}
  BY <1>1 DEF settle
<1>3. SetTo(r, [request[r] EXCEPT !.pc = "answered", !.claim = claim])
  BY DEF GuardAnswers
<1> HIDE DEF claim
<1> QED BY <1>2, <1>3, Ended

LEMMA GuardRedirectKeeps ==
  ASSUME ChokeInv, NEW r \in Requests, NEW next \in Places, NEW allow \in BOOLEAN,
         GuardRedirect(r, next, allow)
  PROVE  ChokeInv'
<1> DEFINE q == request[r]
           tooFar == q.hops = MaxHops \/ next \in q.seen
           n == [q EXCEPT !.hops = @ + 1, !.seen = @ \cup {next},
                          !.allowed = IF allow THEN @ \cup {next} ELSE @]
           longer == q.hops + 1
           m == [q EXCEPT !.hops = longer, !.seen = @ \cup {next}, !.allowed = @ \cup {next}]
<1>1. q \in RequestRecord /\ Judged(q, hasGuard) /\ q.pc = "native" /\ Steps(r)
  BY DEF ChokeInv, ChokeTypeOK, GuardRedirect
<1>2. Dispatched(r)
  BY <1>1 DEF Dispatched, InFlight
<1>3. CASE tooFar \/ HopRefused(q, next, allow)
  <2>1. \E outcome \in {"denied", "failed", "admitted"} : GuardAnswers(r, outcome)
    BY <1>3 DEF GuardRedirect
  <2> QED BY <1>1, <2>1, GuardAnswersKeep
<1>4. CASE ~(tooFar \/ HopRefused(q, next, allow))
  <2>1. Contact(r, n, next)
    BY <1>4 DEF GuardRedirect
  <2>2. allow /\ (q.kind.probe => next = q.at)
    BY <1>4 DEF HopRefused
  <2>3. n = m
    BY <2>2
  <2>4. longer \in Nat
    BY <1>1 DEF RequestRecord
  <2> HIDE DEF longer, n
  <2>5. m \in RequestRecord /\ m.pc = "native" /\ m.kind = q.kind /\ m.at = q.at
        /\ m.contacted = q.contacted /\ m.terminals = q.terminals
        /\ m.allowed = q.allowed \cup {next} /\ m.tracked = q.tracked
    BY <1>1, <2>4 DEF RequestRecord, Pcs
  <2> HIDE DEF m
  <2>6. q.at \in Places /\ q.at \in q.allowed /\ Native(q) /\ (q.tracked <=> hasGuard)
        /\ (hasGuard => q.contacted \subseteq q.allowed)
        /\ (q.kind.probe => hasGuard /\ q.contacted \subseteq {q.at}) /\ q.terminals = 1
    BY <1>1 DEF Judged
  <2>7. Native(m)
    BY <2>5, <2>6 DEF Native
  <2> QED BY <1>1, <1>2, <2>1, <2>2, <2>3, <2>5, <2>6, <2>7, Contacted
<1> QED BY <1>3, <1>4

\* The browser follows a redirect by itself only where there is no guard.
LEMMA NativeRedirectKeeps ==
  ASSUME ChokeInv, NEW r \in Requests, NEW next \in Places, NativeRedirect(r, next)
  PROVE  ChokeInv'
<1> DEFINE q == request[r]
<1>1. q \in RequestRecord /\ Judged(q, hasGuard) /\ q.pc = "native" /\ ~q.tracked /\ Steps(r)
      /\ Contact(r, q, next)
  BY DEF ChokeInv, ChokeTypeOK, NativeRedirect
<1>2. Dispatched(r)
  BY <1>1 DEF Dispatched, InFlight
<1>3. q.at \in Places /\ q.at \in q.allowed /\ Native(q) /\ ~hasGuard /\ ~q.kind.probe
      /\ q.terminals = 1
  BY <1>1 DEF Judged
<1> HIDE DEF q
<1> QED BY <1>1, <1>2, <1>3, Contacted

LEMMA GuardEndsKeep ==
  ASSUME ChokeInv, NEW r \in Requests,
         Complete(r) \/ \E admitted \in BOOLEAN : GuardFinish(r, admitted)
  PROVE  ChokeInv'
<1>1. CASE Complete(r)
  <2> DEFINE claim == IF request[r].kind.body THEN settle(request[r].claim, "failed")
                      ELSE request[r].claim
  <2>1. request[r].claim \in {"none", "live", "denied", "failed", "admitted"}
    BY DEF ChokeInv, ChokeTypeOK, RequestRecord
  <2>2. claim \in {"none", "live", "denied", "failed", "admitted"}
    BY <2>1 DEF settle
  <2>3. SetTo(r, [request[r] EXCEPT !.pc = "over", !.claim = claim])
    BY <1>1 DEF Complete
  <2>4. request[r].pc \in {"native", "answered"} /\ Steps(r)
    BY <1>1 DEF Complete
  <2> HIDE DEF claim
  <2> QED BY <2>2, <2>3, <2>4, Ended
<1>2. ASSUME NEW admitted \in BOOLEAN, GuardFinish(r, admitted) PROVE ChokeInv'
  BY <1>2, GuardAnswersKeep DEF GuardFinish
<1> QED BY <1>1, <1>2

-----------------------------------------------------------------------------
LEMMA SwapKeeps ==
  ASSUME ChokeInv, Freeze \/ BeginWrite \/ DrainTimesOut \/ WriteDone
  PROVE  ChokeInv'
<1>1. request' = request /\ hasGuard' = hasGuard
  BY DEF Freeze, BeginWrite, DrainTimesOut, WriteDone
<1>2. swaps' \in Nat
  BY DEF ChokeInv, ChokeTypeOK, Freeze, BeginWrite, DrainTimesOut, WriteDone
<1>3. ChokeTypeOK'
  BY <1>1, <1>2 DEF ChokeInv, ChokeTypeOK, Freeze, BeginWrite, DrainTimesOut, WriteDone
<1>4. SwapInv'
  BY <1>1 DEF ChokeInv, ChokeTypeOK, SwapInv, Freeze, BeginWrite, DrainTimesOut, WriteDone,
     Drained, Dispatched, InFlight
<1> QED BY <1>1, <1>3, <1>4 DEF ChokeInv

THEOREM ChokeInvariant == ChokeSpec => []ChokeInv
<1>1. ChokeInit => ChokeInv
  <2> SUFFICES ASSUME ChokeInit PROVE ChokeInv
    OBVIOUS
  <2>1. Unmade \in RequestRecord /\ Judged(Unmade, hasGuard)
    BY DEF Unmade, RequestRecord, Pcs, Judged, Native
  <2> QED BY <2>1 DEF ChokeInit, ChokeInv, ChokeTypeOK, SwapInv
<1>2. ChokeInv /\ [ChokeNext]_chokeVars => ChokeInv'
  <2> SUFFICES ASSUME ChokeInv, [ChokeNext]_chokeVars PROVE ChokeInv'
    OBVIOUS
  <2>1. CASE UNCHANGED chokeVars
    BY <2>1 DEF chokeVars, ChokeInv, ChokeTypeOK, SwapInv, Dispatched, InFlight
  <2>2. ASSUME NEW r \in Requests, Handle(r) PROVE ChokeInv'
    BY <2>2, AdmitKeeps, UnparkKeeps, JudgeFirstKeeps, AnswersKeep, RedirectKeeps, ThrowsKeeps,
       GuardRedirectKeeps, NativeRedirectKeeps, GuardEndsKeep DEF Handle
  <2> QED BY <2>1, <2>2, SwapKeeps DEF ChokeNext
<1> QED BY <1>1, <1>2, PTL DEF ChokeSpec

\* With a guard every request, and without one every request but the redirects of a
\* native body, goes where it was judged to go; all get one answer, and none is in the
\* browser while cookies are replaced (index.ts, body-redirect-guard.ts), for any
\* number of requests, places, hops and replacements.
THEOREM ContactsAreJudged == ChokeSpec => []ContactsOnlyWhatWasJudged
<1>1. ChokeInv => ContactsOnlyWhatWasJudged
  <2> SUFFICES ASSUME ChokeInv PROVE ContactsOnlyWhatWasJudged
    OBVIOUS
  <2>1. ASSUME NEW r \in Requests, request[r].kind.probe
        PROVE  Cardinality(request[r].contacted) <= 1
    <3>1. request[r].contacted = {} \/ request[r].contacted = {request[r].at}
      BY <2>1 DEF ChokeInv, Judged
    <3>2. Cardinality({}) = 0 /\ Cardinality({request[r].at}) = 1
      BY FS_EmptySet, FS_Singleton
    <3> QED BY <3>1, <3>2
  <2>2. ContactsJudged
    BY <2>1 DEF ChokeInv, Judged, ContactsJudged
  <2>3. AnsweredOnce
    BY DEF ChokeInv, Judged, AnsweredOnce
  <2>4. CookieSwapIsAlone
    BY DEF ChokeInv, SwapInv, CookieSwapIsAlone
  <2> QED BY <2>2, <2>3, <2>4 DEF ContactsOnlyWhatWasJudged
<1> QED BY <1>1, ChokeInvariant, PTL

-----------------------------------------------------------------------------
(* The engagement scope (EngagementScope).                                 *)

\* What pace remembers covers every paid request that still counts.
AdmissionsCover ==
  \A r \in PaidQueries :
    /\ query[r].since <= clock
    /\ query[r].since + Window > clock =>
         r \in DOMAIN admissions /\ admissions[r] = query[r].since

\* The rate, of every window and not only of those that have begun.
WindowsHold ==
  \A start \in Nat : IsFiniteSet(InWindow(start)) /\ Cardinality(InWindow(start)) <= rate

RateInv == rate > 0 => AdmissionsCover /\ WindowsHold

\* A grant that is being completed was authorized on disk.
GrantInv ==
  /\ amendment.at # "idle" <=> amendment.kind \in Kinds
  /\ amendment.at = "authorizing" => amendment.next = revision + 1
  /\ GrantsAreOnRecord

ScopeInv == ScopeTypeOK /\ RateInv /\ GrantInv

LEMMA ScopeInitial == ScopeInit => ScopeInv
<1> SUFFICES ASSUME ScopeInit PROVE ScopeInv
  OBVIOUS
<1>1. NotAsked \in ScopeQuery /\ NotAsked.at = "idle"
  BY ScopeAssumption DEF NotAsked, ScopeQuery
<1>2. PaidQueries = {} /\ \A start \in Nat : InWindow(start) = {}
  BY <1>1 DEF ScopeInit, PaidQueries, InWindow
<1>3. RateInv
  BY <1>2, FS_EmptySet, ScopeAssumption DEF RateInv, AdmissionsCover, WindowsHold, ScopeInit
<1>4. DOMAIN admissions = {} /\ IsFiniteSet(DOMAIN admissions)
  BY FS_EmptySet DEF ScopeInit
<1>5. ScopeTypeOK
  <2>1. query \in [Queries -> ScopeQuery]
    BY <1>1 DEF ScopeInit
  <2>2. amendment \in [at : {"idle", "authorizing", "completing"}, kind : {"none"} \cup Kinds,
                      next : Nat]
    BY DEF ScopeInit, Quiet
  <2>3. /\ clock = 0 /\ rate \in Rates /\ stopped = FALSE /\ assets = FALSE
        /\ requestBudget = Budget /\ spent = 0 /\ revision = 0
        /\ turns = <<>> /\ hops = <<>> /\ ledger = "open" /\ records = {}
    BY Zenon DEF ScopeInit
  <2>4. /\ clock \in Nat /\ rate \in Nat /\ stopped \in BOOLEAN /\ assets \in BOOLEAN
        /\ requestBudget \in Nat /\ spent \in Nat /\ revision \in Nat
    BY <2>3, ScopeAssumption
  <2>5. turns \in Seq(Queries) /\ hops \in Seq(Urls)
    BY <2>3
  <2> QED BY <1>4, <2>1, <2>2, <2>4, <2>3, <2>5 DEF ScopeTypeOK
<1>6. GrantInv
  BY ScopeAssumption DEF ScopeInit, GrantInv, GrantsAreOnRecord, Quiet, Kinds
<1> QED BY <1>3, <1>5, <1>6 DEF ScopeInv

-----------------------------------------------------------------------------
\* A step after which nobody more has paid, and no admission that counts is dropped.
LEMMA NobodyPays ==
  ASSUME ScopeTypeOK, RateInv, rate' = rate, clock' \in Nat, clock <= clock',
         \A r \in PaidQueries' : r \in PaidQueries /\ query'[r].since = query[r].since,
         \A r \in DOMAIN admissions : admissions[r] + Window > clock =>
           r \in DOMAIN admissions' /\ admissions'[r] = admissions[r]
  PROVE  RateInv'
<1> SUFFICES ASSUME rate > 0 PROVE AdmissionsCover' /\ WindowsHold'
  BY DEF RateInv
<1>1. AdmissionsCover /\ WindowsHold
  BY DEF RateInv
<1>2. AdmissionsCover'
  <2> SUFFICES ASSUME NEW r \in PaidQueries'
               PROVE  /\ query'[r].since <= clock'
                      /\ query'[r].since + Window > clock' =>
                           r \in DOMAIN admissions' /\ admissions'[r] = query'[r].since
    BY DEF AdmissionsCover
  <2>1. r \in PaidQueries /\ query'[r].since = query[r].since /\ query[r].since \in Nat
    BY DEF PaidQueries, ScopeTypeOK, ScopeQuery
  <2>2. /\ query[r].since <= clock
        /\ query[r].since + Window > clock =>
             r \in DOMAIN admissions /\ admissions[r] = query[r].since
    BY <1>1, <2>1 DEF AdmissionsCover
  <2>3. query[r].since + Window > clock' => query[r].since + Window > clock
    BY <2>1, ScopeAssumption DEF ScopeTypeOK
  <2> QED BY <2>1, <2>2, <2>3 DEF ScopeTypeOK
<1>3. WindowsHold'
  <2> SUFFICES ASSUME NEW start \in Nat
               PROVE  IsFiniteSet(InWindow(start)') /\ Cardinality(InWindow(start)') <= rate
    BY DEF WindowsHold
  <2>1. InWindow(start)' \subseteq InWindow(start)
    BY DEF InWindow
  <2>2. IsFiniteSet(InWindow(start)) /\ Cardinality(InWindow(start)) <= rate
    BY <1>1 DEF WindowsHold
  <2>3. /\ IsFiniteSet(InWindow(start)')
        /\ Cardinality(InWindow(start)') <= Cardinality(InWindow(start))
        /\ Cardinality(InWindow(start)) \in Nat /\ Cardinality(InWindow(start)') \in Nat
    BY <2>1, <2>2, FS_Subset, FS_CardinalityType
  <2> QED BY <2>2, <2>3 DEF ScopeTypeOK
<1> QED BY <1>2, <1>3

\* A step that admits r now, when fewer than rate admissions count.
LEMMA OnePays ==
  ASSUME ScopeTypeOK, RateInv, NEW r \in Queries, rate' = rate, clock' = clock, FreeSlot,
         \A q \in PaidQueries' \ {r} : q \in PaidQueries /\ query'[q].since = query[q].since,
         r \in PaidQueries' => query'[r].since = clock,
         admissions' = [q \in Counted \cup {r} |-> IF q = r THEN clock ELSE admissions[q]]
  PROVE  RateInv'
<1> SUFFICES ASSUME rate > 0 PROVE AdmissionsCover' /\ WindowsHold'
  BY DEF RateInv
<1>1. AdmissionsCover /\ WindowsHold
  BY DEF RateInv
<1>2. /\ DOMAIN admissions' = Counted \cup {r} /\ admissions'[r] = clock
      /\ \A q \in Counted \ {r} : admissions'[q] = admissions[q]
  OBVIOUS
<1>3. AdmissionsCover'
  <2> SUFFICES ASSUME NEW q \in PaidQueries'
               PROVE  /\ query'[q].since <= clock
                      /\ query'[q].since + Window > clock =>
                           q \in DOMAIN admissions' /\ admissions'[q] = query'[q].since
    BY DEF AdmissionsCover
  <2>1. CASE q = r
    BY <1>2, <2>1 DEF ScopeTypeOK
  <2>2. CASE q # r
    <3>1. q \in PaidQueries /\ query'[q].since = query[q].since
      BY <2>2
    <3>2. /\ query[q].since <= clock
          /\ query[q].since + Window > clock =>
               q \in DOMAIN admissions /\ admissions[q] = query[q].since
      BY <1>1, <3>1 DEF AdmissionsCover
    <3> QED BY <1>2, <2>2, <3>1, <3>2 DEF Counted
  <2> QED BY <2>1, <2>2
<1>4. IsFiniteSet(Counted) /\ Cardinality(Counted) \in Nat
  <2>1. Counted \subseteq DOMAIN admissions /\ IsFiniteSet(DOMAIN admissions)
    BY DEF Counted, ScopeTypeOK
  <2> QED BY <2>1, FS_Subset, FS_CardinalityType
<1>5. WindowsHold'
  <2> SUFFICES ASSUME NEW start \in Nat
               PROVE  IsFiniteSet(InWindow(start)') /\ Cardinality(InWindow(start)') <= rate
    BY DEF WindowsHold
  <2>1. IsFiniteSet(InWindow(start)) /\ Cardinality(InWindow(start)) <= rate
    BY <1>1 DEF WindowsHold
  <2>2. CASE r \notin InWindow(start)'
    <3>1. InWindow(start)' \subseteq InWindow(start)
      BY <2>2 DEF InWindow
    <3>2. /\ IsFiniteSet(InWindow(start)')
          /\ Cardinality(InWindow(start)') <= Cardinality(InWindow(start))
          /\ Cardinality(InWindow(start)) \in Nat /\ Cardinality(InWindow(start)') \in Nat
      BY <3>1, <2>1, FS_Subset, FS_CardinalityType
    <3> QED BY <2>1, <3>2 DEF ScopeTypeOK
  <2>3. CASE r \in InWindow(start)'
    <3>1. clock \in start .. (start + Window - 1)
      BY <2>3 DEF InWindow
    <3>2. ASSUME NEW q \in InWindow(start)', q # r PROVE q \in Counted
      <4>1. q \in PaidQueries' /\ query'[q].since \in start .. (start + Window - 1)
        BY <3>2 DEF InWindow
      <4>2. q \in PaidQueries /\ query'[q].since = query[q].since
        BY <3>2, <4>1
      <4>3. query[q].since \in Nat /\ start <= query[q].since
        BY <4>1, <4>2 DEF PaidQueries, ScopeTypeOK, ScopeQuery
      <4>4. query[q].since + Window > clock
        <5>1. clock \in Nat /\ Window \in Nat /\ start \in Nat
          BY ScopeAssumption DEF ScopeTypeOK
        <5> QED BY <3>1, <4>3, <5>1
      <4>5. q \in DOMAIN admissions /\ admissions[q] = query[q].since
        BY <1>1, <4>2, <4>4 DEF AdmissionsCover
      <4> QED BY <4>4, <4>5 DEF Counted
    <3>3. InWindow(start)' \subseteq Counted \cup {r}
      BY <3>2
    <3>4. /\ IsFiniteSet(Counted \cup {r})
          /\ Cardinality(Counted \cup {r}) \in Nat
          /\ Cardinality(Counted \cup {r}) <= Cardinality(Counted) + 1
      <4>1. CASE r \in Counted
        <5>1. Counted \cup {r} = Counted
          BY <4>1
        <5> QED BY <1>4, <5>1
      <4>2. CASE r \notin Counted
        <5>1. /\ IsFiniteSet(Counted \cup {r})
              /\ Cardinality(Counted \cup {r}) = Cardinality(Counted) + 1
          BY <1>4, <4>2, FS_AddElement
        <5> QED BY <1>4, <5>1
      <4> QED BY <4>1, <4>2
    <3>5. /\ IsFiniteSet(InWindow(start)') /\ Cardinality(InWindow(start)') \in Nat
          /\ Cardinality(InWindow(start)') <= Cardinality(Counted \cup {r})
      BY <3>3, <3>4, FS_Subset, FS_CardinalityType
    <3>6. Cardinality(Counted) < rate
      BY DEF FreeSlot
    <3> QED BY <1>4, <3>4, <3>5, <3>6 DEF ScopeTypeOK
  <2> QED BY <2>2, <2>3
<1> QED BY <1>3, <1>5

-----------------------------------------------------------------------------
\* A request that moves to q, having paid only where the scope has no rate.
LEMMA QueryMoves ==
  ASSUME ScopeInv, NEW r \in Queries, NEW q \in ScopeQuery,
         query' = [query EXCEPT ![r] = q], UNCHANGED <<clock, settings>>,
         spent' \in Nat, turns' \in Seq(Queries), hops' \in Seq(Urls),
         DOMAIN admissions' \subseteq DOMAIN admissions,
         \A p \in DOMAIN admissions' : admissions'[p] = admissions[p],
         \A p \in DOMAIN admissions :
           admissions[p] + Window > clock => p \in DOMAIN admissions',
         q.at \in {"passed", "refused"} =>
           rate = 0 \/ (q.at = query[r].at /\ q.since = query[r].since),
         q.at \in {"passed", "resubmitted"} /\ q.at # query[r].at => ~stopped
  PROVE  ScopeInv' /\ PassesOnlyWhileOpen
<1>1. /\ query' \in [Queries -> ScopeQuery] /\ query'[r] = q
      /\ \A p \in Queries \ {r} : query'[p] = query[p]
  BY DEF ScopeInv, ScopeTypeOK
<1>2. IsFiniteSet(DOMAIN admissions')
  BY FS_Subset DEF ScopeInv, ScopeTypeOK
<1>3. ScopeTypeOK'
  BY <1>1, <1>2 DEF ScopeInv, ScopeTypeOK, settings
<1>4. RateInv'
  <2>1. CASE rate = 0
    BY <2>1 DEF RateInv, settings
  <2>2. CASE rate # 0
    <3>1. \A p \in PaidQueries' : p \in PaidQueries /\ query'[p].since = query[p].since
      BY <1>1, <2>2 DEF PaidQueries
    <3>2. \A p \in DOMAIN admissions : admissions[p] + Window > clock =>
            p \in DOMAIN admissions' /\ admissions'[p] = admissions[p]
      OBVIOUS
    <3>3. rate' = rate /\ clock' \in Nat /\ clock <= clock'
      BY DEF settings, ScopeInv, ScopeTypeOK
    <3> QED BY <3>1, <3>2, <3>3, NobodyPays DEF ScopeInv
  <2> QED BY <2>1, <2>2
<1>5. GrantInv'
  BY DEF ScopeInv, GrantInv, GrantsAreOnRecord, settings
<1>6. PassesOnlyWhileOpen
  BY <1>1 DEF PassesOnlyWhileOpen
<1> QED BY <1>3, <1>4, <1>5, <1>6 DEF ScopeInv

\* Records of a request that was not asked before.
LEMMA FreshQuery ==
  ASSUME NEW at \in {"idle", "queued"} \cup Decided, NEW since \in Nat, NEW s \in Shapes
  PROVE  /\ [NotAsked EXCEPT !.at = at] \in ScopeQuery
         /\ [NotAsked EXCEPT !.at = at].at = at
         /\ [NotAsked EXCEPT !.at = at, !.since = since] \in ScopeQuery
         /\ [NotAsked EXCEPT !.at = at, !.since = since].at = at
         /\ [NotAsked EXCEPT !.at = at, !.since = since].since = since
         /\ [NotAsked EXCEPT !.at = at, !.shape = s, !.since = since] \in ScopeQuery
         /\ [NotAsked EXCEPT !.at = at, !.shape = s, !.since = since].at = at
  BY ScopeAssumption DEF NotAsked, ScopeQuery

\* checkRequest up to its turn.
LEMMA CheckMoves ==
  ASSUME ScopeInv, NEW r \in Queries, NEW s \in Shapes, checkRequest(r, s),
         UNCHANGED <<clock, settings>>, hops' \in Seq(Urls)
  PROVE  ScopeInv' /\ PassesOnlyWhileOpen
<1> USE DEF ScopeInv, ScopeTypeOK
<1>1. stopped => denyIf(s)
  BY DEF denyIf
<1>2. CASE denyIf(s) /\ query' = [query EXCEPT ![r] = [NotAsked EXCEPT !.at = "denied"]]
           /\ UNCHANGED <<spent, admissions, turns>>
  <2> DEFINE q == [NotAsked EXCEPT !.at = "denied"]
  <2>1. q \in ScopeQuery /\ q.at = "denied"
    BY FreshQuery, ScopeAssumption DEF Decided
  <2>2. query' = [query EXCEPT ![r] = q]
    BY <1>2
  <2> HIDE DEF q
  <2> QED BY <1>2, <2>1, <2>2, QueryMoves
<1>3. CASE /\ ~denyIf(s) /\ rate > 0 /\ turns' = Append(turns, r)
           /\ query' = [query EXCEPT ![r] =
                          [NotAsked EXCEPT !.at = "queued", !.shape = s, !.since = clock]]
           /\ UNCHANGED <<spent, admissions>>
  <2> DEFINE q == [NotAsked EXCEPT !.at = "queued", !.shape = s, !.since = clock]
  <2>1. q \in ScopeQuery /\ q.at = "queued"
    BY ZenonT(60), FreshQuery
  <2>2. query' = [query EXCEPT ![r] = q] /\ turns' \in Seq(Queries)
    BY <1>3
  <2> HIDE DEF q
  <2> QED BY <1>3, <2>1, <2>2, QueryMoves
<1>4. CASE ~denyIf(s) /\ rate = 0 /\ Spends(r) /\ UNCHANGED <<admissions, turns>>
  <2>1. PICK verdict \in {"passed", "refused"} :
          query' = [query EXCEPT ![r] = [NotAsked EXCEPT !.at = verdict, !.since = clock]]
    BY <1>4 DEF Spends
  <2> DEFINE q == [NotAsked EXCEPT !.at = verdict, !.since = clock]
  <2>2. q \in ScopeQuery /\ q.at = verdict
    BY FreshQuery, ScopeAssumption DEF Decided
  <2>3. query' = [query EXCEPT ![r] = q] /\ spent' = spent + 1
    BY <1>4, <2>1, Zenon DEF Spends
  <2> HIDE DEF q
  <2>4. spent' \in Nat
    BY <2>3
  <2> QED BY <1>1, <1>4, <2>2, <2>3, <2>4, QueryMoves
<1> QED BY <1>2, <1>3, <1>4 DEF checkRequest

LEMMA HopMoves ==
  ASSUME ScopeInv, NEW r \in Queries, NEW s \in Shapes, NEW url \in Urls, Hop(r, s, url)
  PROVE  ScopeInv' /\ PassesOnlyWhileOpen
<1> USE DEF ScopeInv, ScopeTypeOK
<1>1. CASE rememberHop(url) /\ checkRequest(r, s)
  <2>1. hops' \in Seq(Urls)
    <3>1. (IF Len(hops) >= HopBound THEN Tail(hops) ELSE hops) \in Seq(Urls)
      <4>1. CASE hops = <<>>
        BY <4>1 DEF Hop
      <4>2. CASE hops # <<>>
        BY <4>2
      <4> QED BY <4>1, <4>2
    <3> QED BY <1>1, <3>1 DEF rememberHop
  <2>2. UNCHANGED <<clock, settings>>
    BY DEF Hop
  <2> QED BY <1>1, <2>1, <2>2, CheckMoves
<1>2. CASE \E base \in BOOLEAN :
             /\ query' = [query EXCEPT ![r] = [NotAsked EXCEPT
                   !.at = IF denyIf(s) THEN "denied"
                          ELSE IF base THEN "resubmitted" ELSE "denied"]]
             /\ UNCHANGED <<spent, admissions, turns, hops>>
  <2>1. PICK base \in BOOLEAN :
          query' = [query EXCEPT ![r] = [NotAsked EXCEPT
             !.at = IF denyIf(s) THEN "denied"
                    ELSE IF base THEN "resubmitted" ELSE "denied"]]
    BY <1>2
  <2> DEFINE at == IF denyIf(s) THEN "denied" ELSE IF base THEN "resubmitted" ELSE "denied"
             q == [NotAsked EXCEPT !.at = at]
  <2>2. at \in {"denied", "resubmitted"} /\ (stopped => at = "denied")
    BY DEF denyIf
  <2> HIDE DEF at
  <2>3. q \in ScopeQuery /\ q.at = at
    BY <2>2, FreshQuery, ScopeAssumption DEF Decided
  <2>4. query' = [query EXCEPT ![r] = q] /\ UNCHANGED <<clock, settings>>
    BY <2>1 DEF at, Hop
  <2> HIDE DEF q
  <2> QED BY <1>2, <2>2, <2>3, <2>4, QueryMoves
<1> QED BY <1>1, <1>2 DEF Hop

LEMMA PaceMoves ==
  ASSUME ScopeInv, pace
  PROVE  ScopeInv' /\ PassesOnlyWhileOpen
<1> USE DEF ScopeInv, ScopeTypeOK
<1> DEFINE r == Head(turns)
<1>1. r \in Queries /\ Tail(turns) \in Seq(Queries)
  BY DEF pace
<1>2. StopNoticed(r) \/ Admits(r) \/ RateLimited(r) \/ Sleeps(r)
  BY DEF pace
<1> HIDE DEF r
<1>3. UNCHANGED <<clock, settings>> /\ hops' = hops
  BY <1>2 DEF StopNoticed, Admits, RateLimited, Sleeps, Served
<1>4. /\ DOMAIN StillCounted = Counted /\ Counted \subseteq DOMAIN admissions
      /\ \A p \in Counted : StillCounted[p] = admissions[p]
      /\ \A p \in DOMAIN admissions : admissions[p] + Window > clock => p \in Counted
  BY DEF StillCounted, Counted
<1>5. CASE StopNoticed(r)
  <2> DEFINE q == [NotAsked EXCEPT !.at = "denied"]
  <2>1. q \in ScopeQuery /\ q.at = "denied"
    BY FreshQuery, ScopeAssumption DEF Decided
  <2>2. query' = [query EXCEPT ![r] = q] /\ UNCHANGED <<spent, admissions>> /\ turns' = Tail(turns)
    BY <1>5 DEF StopNoticed, Served
  <2> HIDE DEF q
  <2> QED BY <1>1, <1>3, <2>1, <2>2, QueryMoves
<1>6. CASE RateLimited(r)
  <2> DEFINE q == [NotAsked EXCEPT !.at = "limited"]
  <2>1. q \in ScopeQuery /\ q.at = "limited"
    BY FreshQuery, ScopeAssumption DEF Decided
  <2>2. /\ query' = [query EXCEPT ![r] = q] /\ spent' = spent /\ turns' = Tail(turns)
        /\ admissions' = StillCounted
    BY <1>6 DEF RateLimited, Served
  <2> HIDE DEF q
  <2> QED BY <1>1, <1>3, <1>4, <2>1, <2>2, QueryMoves
<1>7. CASE Sleeps(r)
  <2> DEFINE q == [query[r] EXCEPT !.waited = TRUE]
  <2>1. q \in ScopeQuery /\ q.at = query[r].at /\ q.since = query[r].since
    BY <1>1 DEF ScopeQuery
  <2>2. /\ query' = [query EXCEPT ![r] = q] /\ UNCHANGED <<spent, turns>>
        /\ admissions' = StillCounted
    BY <1>7 DEF Sleeps
  <2> HIDE DEF q
  <2> QED BY <1>1, <1>3, <1>4, <2>1, <2>2, QueryMoves
<1>8. CASE Admits(r)
  <2>1. /\ FreeSlot /\ ~stopped /\ turns' = Tail(turns)
        /\ admissions' = [q \in Counted \cup {r} |-> IF q = r THEN clock ELSE admissions[q]]
    BY <1>8 DEF Admits, Served
  <2>2. PICK q \in ScopeQuery :
          /\ query' = [query EXCEPT ![r] = q] /\ spent' \in Nat
          /\ q.at \in {"passed", "refused"} => q.since = clock
    <3>1. CASE /\ query' = [query EXCEPT ![r] = [NotAsked EXCEPT !.at = "denied"]]
               /\ spent' = spent
      <4> DEFINE q == [NotAsked EXCEPT !.at = "denied"]
      <4>1. q \in ScopeQuery /\ q.at = "denied" /\ query' = [query EXCEPT ![r] = q]
        BY <3>1, FreshQuery, ScopeAssumption DEF Decided
      <4> HIDE DEF q
      <4> QED BY <3>1, <4>1
    <3>2. CASE Spends(r)
      <4>1. PICK verdict \in {"passed", "refused"} :
              query' = [query EXCEPT ![r] = [NotAsked EXCEPT !.at = verdict, !.since = clock]]
        BY <3>2 DEF Spends
      <4> DEFINE q == [NotAsked EXCEPT !.at = verdict, !.since = clock]
      <4>2. q \in ScopeQuery /\ q.since = clock /\ query' = [query EXCEPT ![r] = q]
        BY <4>1, FreshQuery, ScopeAssumption DEF Decided
      <4> HIDE DEF q
      <4>3. spent' = spent + 1
        BY <3>2, Zenon DEF Spends
      <4>4. spent' \in Nat
        BY <1>1, <4>3 DEF ScopeTypeOK
      <4> QED BY <4>2, <4>4
    <3>3. \/ /\ query' = [query EXCEPT ![r] = [NotAsked EXCEPT !.at = "denied"]]
             /\ spent' = spent
          \/ Spends(r)
      BY <1>8, Zenon DEF Admits
    <3> QED BY <3>1, <3>2, <3>3
  <2>3. /\ query' \in [Queries -> ScopeQuery] /\ query'[r] = q
        /\ \A p \in Queries \ {r} : query'[p] = query[p]
    BY <1>1, <2>2
  <2>4. /\ \A p \in PaidQueries' \ {r} : p \in PaidQueries /\ query'[p].since = query[p].since
        /\ r \in PaidQueries' => query'[r].since = clock
    BY <2>2, <2>3 DEF PaidQueries
  <2>5. RateInv'
    BY <1>1, <1>3, <2>1, <2>4, OnePays DEF settings
  <2>6. /\ DOMAIN admissions' = Counted \cup {r} /\ IsFiniteSet(Counted \cup {r})
        /\ \A p \in DOMAIN admissions' : admissions'[p] \in Nat
    <3>1. /\ DOMAIN admissions' = Counted \cup {r}
          /\ \A p \in DOMAIN admissions' : admissions'[p] \in Nat
      BY <1>4, <2>1
    <3>2. IsFiniteSet(Counted)
      BY <1>4, FS_Subset
    <3> QED BY <3>1, <3>2, FS_AddElement
  <2>7. ScopeTypeOK'
    BY <1>1, <1>3, <1>4, <2>1, <2>2, <2>3, <2>6 DEF settings
  <2>8. GrantInv'
    BY <1>3 DEF GrantInv, GrantsAreOnRecord, settings
  <2>9. PassesOnlyWhileOpen
    BY <2>1 DEF PassesOnlyWhileOpen
  <2> QED BY <2>5, <2>7, <2>8, <2>9
<1> QED BY <1>2, <1>5, <1>6, <1>7, <1>8

LEMMA AppendSettles ==
  ASSUME ScopeTypeOK, NEW type \in {"authorized", "completed"}, appendCritical(type),
         amendment.kind \in Kinds
  PROVE  /\ records \subseteq records'
         /\ records' \subseteq ({"authorized", "completed"} \X Kinds \X Nat)
         /\ ledger' \in {"open", "full", "write_failed", "closed"}
         /\ ledger' = "open" => <<type, amendment.kind, amendment.next>> \in records'
<1>1. PICK outcome \in {"written", "full", "write_failed"} :
        \E durable \in (IF outcome = "written" THEN {TRUE} ELSE BOOLEAN) :
          /\ records' = IF durable THEN records \cup {<<type, amendment.kind, amendment.next>>} ELSE records
          /\ ledger' = IF outcome = "written" \/ ledger # "open" THEN ledger ELSE outcome
  BY DEF appendCritical
<1>2. PICK durable \in BOOLEAN :
        /\ outcome = "written" => durable
        /\ records' = IF durable THEN records \cup {<<type, amendment.kind, amendment.next>>} ELSE records
        /\ ledger' = IF outcome = "written" \/ ledger # "open" THEN ledger ELSE outcome
  BY <1>1
<1>3. ledger' = "open" => outcome = "written"
  BY <1>2
<1>4. <<type, amendment.kind, amendment.next>> \in {"authorized", "completed"} \X Kinds \X Nat
  BY DEF ScopeTypeOK
<1> QED BY <1>2, <1>3, <1>4 DEF ScopeTypeOK

\* The ledger, the amendments and the clock: nobody pays and nobody passes.
LEMMA LedgerMoves ==
  ASSUME ScopeInv,
         \/ Unavailable \/ SessionEnds \/ Authorized \/ Completed \/ Tick
         \/ \E kind \in Kinds : Amend(kind)
  PROVE  ScopeInv' /\ PassesOnlyWhileOpen
<1> USE DEF ScopeInv
<1>1. /\ UNCHANGED <<rate, traffic>> /\ clock' \in Nat /\ clock <= clock'
  <2>1. CASE Tick
    BY <2>1, ScopeAssumption DEF Tick, settings, ScopeTypeOK
  <2> QED BY <2>1 DEF Unavailable, SessionEnds, Authorized, Completed, Amend, ScopeTypeOK
<1>2. RateInv'
  <2>1. /\ \A p \in PaidQueries' : p \in PaidQueries /\ query'[p].since = query[p].since
        /\ \A p \in DOMAIN admissions : admissions[p] + Window > clock =>
             p \in DOMAIN admissions' /\ admissions'[p] = admissions[p]
    BY <1>1 DEF traffic, PaidQueries
  <2> QED BY <1>1, <2>1, NobodyPays
<1>3. PassesOnlyWhileOpen
  BY <1>1 DEF traffic, PassesOnlyWhileOpen
<1>4. ScopeTypeOK' /\ GrantInv'
  <2>1. CASE Unavailable \/ SessionEnds
    <3>1. /\ UNCHANGED <<clock, rate, traffic, assets, requestBudget>>
          /\ UNCHANGED <<revision, records, amendment>>
          /\ stopped' = TRUE /\ ledger' \in {"open", "full", "write_failed", "closed"}
      BY <2>1 DEF Unavailable, SessionEnds
    <3>2. ScopeTypeOK'
      BY <3>1 DEF traffic, ScopeTypeOK
    <3>3. GrantInv'
      BY <3>1 DEF GrantInv, GrantsAreOnRecord
    <3> QED BY <3>2, <3>3
  <2>2. CASE Tick
    BY <1>1, <2>2 DEF Tick, settings, traffic, ScopeTypeOK, GrantInv, GrantsAreOnRecord
  <2>3. CASE \E kind \in Kinds : Amend(kind)
    <3>1. PICK kind \in Kinds : Amend(kind)
      BY <2>3
    <3>2. /\ amendment' = [at |-> "authorizing", kind |-> kind, next |-> revision + 1]
          /\ UNCHANGED <<clock, rate, traffic, stopped, assets, requestBudget, revision, ledger>>
          /\ UNCHANGED records /\ amendment.at = "idle"
      BY <3>1 DEF Amend, Quiet
    <3>3. /\ amendment' \in [at : {"idle", "authorizing", "completing"},
                             kind : {"none"} \cup Kinds, next : Nat]
          /\ amendment'.at = "authorizing" /\ amendment'.kind = kind
          /\ amendment'.next = revision + 1
      BY <3>2 DEF ScopeTypeOK
    <3>4. ScopeTypeOK'
      BY <3>2, <3>3 DEF traffic, ScopeTypeOK
    <3>5. \A k, rev : amendment # [at |-> "completing", kind |-> k, next |-> rev]
      BY <3>2
    <3>6. GrantsAreOnRecord'
      BY <3>2, <3>5 DEF GrantInv, GrantsAreOnRecord
    <3> QED BY <3>2, <3>3, <3>4, <3>6 DEF GrantInv
  <2>4. CASE Authorized
    <3>1. /\ amendment.at = "authorizing" /\ amendment.kind \in Kinds
          /\ records \subseteq records'
          /\ records' \subseteq ({"authorized", "completed"} \X Kinds \X Nat)
          /\ ledger' \in {"open", "full", "write_failed", "closed"}
          /\ ledger' = "open" => <<"authorized", amendment.kind, amendment.next>> \in records'
      BY <2>4, AppendSettles DEF Authorized, ScopeTypeOK, GrantInv
    <3>2. CASE ledger' = "open" /\ Grant /\ amendment' = [amendment EXCEPT !.at = "completing"]
               /\ UNCHANGED stopped
      <4>1. /\ amendment'.at = "completing" /\ amendment'.kind = amendment.kind
            /\ amendment' \in [at : {"idle", "authorizing", "completing"},
                               kind : {"none"} \cup Kinds, next : Nat]
        BY <3>1, <3>2 DEF ScopeTypeOK
      <4>2. /\ assets' \in BOOLEAN /\ revision' \in Nat /\ requestBudget' \in Nat
            /\ assets' => assets \/ amendment.kind = "assets"
            /\ requestBudget' > Budget => requestBudget > Budget \/ amendment.kind = "budget"
            /\ revision' = revision + 1 /\ revision \in Nat
        BY <3>2, ScopeAssumption DEF Grant, ScopeTypeOK
      <4>3. ScopeTypeOK'
        BY <1>1, <3>1, <3>2, <4>1, <4>2 DEF ScopeTypeOK, traffic
      <4>4. GrantsAreOnRecord'
        <5> DEFINE next == amendment.next
        <5>1. next = revision' /\ next \in 1 .. revision'
          BY <3>1, <4>2 DEF GrantInv
        <5>2. \A rev \in 1 .. revision' : rev = next \/ rev \in 1 .. revision
          BY <4>2, <5>1
        <5>3. amendment' = [at |-> "completing", kind |-> amendment.kind, next |-> next]
          BY <3>2 DEF ScopeTypeOK
        <5>4. \A rev \in 1 .. revision : \E kind \in Kinds :
                /\ <<"authorized", kind, rev>> \in records'
                /\ <<"completed", kind, rev>> \in records' \/ stopped'
          <6>1. \A kind, rev : amendment # [at |-> "completing", kind |-> kind, next |-> rev]
            BY <3>1
          <6> QED BY <3>1, <3>2, <6>1 DEF GrantInv, GrantsAreOnRecord
        <5>5. \A rev \in 1 .. revision' : \E kind \in Kinds :
                /\ <<"authorized", kind, rev>> \in records'
                /\ \/ amendment' = [at |-> "completing", kind |-> kind, next |-> rev]
                   \/ <<"completed", kind, rev>> \in records'
                   \/ stopped'
          BY <3>1, <3>2, <5>2, <5>3, <5>4
        <5>6. 1 .. revision \subseteq 1 .. revision'
          BY <4>2
        <5>7. assets' => \E rev \in 1 .. revision' : <<"authorized", "assets", rev>> \in records'
          BY <3>1, <3>2, <4>2, <5>1, <5>6 DEF GrantInv, GrantsAreOnRecord
        <5>8. requestBudget' > Budget =>
                \E rev \in 1 .. revision' : <<"authorized", "budget", rev>> \in records'
          BY <3>1, <3>2, <4>2, <5>1, <5>6 DEF GrantInv, GrantsAreOnRecord
        <5> QED BY <5>5, <5>7, <5>8 DEF GrantsAreOnRecord
      <4> QED BY <3>1, <3>2, <4>1, <4>3, <4>4 DEF GrantInv
    <3>3. CASE /\ stopped' = TRUE /\ amendment' = Quiet
               /\ UNCHANGED <<revision, assets, requestBudget>>
      <4>1. ScopeTypeOK'
        BY <1>1, <3>1, <3>3 DEF ScopeTypeOK, traffic, Quiet
      <4> QED BY <3>1, <3>3, <4>1 DEF GrantInv, GrantsAreOnRecord, Quiet, Kinds
    <3> QED BY <2>4, <3>2, <3>3 DEF Authorized
  <2>5. CASE Completed
    <3>1. /\ amendment.at = "completing" /\ amendment.kind \in Kinds
          /\ records \subseteq records'
          /\ records' \subseteq ({"authorized", "completed"} \X Kinds \X Nat)
          /\ ledger' \in {"open", "full", "write_failed", "closed"}
          /\ ledger' = "open" => <<"completed", amendment.kind, amendment.next>> \in records'
      BY <2>5, AppendSettles DEF Completed, ScopeTypeOK, GrantInv
    <3>2. /\ amendment' = Quiet /\ stopped' \in BOOLEAN /\ (stopped => stopped')
          /\ ledger' # "open" => stopped'
          /\ UNCHANGED <<assets, requestBudget, revision>>
      BY <2>5 DEF Completed, ScopeTypeOK
    <3>3. ScopeTypeOK'
      BY <1>1, <3>1, <3>2 DEF ScopeTypeOK, traffic, Quiet
    <3>4. GrantsAreOnRecord'
      BY <3>1, <3>2 DEF GrantInv, GrantsAreOnRecord, Kinds
    <3> QED BY <3>2, <3>3, <3>4 DEF GrantInv, Quiet, Kinds
  <2> QED BY <2>1, <2>2, <2>3, <2>4, <2>5
<1> QED BY <1>2, <1>3, <1>4

LEMMA ScopeStepKeeps ==
  ScopeInv /\ [ScopeNext]_scopeVars => ScopeInv' /\ [PassesOnlyWhileOpen]_scopeVars
<1> SUFFICES ASSUME ScopeInv, [ScopeNext]_scopeVars
             PROVE  ScopeInv' /\ [PassesOnlyWhileOpen]_scopeVars
  OBVIOUS
<1>1. CASE UNCHANGED scopeVars
  BY <1>1 DEF scopeVars, settings, traffic, ScopeInv, ScopeTypeOK, RateInv, AdmissionsCover,
              WindowsHold, InWindow, PaidQueries, GrantInv, GrantsAreOnRecord
<1>2. CASE \E r \in Queries, s \in Shapes : Query(r, s)
  <2>1. PICK r \in Queries, s \in Shapes : Query(r, s)
    BY <1>2
  <2>2. UNCHANGED <<clock, settings>> /\ hops' \in Seq(Urls) /\ checkRequest(r, s)
    BY <2>1 DEF Query, ScopeInv, ScopeTypeOK
  <2> QED BY <2>2, CheckMoves
<1> QED BY <1>1, <1>2, HopMoves, PaceMoves, LedgerMoves DEF ScopeNext

\* Every reachable state of a scope: no window over the rate, and every grant on record.
THEOREM ScopeInvariant == ScopeSpec => []ScopeInv
<1> QED BY ScopeInitial, ScopeStepKeeps, PTL DEF ScopeSpec

\* No window holds more requests than the engagement allows, nothing passes once it is
\* stopped, and a grant is on record before it counts (pace, checkRequest, appendCritical).
THEOREM ScopeKept == ScopeSpec => ScopeHolds
<1>1. ScopeInv => ScopeTypeOK /\ RateHolds /\ GrantsAreOnRecord
  <2>1. ScopeTypeOK => 0 .. clock \subseteq Nat
    BY DEF ScopeTypeOK
  <2> QED BY <2>1 DEF ScopeInv, RateInv, WindowsHold, RateHolds, GrantInv
<1>2. ScopeInv /\ [ScopeNext]_scopeVars => [PassesOnlyWhileOpen]_scopeVars
  BY ScopeStepKeeps
<1> QED BY ScopeInvariant, <1>1, <1>2, PTL DEF ScopeSpec, ScopeHolds, StoppedIsSilent
-----------------------------------------------------------------------------
(* The login browser's profile (LoginBrowser).                             *)

Tokens == [server : Servers, life : Nat, n : Nat \ {0}]
Pins == [path : Paths \cup {"none"}, build : Nat, version : Nat]
Saws == [pin : Pins, path : Paths \cup {"none"}, build : Nat, probed : Nat]
Chromes == [token : Tokens, up : BOOLEAN, closing : BOOLEAN, version : Nat]
LockReleases ==
  [server : Servers, token : Tokens, at : {"read", "remove"}, awaited : BOOLEAN]
LoginSteps ==
  Operations \cup Opening \cup {"idle", "changed", "unread", "closing"}

LoginTypeOK ==
  /\ disk \in [Paths -> [build : Nat, version : Nat]] /\ chosen \in Paths
  /\ pin \in Pins
  /\ life \in [Servers -> Nat] /\ step \in [Servers -> LoginSteps]
  /\ lockToken \in [Servers -> Tokens \cup {None}]
  /\ context \in [Servers -> Tokens \cup {None}]
  /\ saw \in [Servers -> Saws]
  /\ browsers \subseteq Chromes /\ releases \subseteq LockReleases
  /\ launches \in Nat

\* A token is of one Chrome, and of a process that is or was.
TokensOnce ==
  /\ \A b, c \in browsers : b.token = c.token => b = c
  /\ \A b \in browsers : b.token.n <= launches /\ b.token.life <= life[b.token.server]
  /\ \A r \in releases : r.token.n <= launches
  /\ \A s \in Servers :
       lockToken[s] # None => lockToken[s].server = s /\ lockToken[s].n <= launches

\* A server about to launch holds a token of its own that no Chrome and no release has.
FreshToken ==
  \A s \in Servers :
    step[s] = "launch" =>
      /\ lockToken[s] \in Tokens /\ lockToken[s].server = s /\ lockToken[s].life = life[s]
      /\ \A b \in browsers : b.token # lockToken[s]
      /\ \A r \in releases : r.token # lockToken[s]

WindowsInv == TokensOnce /\ FreshToken /\ OpenWindowIsKnown

\* The file the pin names is no older than the pin says, and the pin's build was put at
\* a path before those to come.
PinInv ==
  /\ pin.path \in Paths /\ disk[pin.path].build = pin.build
       => disk[pin.path].version >= pin.version
  /\ \E p \in Paths : pin.build <= disk[p].build

PastJudgement == {"lock", "adopt", "launch", "record"}

\* What an open has read, by the stage it is in: nobody else writes the pin, and from
\* when it decided, the binary it decided on is as new as the pin.
OpenInv(s) ==
  LET now == disk[saw[s].path].version IN
  step[s] \in Opening =>
    /\ saw[s].path \in Paths /\ saw[s].pin = pin /\ saw[s].probed <= now
    /\ \E p \in Paths : saw[s].build <= disk[p].build
    /\ step[s] = "judge" /\ Matches(s) => now >= pin.version
    /\ step[s] \in PastJudgement => now >= pin.version
    /\ step[s] = "record" => \A b \in browsers : b.token = context[s] => b.version <= now

AloneInv == Alone => \A s \in Servers : PinInv /\ OpenInv(s)

\* An open goes on with a path it has read.
PathInv == \A s \in Servers : step[s] \in Opening => saw[s].path \in Paths

LoginInv == LoginTypeOK /\ PathInv /\ WindowsInv /\ AloneInv

LEMMA LoginInitHolds == LoginInit => LoginInv
<1>. SUFFICES ASSUME LoginInit PROVE LoginInv
  OBVIOUS
<1>1. LoginTypeOK
  BY DEF LoginInit, LoginTypeOK, Pins, Saws, NoPin, Nothing, LoginSteps
<1>2. WindowsInv
  BY DEF LoginInit, WindowsInv, TokensOnce, FreshToken, OpenWindowIsKnown
<1>3. AloneInv
  BY DEF LoginInit, AloneInv, PinInv, OpenInv, NoPin, Opening
<1>4. PathInv
  BY DEF LoginInit, PathInv, Opening
<1>. QED BY <1>1, <1>2, <1>3, <1>4 DEF LoginInv

-----------------------------------------------------------------------------
(* Types.                                                                  *)

LEMMA TypesStayAtAServer ==
  ASSUME LoginTypeOK, NEW s \in Servers,
         \/ \E what \in Operations : Ask(s, what)
         \/ Returns(s) \/ reset(s) \/ resolvePinnedExecutable(s) \/ PassesJudgement(s)
         \/ ChangedOutright(s) \/ Refused(s) \/ SeesStale(s)
         \/ Adopts(s) \/ InUse(s) \/ LaunchFails(s) \/ Closed(s) \/ CloseFails(s)
  PROVE  LoginTypeOK'
<1>1. Nothing \in Saws /\ NoPin \in Pins
  BY DEF Saws, Pins, NoPin, Nothing
<1>2. UNCHANGED <<files, life, lockToken, context, browsers, releases, launches>>
  BY DEF Ask, Returns, reset, resolvePinnedExecutable, PassesJudgement, ChangedOutright,
         Refused, SeesStale, Adopts, InUse, LaunchFails, Closed, CloseFails
<1>3. pin' = pin \/ pin' = NoPin
  BY DEF Ask, Returns, reset, resolvePinnedExecutable, PassesJudgement, ChangedOutright,
         Refused, SeesStale, Adopts, InUse, LaunchFails, Closed, CloseFails
<1>4. \E to \in LoginSteps : step' = [step EXCEPT ![s] = to]
  BY DEF Ask, Returns, reset, resolvePinnedExecutable, PassesJudgement, ChangedOutright,
         Refused, SeesStale, Adopts, InUse, LaunchFails, Closed, CloseFails, Goes, EndsOperation,
         LoginSteps, Operations, Opening
<1>5. \E v \in Saws : saw' = [saw EXCEPT ![s] = v]
  <2>1. CASE resolvePinnedExecutable(s)
    <3>1. CASE \E b \in browsers : b.up
      BY <1>1, <2>1, <3>1 DEF resolvePinnedExecutable, EndsOperation
    <3>2. CASE ~\E b \in browsers : b.up
      <4>1. disk[chosen] \in [build : Nat, version : Nat] /\ pin \in Pins /\ chosen \in Paths
        BY DEF LoginTypeOK
      <4>2. PICK v : v = [pin |-> pin, path |-> chosen, build |-> disk[chosen].build,
                          probed |-> 0]
        OBVIOUS
      <4>3. v \in Saws
        BY <4>1, <4>2 DEF Saws
      <4>4. saw' = [saw EXCEPT ![s] = v]
        BY <2>1, <3>2, <4>2 DEF resolvePinnedExecutable
      <4>. QED BY <4>3, <4>4
    <3>. QED BY <3>1, <3>2
  <2>2. CASE UNCHANGED saw
    <3>1. saw = [saw EXCEPT ![s] = saw[s]] /\ saw[s] \in Saws
      BY DEF LoginTypeOK
    <3>. QED BY <2>2, <3>1
  <2>3. CASE EndsOperation(s)
    BY <1>1, <2>3 DEF EndsOperation
  <2>. QED BY <2>1, <2>2, <2>3
    DEF Ask, Returns, reset, PassesJudgement, ChangedOutright,
        Refused, SeesStale, Adopts, InUse, LaunchFails, Closed, CloseFails
<1>6. step' \in [Servers -> LoginSteps] /\ saw' \in [Servers -> Saws] /\ pin' \in Pins
  BY <1>1, <1>3, <1>4, <1>5 DEF LoginTypeOK
<1>. QED BY <1>2, <1>6 DEF LoginTypeOK, files

LEMMA TypesStayAtTheLock ==
  ASSUME LoginTypeOK, NEW s \in Servers,
         \/ acquireProfileLock(s) \/ Killed(s) \/ reapDeadContext(s)
  PROVE  LoginTypeOK'
<1>1. CASE acquireProfileLock(s)
  <2>1. PICK k : k = [server |-> s, life |-> life[s], n |-> launches + 1]
    OBVIOUS
  <2>2. k \in Tokens /\ launches' \in Nat
    BY <1>1, <2>1 DEF LoginTypeOK, Tokens, acquireProfileLock
  <2>3. lockToken' = [lockToken EXCEPT ![s] = k] /\ step' = [step EXCEPT ![s] = "launch"]
    BY <1>1, <2>1 DEF acquireProfileLock, Goes
  <2>4. lockToken' \in [Servers -> Tokens \cup {None}] /\ step' \in [Servers -> LoginSteps]
    BY <2>2, <2>3 DEF LoginTypeOK, LoginSteps, Opening
  <2>. QED BY <1>1, <2>2, <2>4 DEF LoginTypeOK, acquireProfileLock, files
<1>2. CASE Killed(s)
  <2>1. Nothing \in Saws
    BY DEF Saws, Pins, NoPin, Nothing
  <2>2. /\ life' \in [Servers -> Nat] /\ step' \in [Servers -> LoginSteps]
        /\ saw' \in [Servers -> Saws]
    BY <1>2, <2>1 DEF Killed, LoginTypeOK, EndsOperation, Goes, LoginSteps
  <2>3. /\ context' \in [Servers -> Tokens \cup {None}]
        /\ lockToken' \in [Servers -> Tokens \cup {None}]
        /\ releases' \subseteq LockReleases
    BY <1>2 DEF Killed, LoginTypeOK
  <2>. QED BY <1>2, <2>2, <2>3 DEF LoginTypeOK, Killed, files
<1>3. CASE reapDeadContext(s)
  <2>1. context' \in [Servers -> Tokens \cup {None}] /\ step' \in [Servers -> LoginSteps]
    BY <1>3 DEF reapDeadContext, LoginTypeOK, Goes, LoginSteps
  <2>2. PICK k : k = [server |-> s, token |-> lockToken[s], at |-> "read",
                      awaited |-> TRUE]
    OBVIOUS
  <2>3. releases' = releases \/ (lockToken[s] # None /\ releases' = releases \cup {k})
    BY <1>3, <2>2 DEF reapDeadContext, StartRelease
  <2>4. lockToken[s] # None => k \in LockReleases
    BY <2>2 DEF LoginTypeOK, LockReleases
  <2>5. releases' \subseteq LockReleases
    BY <2>3, <2>4 DEF LoginTypeOK
  <2>. QED BY <1>3, <2>1, <2>5 DEF LoginTypeOK, reapDeadContext, files
<1>. QED BY <1>1, <1>2, <1>3

LEMMA TypesStayInAnOpen ==
  ASSUME LoginTypeOK, NEW s \in Servers, saw[s].path \in Paths \/ ~(step[s] \in Opening),
         \/ probeChromeVersion(s) \/ (launchPersistentContext(s) /\ lockToken[s] \in Tokens)
         \/ writePin(s) \/ closeLocked(s)
  PROVE  LoginTypeOK'
<1>0. /\ saw[s] \in Saws /\ saw[s].pin \in Pins /\ saw[s].build \in Nat
      /\ saw[s].probed \in Nat
  BY DEF LoginTypeOK, Saws
<1>1. CASE probeChromeVersion(s)
  <2>1. step[s] = "judge" /\ saw[s].path \in Paths
    BY <1>1 DEF probeChromeVersion, Opening
  <2>2. PICK v \in {0, disk[saw[s].path].version} :
          /\ saw' = [saw EXCEPT ![s].probed = v]
          /\ \E to \in {"unread", "lock", "changed"} : Goes(s, to)
    BY <1>1 DEF probeChromeVersion
  <2>3. v \in Nat
    BY <2>1, <2>2 DEF LoginTypeOK
  <2>4. PICK k : k = [saw[s] EXCEPT !.probed = v]
    OBVIOUS
  <2>5. k \in Saws
    BY <1>0, <2>3, <2>4 DEF Saws
  <2>6. saw' = [saw EXCEPT ![s] = k]
    BY <2>2, <2>4
  <2>7. saw' \in [Servers -> Saws] /\ step' \in [Servers -> LoginSteps]
    BY <2>2, <2>5, <2>6 DEF LoginTypeOK, Goes, LoginSteps, Opening
  <2>. QED BY <1>1, <2>7 DEF LoginTypeOK, probeChromeVersion, files
<1>2. CASE launchPersistentContext(s) /\ lockToken[s] \in Tokens
  <2>1. step[s] = "launch" /\ saw[s].path \in Paths
    BY <1>2 DEF launchPersistentContext, Opening
  <2>2. PICK b : b = [token |-> lockToken[s], up |-> TRUE, closing |-> FALSE,
                      version |-> disk[saw[s].path].version]
    OBVIOUS
  <2>3. b \in Chromes
    BY <1>2, <2>1, <2>2 DEF LoginTypeOK, Chromes
  <2>4. browsers' = browsers \cup {b}
    BY <1>2, <2>2 DEF launchPersistentContext
  <2>5. /\ browsers' \subseteq Chromes /\ step' \in [Servers -> LoginSteps]
        /\ context' \in [Servers -> Tokens \cup {None}]
    BY <1>2, <2>3, <2>4 DEF launchPersistentContext, LoginTypeOK, Goes, LoginSteps, Opening
  <2>. QED BY <1>2, <2>5 DEF LoginTypeOK, launchPersistentContext, files
<1>3. CASE writePin(s)
  <2>1. step[s] = "record" /\ saw[s].path \in Paths
    BY <1>3 DEF writePin, Opening
  <2>2. PICK v \in Reported(s) :
          pin' = [path |-> saw[s].path, build |-> saw[s].build, version |-> Version(s, v)]
    BY <1>3 DEF writePin
  <2>3. v \in Nat
    BY DEF Reported, LoginTypeOK, Chromes
  <2>4. Version(s, v) \in Nat
    BY <1>0, <2>3 DEF Version, Pins
  <2>5. pin' \in Pins
    BY <1>0, <2>1, <2>2, <2>4 DEF Pins
  <2>6. Nothing \in Saws
    BY DEF Saws, Pins, NoPin, Nothing
  <2>7. saw' \in [Servers -> Saws] /\ step' \in [Servers -> LoginSteps]
    BY <1>3, <2>6 DEF LoginTypeOK, writePin, EndsOperation, Goes, LoginSteps
  <2>. QED BY <1>3, <2>5, <2>7 DEF LoginTypeOK, writePin, files
<1>4. CASE closeLocked(s)
  <2>1. \A b \in browsers : [b EXCEPT !.closing = TRUE] \in Chromes /\ b \in Chromes
    BY DEF LoginTypeOK, Chromes
  <2>2. browsers' \subseteq Chromes
    BY <1>4, <2>1 DEF closeLocked
  <2>3. /\ step' \in [Servers -> LoginSteps]
        /\ context' \in [Servers -> Tokens \cup {None}]
    BY <1>4 DEF closeLocked, LoginTypeOK, Goes, LoginSteps
  <2>. QED BY <1>4, <2>2, <2>3 DEF LoginTypeOK, closeLocked, files
<1>. QED BY <1>1, <1>2, <1>3, <1>4

LEMMA TypesStayAtAClose ==
  ASSUME LoginTypeOK,
         \/ \E b \in browsers : Exits(b) \/ CloseEvent(b)
         \/ \E r \in releases : ReadsHolder(r) \/ Removes(r)
  PROVE  LoginTypeOK'
<1>1. ASSUME NEW b \in browsers, Exits(b) PROVE LoginTypeOK'
  <2>1. [b EXCEPT !.up = FALSE] \in Chromes
    BY DEF LoginTypeOK, Chromes
  <2>2. browsers' \subseteq Chromes
    BY <1>1, <2>1 DEF Exits, LoginTypeOK
  <2>. QED BY <1>1, <2>2 DEF Exits, LoginTypeOK, files
<1>2. ASSUME NEW b \in browsers, CloseEvent(b) PROVE LoginTypeOK'
  <2>1. b.token \in Tokens /\ b.token.server \in Servers
    BY DEF LoginTypeOK, Chromes, Tokens
  <2>2. context' \in [Servers -> Tokens \cup {None}]
    BY <1>2, <2>1 DEF CloseEvent, Forgets, LoginTypeOK
  <2>3. PICK k : k = [server |-> b.token.server, token |-> b.token,
                      at |-> "read", awaited |-> FALSE]
    OBVIOUS
  <2>4. k \in LockReleases
    BY <2>1, <2>3 DEF LockReleases
  <2>5. releases' = releases \/ releases' = releases \cup {k}
    BY <1>2, <2>3 DEF CloseEvent, StartRelease
  <2>6. releases' \subseteq LockReleases
    BY <2>4, <2>5 DEF LoginTypeOK
  <2>. QED BY <1>2, <2>2, <2>6 DEF CloseEvent, LoginTypeOK, files
<1>3. ASSUME NEW r \in releases, ReadsHolder(r) PROVE LoginTypeOK'
  <2>1. r.server \in Servers /\ [r EXCEPT !.at = "remove"] \in LockReleases
    BY DEF LoginTypeOK, LockReleases
  <2>2. releases' \subseteq LockReleases
    BY <1>3, <2>1 DEF ReadsHolder, LoginTypeOK
  <2>3. lockToken' \in [Servers -> Tokens \cup {None}]
    BY <1>3, <2>1 DEF ReadsHolder, LoginTypeOK
  <2>. QED BY <1>3, <2>2, <2>3 DEF ReadsHolder, LoginTypeOK, files
<1>4. ASSUME NEW r \in releases, Removes(r) PROVE LoginTypeOK'
  BY <1>4 DEF Removes, LoginTypeOK, files
<1>. QED BY <1>1, <1>2, <1>3, <1>4

\* What becomes of the files: one is put at a path, with a build none had before.
Puts(p) ==
  \E build \in 1..MaxBuilds, version \in Nat :
    /\ New(build)
    /\ disk' = [disk EXCEPT ![p] = [build |-> build, version |-> version]]
    /\ version >= disk[p].version \/ \A s \in Servers : step[s] \notin Opening

LEMMA FilesMove ==
  ASSUME LoginTypeOK, NEW p \in Paths, SelfUpdates(p) \/ Replaced(p) \/ Prefers(p)
  PROVE  /\ LoginTypeOK' /\ UNCHANGED untouched
         /\ Puts(p) \/ UNCHANGED disk
<1>1. disk[p] \in [build : Nat, version : Nat] /\ disk[p].version \in Nat
  BY DEF LoginTypeOK
<1>2. UNCHANGED untouched /\ chosen' \in Paths
  BY DEF LoginTypeOK, SelfUpdates, Replaced, Prefers
<1>3. Puts(p) \/ UNCHANGED disk
  <2>1. CASE SelfUpdates(p)
    <3>1. PICK build \in 1..MaxBuilds :
            /\ New(build)
            /\ disk' = [disk EXCEPT ![p] = [build |-> build,
                                           version |-> disk[p].version + 1]]
      BY <2>1 DEF SelfUpdates
    <3>2. disk[p].version + 1 \in Nat /\ disk[p].version + 1 >= disk[p].version
      BY <1>1
    <3>. QED BY <3>1, <3>2 DEF Puts
  <2>2. CASE Replaced(p)
    <3>1. 1..MaxVersion \subseteq Nat
      BY LoginAssumption
    <3>. QED BY <2>2, <3>1 DEF Replaced, Puts
  <2>. QED BY <2>1, <2>2 DEF Prefers
<1>4. disk' \in [Paths -> [build : Nat, version : Nat]]
  BY <1>3, LoginAssumption DEF Puts, LoginTypeOK
<1>. QED BY <1>2, <1>3, <1>4 DEF LoginTypeOK, untouched
-----------------------------------------------------------------------------
(* Windows and tokens.                                                     *)

LEMMA WindowsUntouched ==
  ASSUME WindowsInv, UNCHANGED <<life, lockToken, context, browsers, releases, launches>>,
         \A s \in Servers : step'[s] = "launch" => step[s] = "launch"
  PROVE  WindowsInv'
<1>1. TokensOnce'
  BY DEF WindowsInv, TokensOnce
<1>2. FreshToken'
  BY DEF WindowsInv, FreshToken
<1>3. OpenWindowIsKnown'
  BY DEF WindowsInv, OpenWindowIsKnown, Stale
<1>. QED BY <1>1, <1>2, <1>3 DEF WindowsInv

LEMMA WindowsAtTheLock ==
  ASSUME LoginTypeOK, WindowsInv, NEW s \in Servers,
         acquireProfileLock(s) \/ Killed(s) \/ reapDeadContext(s)
  PROVE  WindowsInv'
<1>1. CASE acquireProfileLock(s)
  <2>1. PICK k : k = [server |-> s, life |-> life[s], n |-> launches + 1]
    OBVIOUS
  <2>2. k \in Tokens /\ launches' = launches + 1 /\ launches \in Nat
    BY <1>1, <2>1 DEF LoginTypeOK, Tokens, acquireProfileLock
  <2>3. /\ lockToken' = [lockToken EXCEPT ![s] = k] /\ step' = [step EXCEPT ![s] = "launch"]
        /\ UNCHANGED <<life, context, browsers, releases>>
    BY <1>1, <2>1 DEF acquireProfileLock, Goes
  <2>4. /\ \A b \in browsers : b.token \in Tokens /\ b.token.n <= launches
        /\ \A r \in releases : r.token \in Tokens /\ r.token.n <= launches
    BY DEF LoginTypeOK, Chromes, LockReleases, WindowsInv, TokensOnce
  <2>5. TokensOnce'
    <3>1. /\ \A b \in browsers : b.token.n <= launches + 1
          /\ \A r \in releases : r.token.n <= launches + 1
      BY <2>2, <2>4 DEF Tokens
    <3>2. ASSUME NEW t \in Servers, lockToken'[t] # None
          PROVE  lockToken'[t].server = t /\ lockToken'[t].n <= launches + 1
      <4>1. CASE t = s
        BY <2>1, <2>2, <2>3, <4>1 DEF LoginTypeOK
      <4>2. CASE t # s
        <5>1. lockToken'[t] = lockToken[t] /\ lockToken[t] \in Tokens
          BY <2>3, <3>2, <4>2 DEF LoginTypeOK
        <5>2. lockToken[t].server = t /\ lockToken[t].n <= launches
          BY <3>2, <5>1 DEF WindowsInv, TokensOnce
        <5>. QED BY <2>2, <5>1, <5>2 DEF Tokens
      <4>. QED BY <4>1, <4>2
    <3>. QED BY <2>2, <2>3, <3>1, <3>2 DEF WindowsInv, TokensOnce
  <2>6. FreshToken'
    <3>1. ASSUME NEW t \in Servers, step'[t] = "launch", t # s
          PROVE  step[t] = "launch" /\ lockToken'[t] = lockToken[t]
      BY <2>3, <3>1 DEF LoginTypeOK
    <3>2. /\ lockToken'[s] = k /\ k.n = launches + 1 /\ k.server = s /\ k.life = life[s]
          /\ \A b \in browsers : b.token # k
          /\ \A r \in releases : r.token # k
      <4>1. lockToken'[s] = k /\ k.n = launches + 1 /\ k.server = s /\ k.life = life[s]
        BY <2>1, <2>3 DEF LoginTypeOK
      <4>. QED BY <2>2, <2>4, <4>1 DEF Tokens
    <3>. QED BY <2>2, <2>3, <3>1, <3>2 DEF WindowsInv, FreshToken
  <2>7. OpenWindowIsKnown'
    BY <2>3 DEF WindowsInv, OpenWindowIsKnown, Stale
  <2>. QED BY <2>5, <2>6, <2>7 DEF WindowsInv
<1>2. CASE Killed(s)
  <2>1. /\ life' = [life EXCEPT ![s] = life[s] + 1] /\ life[s] \in Nat
        /\ context' = [context EXCEPT ![s] = None]
        /\ lockToken' = [lockToken EXCEPT ![s] = None]
        /\ releases' \subseteq releases /\ UNCHANGED <<browsers, launches>>
        /\ step' = [step EXCEPT ![s] = "idle"]
    BY <1>2 DEF Killed, EndsOperation, Goes, LoginTypeOK
  <2>2. \A b \in browsers : b.token.server \in Servers /\ b.token.life \in Nat
    BY DEF LoginTypeOK, Chromes, Tokens
  <2>3. \A t \in Servers : life[t] \in Nat /\ life'[t] = IF t = s THEN life[s] + 1 ELSE life[t]
    BY <2>1 DEF LoginTypeOK
  <2>4. TokensOnce'
    <3>1. \A b \in browsers : b.token.life <= life'[b.token.server]
      BY <2>2, <2>3 DEF WindowsInv, TokensOnce
    <3>2. \A t \in Servers : lockToken'[t] # None =>
            lockToken'[t].server = t /\ lockToken'[t].n <= launches
      BY <2>1 DEF LoginTypeOK, WindowsInv, TokensOnce
    <3>. QED BY <2>1, <3>1, <3>2 DEF WindowsInv, TokensOnce
  <2>5. FreshToken'
    <3>1. \A t \in Servers : step'[t] = "launch" =>
            /\ step[t] = "launch" /\ lockToken'[t] = lockToken[t] /\ life'[t] = life[t]
      BY <2>1, <2>3 DEF LoginTypeOK
    <3>. QED BY <2>1, <3>1 DEF WindowsInv, FreshToken
  <2>6. OpenWindowIsKnown'
    <3>1. ASSUME NEW b \in browsers, b.up, ~b.closing, ~Stale(b.token)'
          PROVE  context'[b.token.server] = b.token
      <4>1. b.token # None /\ b.token.life = life'[b.token.server]
        <5>1. b.token # None
          BY DEF LoginTypeOK, Chromes, Tokens, None
        <5>. QED BY <3>1, <5>1 DEF Stale
      <4>2. b.token.life <= life[b.token.server]
        BY DEF WindowsInv, TokensOnce
      <4>3. b.token.server # s
        BY <2>2, <2>3, <4>1, <4>2
      <4>4. ~Stale(b.token)
        BY <2>2, <2>3, <4>1, <4>3 DEF Stale
      <4>. QED BY <2>1, <2>2, <3>1, <4>3, <4>4 DEF WindowsInv, OpenWindowIsKnown, LoginTypeOK
    <3>. QED BY <2>1, <3>1 DEF OpenWindowIsKnown
  <2>. QED BY <2>4, <2>5, <2>6 DEF WindowsInv
<1>3. CASE reapDeadContext(s)
  <2>1. /\ step[s] \in Operations /\ context[s] # None /\ ~Up(context[s])
        /\ context' = [context EXCEPT ![s] = None]
        /\ \A t \in Servers : step'[t] = "launch" => step[t] = "launch"
        /\ UNCHANGED <<life, lockToken, browsers, launches>>
    BY <1>3 DEF reapDeadContext, Dead, Goes, Operations, LoginTypeOK
  <2>2. \A r \in releases' : r \in releases \/ (lockToken[s] # None /\ r.token = lockToken[s])
    BY <1>3 DEF reapDeadContext, StartRelease
  <2>3. lockToken[s] # None => lockToken[s].server = s /\ lockToken[s].n <= launches
    BY DEF WindowsInv, TokensOnce
  <2>4. TokensOnce'
    BY <2>1, <2>2, <2>3 DEF WindowsInv, TokensOnce
  <2>5. FreshToken'
    <3>1. step[s] # "launch"
      BY <2>1 DEF Operations
    <3>. QED BY <2>1, <2>2, <2>3, <3>1 DEF WindowsInv, FreshToken
  <2>6. OpenWindowIsKnown'
    <3>1. ASSUME NEW b \in browsers, b.up, ~b.closing, ~Stale(b.token)
          PROVE  context'[b.token.server] = b.token
      <4>1. context[b.token.server] = b.token /\ b.token.server \in Servers
        BY <3>1 DEF WindowsInv, OpenWindowIsKnown, LoginTypeOK, Chromes, Tokens
      <4>2. b.token.server # s
        BY <2>1, <3>1, <4>1 DEF Up
      <4>. QED BY <2>1, <4>1, <4>2 DEF LoginTypeOK
    <3>. QED BY <2>1, <3>1 DEF OpenWindowIsKnown, Stale
  <2>. QED BY <2>4, <2>5, <2>6 DEF WindowsInv
<1>. QED BY <1>1, <1>2, <1>3

LEMMA WindowsAtALaunch ==
  ASSUME LoginTypeOK, LoginTypeOK', WindowsInv, NEW s \in Servers,
         launchPersistentContext(s) \/ closeLocked(s)
  PROVE  WindowsInv'
<1>1. CASE launchPersistentContext(s)
  <2>1. PICK b : b = [token |-> lockToken[s], up |-> TRUE, closing |-> FALSE,
                      version |-> disk[saw[s].path].version]
    OBVIOUS
  <2>2. /\ step[s] = "launch" /\ ~\E c \in browsers : c.up
        /\ browsers' = browsers \cup {b} /\ context' = [context EXCEPT ![s] = b.token]
        /\ step' = [step EXCEPT ![s] = "record"]
        /\ UNCHANGED <<life, lockToken, releases, launches>>
    BY <1>1, <2>1 DEF launchPersistentContext, Goes
  <2>3. /\ b.token = lockToken[s] /\ b.token \in Tokens /\ b.token.server = s
        /\ b.token.life = life[s] /\ b.token.n <= launches
        /\ \A c \in browsers : c.token # b.token
    <3>1. b.token = lockToken[s]
      BY <2>1
    <3>2. lockToken[s] # None
      BY <2>2 DEF WindowsInv, FreshToken, Tokens, None
    <3>. QED BY <2>2, <3>1, <3>2 DEF WindowsInv, FreshToken, TokensOnce
  <2>4. TokensOnce'
    <3>1. b.token.life <= life[b.token.server]
      BY <2>3 DEF LoginTypeOK
    <3>. QED BY <2>2, <2>3, <3>1 DEF WindowsInv, TokensOnce
  <2>5. FreshToken'
    <3>1. \A t \in Servers : step'[t] = "launch" => t # s /\ step[t] = "launch"
      BY <2>2 DEF LoginTypeOK
    <3>. QED BY <2>2, <2>3, <3>1 DEF WindowsInv, FreshToken
  <2>6. OpenWindowIsKnown'
    BY <2>2, <2>3 DEF OpenWindowIsKnown, LoginTypeOK
  <2>. QED BY <2>4, <2>5, <2>6 DEF WindowsInv
<1>2. CASE closeLocked(s)
  <2>1. /\ step[s] = "close" /\ context' = [context EXCEPT ![s] = None]
        /\ step' = [step EXCEPT ![s] = "closing"]
        /\ UNCHANGED <<life, lockToken, releases, launches>>
    BY <1>2 DEF closeLocked, Goes
  <2>2. \A b \in browsers' : \E c \in browsers :
          /\ b.token = c.token /\ b.up = c.up
          /\ b = (IF c.token = context[s] THEN [c EXCEPT !.closing = TRUE] ELSE c)
          /\ c.token = context[s] => b.closing
    BY <1>2 DEF closeLocked, LoginTypeOK, Chromes
  <2>3. TokensOnce'
    <3>1. ASSUME NEW a \in browsers', NEW b \in browsers', a.token = b.token PROVE a = b
      <4>1. PICK c \in browsers :
              /\ a.token = c.token
              /\ a = (IF c.token = context[s] THEN [c EXCEPT !.closing = TRUE] ELSE c)
        BY <2>2
      <4>2. PICK d \in browsers :
              /\ b.token = d.token
              /\ b = (IF d.token = context[s] THEN [d EXCEPT !.closing = TRUE] ELSE d)
        BY <2>2
      <4>3. c = d
        BY <3>1, <4>1, <4>2 DEF WindowsInv, TokensOnce
      <4>. QED BY <4>1, <4>2, <4>3
    <3>2. \A b \in browsers' : b.token.n <= launches /\ b.token.life <= life[b.token.server]
      BY <2>2 DEF WindowsInv, TokensOnce
    <3>. QED BY <2>1, <3>1, <3>2 DEF WindowsInv, TokensOnce
  <2>4. FreshToken'
    <3>1. \A t \in Servers : step'[t] = "launch" => step[t] = "launch"
      BY <2>1 DEF LoginTypeOK
    <3>. QED BY <2>1, <2>2, <3>1 DEF WindowsInv, FreshToken
  <2>5. OpenWindowIsKnown'
    <3>1. ASSUME NEW b \in browsers', b.up, ~b.closing, ~Stale(b.token)
          PROVE  context'[b.token.server] = b.token
      <4>1. PICK c \in browsers : b.token = c.token /\ b = c /\ c.token # context[s]
        BY <2>2, <3>1
      <4>2. context[c.token.server] = c.token /\ c.token.server \in Servers
        BY <3>1, <4>1 DEF WindowsInv, OpenWindowIsKnown, LoginTypeOK, Chromes, Tokens
      <4>. QED BY <2>1, <4>1, <4>2 DEF LoginTypeOK
    <3>. QED BY <2>1, <3>1 DEF OpenWindowIsKnown, Stale
  <2>. QED BY <2>3, <2>4, <2>5 DEF WindowsInv
<1>. QED BY <1>1, <1>2

LEMMA WindowsAtAClose ==
  ASSUME LoginTypeOK, LoginTypeOK', WindowsInv,
         \/ \E b \in browsers : Exits(b) \/ CloseEvent(b)
         \/ \E r \in releases : ReadsHolder(r) \/ Removes(r)
  PROVE  WindowsInv'
<1>1. ASSUME NEW b \in browsers, Exits(b) PROVE WindowsInv'
  <2>1. PICK k : k = [b EXCEPT !.up = FALSE]
    OBVIOUS
  <2>2. k.token = b.token /\ ~k.up
    BY <2>1 DEF LoginTypeOK, Chromes
  <2>3. /\ browsers' = (browsers \ {b}) \cup {k}
        /\ UNCHANGED <<life, step, lockToken, context, releases, launches>>
    BY <1>1, <2>1 DEF Exits
  <2>4. TokensOnce'
    BY <2>2, <2>3 DEF WindowsInv, TokensOnce
  <2>5. FreshToken'
    BY <2>2, <2>3 DEF WindowsInv, FreshToken
  <2>6. OpenWindowIsKnown'
    BY <2>2, <2>3 DEF WindowsInv, OpenWindowIsKnown, Stale
  <2>. QED BY <2>4, <2>5, <2>6 DEF WindowsInv
<1>2. ASSUME NEW b \in browsers, CloseEvent(b) PROVE WindowsInv'
  <2>1. /\ browsers' = browsers \ {b}
        /\ UNCHANGED <<life, step, lockToken, launches>>
        /\ context' = context
             \/ context' = [context EXCEPT ![b.token.server] =
                              IF context[b.token.server] = b.token THEN None ELSE @]
    BY <1>2 DEF CloseEvent, Forgets
  <2>2. \A r \in releases' : r \in releases \/ r.token = b.token
    BY <1>2 DEF CloseEvent, StartRelease
  <2>3. b.token.n <= launches
    BY DEF WindowsInv, TokensOnce
  <2>4. TokensOnce'
    BY <2>1, <2>2, <2>3 DEF WindowsInv, TokensOnce
  <2>5. FreshToken'
    BY <2>1, <2>2 DEF WindowsInv, FreshToken
  <2>6. OpenWindowIsKnown'
    <3>1. ASSUME NEW c \in browsers', c.up, ~c.closing, ~Stale(c.token)
          PROVE  context'[c.token.server] = c.token
      <4>1. c \in browsers /\ c # b /\ c.token # b.token /\ c.token.server \in Servers
        BY <2>1 DEF WindowsInv, TokensOnce, LoginTypeOK, Chromes, Tokens
      <4>2. context[c.token.server] = c.token
        BY <3>1, <4>1 DEF WindowsInv, OpenWindowIsKnown
      <4>. QED BY <2>1, <4>1, <4>2 DEF LoginTypeOK
    <3>. QED BY <2>1, <3>1 DEF OpenWindowIsKnown, Stale
  <2>. QED BY <2>4, <2>5, <2>6 DEF WindowsInv
<1>3. ASSUME NEW r \in releases, ReadsHolder(r) PROVE WindowsInv'
  <2>1. /\ r.server \in Servers
        /\ UNCHANGED <<life, step, context, browsers, launches>>
        /\ lockToken' = lockToken
             \/ lockToken' = [lockToken EXCEPT ![r.server] = IF @ = r.token THEN None ELSE @]
    BY <1>3 DEF ReadsHolder, LoginTypeOK, LockReleases
  <2>2. \A q \in releases' : \E x \in releases : q.token = x.token
    BY <1>3 DEF ReadsHolder, LoginTypeOK, LockReleases
  <2>3. \A s \in Servers : lockToken'[s] = lockToken[s]
                         \/ (lockToken'[s] = None /\ lockToken[s] = r.token)
    BY <2>1 DEF LoginTypeOK
  <2>4. TokensOnce'
    BY <2>1, <2>2, <2>3 DEF WindowsInv, TokensOnce
  <2>5. FreshToken'
    BY <2>1, <2>2, <2>3 DEF WindowsInv, FreshToken
  <2>6. OpenWindowIsKnown'
    BY <2>1 DEF WindowsInv, OpenWindowIsKnown, Stale
  <2>. QED BY <2>4, <2>5, <2>6 DEF WindowsInv
<1>4. ASSUME NEW r \in releases, Removes(r) PROVE WindowsInv'
  <2>1. /\ releases' \subseteq releases
        /\ UNCHANGED <<life, step, lockToken, context, browsers, launches>>
    BY <1>4 DEF Removes
  <2>2. TokensOnce'
    BY <2>1 DEF WindowsInv, TokensOnce
  <2>3. FreshToken'
    BY <2>1 DEF WindowsInv, FreshToken
  <2>4. OpenWindowIsKnown'
    BY <2>1 DEF WindowsInv, OpenWindowIsKnown, Stale
  <2>. QED BY <2>2, <2>3, <2>4 DEF WindowsInv
<1>. QED BY <1>1, <1>2, <1>3, <1>4

-----------------------------------------------------------------------------
(* One server alone on the profile.                                        *)

\* An operation that is not an open, or no more one, and which leaves the pin as it was or
\* takes it away.
LEMMA OpensEnd ==
  ASSUME LoginTypeOK, NEW s \in Servers, PinInv,
         step'[s] \notin Opening, UNCHANGED disk, pin' = pin \/ pin' = NoPin
  PROVE  PinInv' /\ OpenInv(s)'
<1>1. PinInv'
  BY DEF PinInv, NoPin, LoginTypeOK
<1>. QED BY <1>1 DEF OpenInv

LEMMA OpensEndBy ==
  ASSUME LoginTypeOK, NEW s \in Servers, PinInv,
         \/ \E what \in Operations : Ask(s, what)
         \/ reapDeadContext(s) \/ Returns(s) \/ reset(s) \/ ChangedOutright(s)
         \/ Refused(s) \/ InUse(s) \/ LaunchFails(s) \/ closeLocked(s)
         \/ Closed(s) \/ CloseFails(s) \/ Killed(s)
  PROVE  PinInv' /\ OpenInv(s)'
<1>1. UNCHANGED disk /\ (pin' = pin \/ pin' = NoPin)
  BY DEF Ask, reapDeadContext, Returns, reset, ChangedOutright, Refused, InUse, LaunchFails,
         closeLocked, Closed, CloseFails, Killed, files
<1>2. \E to \in Operations \cup {"idle", "changed", "closing"} :
        step' = [step EXCEPT ![s] = to]
  BY DEF Ask, reapDeadContext, Returns, reset, ChangedOutright, Refused, InUse, LaunchFails,
         closeLocked, Closed, CloseFails, Killed, Goes, EndsOperation, Operations
<1>3. step'[s] \notin Opening
  BY <1>2 DEF LoginTypeOK, Operations, Opening
<1>. QED BY <1>1, <1>3, OpensEnd

LEMMA OpensDecide ==
  ASSUME LoginTypeOK, NEW s \in Servers, PinInv, OpenInv(s),
         resolvePinnedExecutable(s) \/ PassesJudgement(s) \/ probeChromeVersion(s)
  PROVE  PinInv' /\ OpenInv(s)'
<1>1. UNCHANGED <<disk, pin, browsers, context>> /\ PinInv'
  BY DEF resolvePinnedExecutable, PassesJudgement, probeChromeVersion, files, PinInv
<1>2. CASE resolvePinnedExecutable(s) /\ \E b \in browsers : b.up
  <2>1. step'[s] = "idle"
    BY <1>2 DEF resolvePinnedExecutable, EndsOperation, Goes, LoginTypeOK
  <2>. QED BY <1>1, <2>1 DEF OpenInv, Opening
<1>3. CASE resolvePinnedExecutable(s) /\ ~\E b \in browsers : b.up
  <2>1. PICK k : k = [pin |-> pin, path |-> chosen, build |-> disk[chosen].build, probed |-> 0]
    OBVIOUS
  <2>2. step'[s] = "judge" /\ saw'[s] = k
    BY <1>3, <2>1 DEF resolvePinnedExecutable, Goes, LoginTypeOK
  <2>3. /\ k.pin = pin /\ k.path = chosen /\ k.build = disk[chosen].build /\ k.probed = 0
        /\ chosen \in Paths /\ disk[chosen].build \in Nat /\ disk[chosen].version \in Nat
    BY <2>1 DEF LoginTypeOK
  <2>4. Matches(s)' => disk[chosen].version >= pin.version
    BY <2>2, <2>3 DEF Matches, NewPath, PinInv, NoPin
  <2>5. \E p \in Paths : k.build <= disk[p].build
    BY <2>3
  <2>. QED BY <1>1, <2>2, <2>3, <2>4, <2>5 DEF OpenInv, PastJudgement
<1>4. CASE PassesJudgement(s)
  <2>1. /\ step[s] = "judge" /\ step'[s] = "lock" /\ UNCHANGED saw
        /\ Matches(s) \/ saw[s].pin.version = 0
    BY <1>4 DEF PassesJudgement, Unrecorded, Goes, LoginTypeOK
  <2>2. saw[s].path \in Paths /\ disk[saw[s].path].version \in Nat
    BY <2>1 DEF OpenInv, Opening, LoginTypeOK
  <2>. QED BY <1>1, <2>1, <2>2 DEF OpenInv, Opening, PastJudgement
<1>5. CASE probeChromeVersion(s)
  <2>1. step[s] = "judge" /\ saw[s].path \in Paths /\ disk[saw[s].path].version \in Nat
    BY <1>5 DEF probeChromeVersion, OpenInv, Opening, LoginTypeOK
  <2>2. PICK v \in {0, disk[saw[s].path].version} :
          /\ saw' = [saw EXCEPT ![s].probed = v]
          /\ Goes(s, IF v = 0 THEN "unread"
                     ELSE IF assertNotADowngrade(s, v) THEN "lock" ELSE "changed")
    BY <1>5 DEF probeChromeVersion
  <2>3. /\ saw'[s].pin = saw[s].pin /\ saw'[s].path = saw[s].path
        /\ saw'[s].build = saw[s].build /\ saw'[s].probed = v
    BY <2>2 DEF LoginTypeOK, Saws
  <2>4. step'[s] \in {"unread", "changed"}
          \/ (step'[s] = "lock" /\ v >= saw[s].pin.version)
    BY <2>2 DEF Goes, LoginTypeOK, assertNotADowngrade
  <2>5. v <= disk[saw[s].path].version
    BY <2>1, <2>2
  <2>6. CASE step'[s] \in {"unread", "changed"}
    BY <1>1, <2>6 DEF OpenInv, Opening
  <2>7. CASE step'[s] = "lock" /\ v >= saw[s].pin.version
    <3>1. v \in Nat /\ saw[s].pin.version \in Nat
      BY <2>1, <2>2 DEF LoginTypeOK, Saws, Pins
    <3>2. disk[saw[s].path].version >= saw[s].pin.version
      BY <2>1, <2>5, <2>7, <3>1
    <3>. QED BY <1>1, <2>1, <2>3, <2>5, <2>7, <3>2 DEF OpenInv, Opening, PastJudgement
  <2>. QED BY <2>4, <2>6, <2>7
<1>. QED BY <1>2, <1>3, <1>4, <1>5

LEMMA OpensLaunch ==
  ASSUME LoginTypeOK, WindowsInv, NEW s \in Servers, PinInv, OpenInv(s),
         \/ acquireProfileLock(s) \/ SeesStale(s) \/ Adopts(s)
         \/ launchPersistentContext(s) \/ writePin(s)
  PROVE  PinInv' /\ OpenInv(s)'
<1>1. UNCHANGED disk
  BY DEF acquireProfileLock, SeesStale, Adopts, launchPersistentContext, writePin, files
<1>2. step[s] \in PastJudgement
  BY DEF acquireProfileLock, SeesStale, Adopts, launchPersistentContext, writePin, PastJudgement
<1>3. /\ saw[s].path \in Paths /\ saw[s].pin = pin
      /\ saw[s].probed <= disk[saw[s].path].version
      /\ disk[saw[s].path].version >= pin.version
      /\ \E p \in Paths : saw[s].build <= disk[p].build
  BY <1>2 DEF OpenInv, PastJudgement, Opening
<1>4. CASE acquireProfileLock(s) \/ SeesStale(s) \/ Adopts(s)
  <2>1. step'[s] \in {"launch", "adopt", "lock"} /\ UNCHANGED <<pin, saw>>
    BY <1>4 DEF acquireProfileLock, SeesStale, Adopts, Goes, LoginTypeOK
  <2>2. PinInv'
    BY <1>1, <2>1 DEF PinInv
  <2>. QED BY <1>1, <1>3, <2>1, <2>2 DEF OpenInv
<1>5. CASE launchPersistentContext(s)
  <2>1. PICK b : b = [token |-> lockToken[s], up |-> TRUE, closing |-> FALSE,
                      version |-> disk[saw[s].path].version]
    OBVIOUS
  <2>2. /\ step[s] = "launch" /\ browsers' = browsers \cup {b}
        /\ context'[s] = lockToken[s] /\ step'[s] = "record" /\ UNCHANGED <<pin, saw>>
    BY <1>5, <2>1 DEF launchPersistentContext, Goes, LoginTypeOK
  <2>3. \A c \in browsers : c.token # lockToken[s]
    BY <2>2 DEF WindowsInv, FreshToken
  <2>4. b.version = disk[saw[s].path].version /\ disk[saw[s].path].version \in Nat
    BY <1>3, <2>1 DEF LoginTypeOK
  <2>5. \A c \in browsers' : c.token = context'[s] => c.version <= disk[saw[s].path].version
    BY <2>2, <2>3, <2>4
  <2>6. PinInv'
    BY <1>1, <2>2 DEF PinInv
  <2>. QED BY <1>1, <1>3, <2>2, <2>5, <2>6 DEF OpenInv
<1>6. CASE writePin(s)
  <2>1. step[s] = "record" /\ step'[s] = "idle"
    BY <1>6 DEF writePin, EndsOperation, Goes, LoginTypeOK
  <2>2. PICK v \in Reported(s) :
          pin' = [path |-> saw[s].path, build |-> saw[s].build, version |-> Version(s, v)]
    BY <1>6 DEF writePin
  <2>3. disk[saw[s].path].version \in Nat
    BY <1>3 DEF LoginTypeOK
  <2>4. v <= disk[saw[s].path].version
    BY <2>1, <2>3 DEF Reported, OpenInv, Opening
  <2>5. Version(s, v) <= disk[saw[s].path].version
    BY <1>3, <2>3, <2>4 DEF Version, LoginTypeOK, Pins
  <2>6. Version(s, v) \in Nat
    BY DEF Version, Reported, LoginTypeOK, Saws, Pins, Chromes
  <2>7. PinInv'
    BY <1>1, <1>3, <2>2, <2>3, <2>5, <2>6 DEF PinInv
  <2>. QED BY <2>1, <2>7 DEF OpenInv, Opening
<1>. QED BY <1>4, <1>5, <1>6

LEMMA OpensOutlastCloses ==
  ASSUME LoginTypeOK, NEW s \in Servers, PinInv, OpenInv(s),
         \/ \E b \in browsers : Exits(b) \/ CloseEvent(b)
         \/ \E r \in releases : ReadsHolder(r) \/ Removes(r)
  PROVE  PinInv' /\ OpenInv(s)'
<1>1. UNCHANGED <<disk, pin, saw, step>>
  BY DEF Exits, CloseEvent, ReadsHolder, Removes, files
<1>2. \A b \in browsers' : \E c \in browsers : b.token = c.token /\ b.version = c.version
  BY ZenonT(60) DEF Exits, CloseEvent, ReadsHolder, Removes, LoginTypeOK, Chromes
<1>3. context'[s] = context[s] \/ context'[s] = None
  BY DEF Exits, CloseEvent, Forgets, ReadsHolder, Removes, LoginTypeOK
<1>4. \A b \in browsers : b.token # None
  BY DEF LoginTypeOK, Chromes, Tokens, None
<1>5. PinInv'
  BY <1>1 DEF PinInv
<1>6. step[s] = "record" =>
        \A b \in browsers' : b.token = context'[s] => b.version <= disk[saw[s].path].version
  BY <1>2, <1>3, <1>4 DEF OpenInv, Opening
<1>. QED BY <1>1, <1>5, <1>6 DEF OpenInv, Matches, NewPath, Opening

LEMMA OpensOutlastUpdates ==
  ASSUME LoginTypeOK, LoginTypeOK', NEW s \in Servers, NEW p \in Paths, PinInv, OpenInv(s),
         Puts(p), UNCHANGED untouched
  PROVE  PinInv' /\ OpenInv(s)'
<1>1. PICK build \in 1..MaxBuilds, version \in Nat :
        /\ New(build)
        /\ disk' = [disk EXCEPT ![p] = [build |-> build, version |-> version]]
        /\ version >= disk[p].version \/ \A t \in Servers : step[t] \notin Opening
  BY DEF Puts
<1>2. build \in Nat
  BY LoginAssumption
<1>3. \A q \in Paths :
        /\ disk[q].build \in Nat /\ disk[q].version \in Nat /\ disk[q].build < build
        /\ disk'[q].build = (IF q = p THEN build ELSE disk[q].build)
        /\ disk'[q].version = (IF q = p THEN version ELSE disk[q].version)
  BY <1>1 DEF New, LoginTypeOK
<1>4. \A n \in Nat : (\E q \in Paths : n <= disk[q].build) =>
        n < build /\ \E q \in Paths : n <= disk'[q].build
  BY <1>2, <1>3
<1>5. UNCHANGED <<pin, saw, step, context, browsers>>
  BY DEF untouched
<1>6. PinInv'
  <2>1. pin.build \in Nat /\ pin.version \in Nat
    BY DEF LoginTypeOK, Pins
  <2>2. pin.build < build /\ \E q \in Paths : pin.build <= disk'[q].build
    BY <1>4, <2>1 DEF PinInv
  <2>3. pin.path \in Paths /\ disk'[pin.path].build = pin.build
          => disk'[pin.path].version >= pin.version
    BY <1>2, <1>3, <2>1, <2>2 DEF PinInv
  <2>. QED BY <1>5, <2>2, <2>3 DEF PinInv
<1>7. CASE step[s] \in Opening
  <2>1. /\ saw[s].path \in Paths /\ saw[s].pin = pin /\ saw[s].build \in Nat
        /\ saw[s].probed \in Nat /\ pin.version \in Nat
        /\ saw[s].probed <= disk[saw[s].path].version
        /\ \E q \in Paths : saw[s].build <= disk[q].build
    BY <1>7 DEF OpenInv, LoginTypeOK, Saws, Pins
  <2>2. disk'[saw[s].path].version >= disk[saw[s].path].version
    BY <1>1, <1>3, <1>7, <2>1
  <2>3. /\ disk'[saw[s].path].version \in Nat /\ disk[saw[s].path].version \in Nat
        /\ \A b \in browsers : b.version \in Nat
    BY <2>1 DEF LoginTypeOK, Chromes
  <2>4. \E q \in Paths : saw[s].build <= disk'[q].build
    BY <1>4, <2>1
  <2>5. \A n \in Nat : n <= disk[saw[s].path].version => n <= disk'[saw[s].path].version
    BY <2>2, <2>3
  <2>6. Matches(s)' = Matches(s)
    BY <1>5 DEF Matches, NewPath
  <2>7. step[s] = "judge" /\ Matches(s) => disk'[saw[s].path].version >= pin.version
    BY <1>7, <2>1, <2>2, <2>3 DEF OpenInv
  <2>8. step[s] \in PastJudgement => disk'[saw[s].path].version >= pin.version
    BY <1>7, <2>1, <2>2, <2>3 DEF OpenInv
  <2>9. step[s] = "record" =>
          \A b \in browsers : b.token = context[s] => b.version <= disk'[saw[s].path].version
    BY <1>7, <2>3, <2>5 DEF OpenInv
  <2>. QED BY <1>5, <1>6, <2>1, <2>4, <2>5, <2>6, <2>7, <2>8, <2>9 DEF OpenInv
<1>8. CASE step[s] \notin Opening
  BY <1>5, <1>6, <1>8 DEF OpenInv
<1>. QED BY <1>7, <1>8

-----------------------------------------------------------------------------
(* Every step.                                                             *)

\* An operation that opens no window and ends none.
LEMMA WindowsStay ==
  ASSUME LoginTypeOK, WindowsInv, NEW s \in Servers,
         \/ \E what \in Operations : Ask(s, what)
         \/ Returns(s) \/ reset(s) \/ resolvePinnedExecutable(s) \/ PassesJudgement(s)
         \/ ChangedOutright(s) \/ probeChromeVersion(s) \/ Refused(s) \/ SeesStale(s)
         \/ Adopts(s) \/ InUse(s) \/ LaunchFails(s) \/ writePin(s) \/ Closed(s) \/ CloseFails(s)
  PROVE  WindowsInv' /\ UNCHANGED browsers
<1>1. UNCHANGED <<life, lockToken, context, browsers, releases, launches>>
  BY DEF Ask, Returns, reset, resolvePinnedExecutable, PassesJudgement, ChangedOutright,
         probeChromeVersion, Refused, SeesStale, Adopts, InUse, LaunchFails, writePin, Closed, CloseFails
<1>2. \E to \in LoginSteps \ {"launch"} : step' = [step EXCEPT ![s] = to]
  BY DEF Ask, Returns, reset, resolvePinnedExecutable, PassesJudgement, ChangedOutright,
         probeChromeVersion, Refused, SeesStale, Adopts, InUse, LaunchFails, writePin, Closed, CloseFails,
         Goes, EndsOperation, LoginSteps, Operations, Opening
<1>3. \A t \in Servers : step'[t] = "launch" => step[t] = "launch"
  BY <1>2 DEF LoginTypeOK
<1>. QED BY <1>1, <1>3, WindowsUntouched

LEMMA PathStays ==
  ASSUME LoginTypeOK, PathInv, LoginNext
  PROVE  PathInv'
<1>1. ASSUME NEW s \in Servers,
             \/ \E what \in Operations : Ask(s, what)
             \/ reapDeadContext(s) \/ Returns(s) \/ reset(s) \/ ChangedOutright(s)
             \/ Refused(s) \/ InUse(s) \/ LaunchFails(s) \/ closeLocked(s)
             \/ Closed(s) \/ CloseFails(s) \/ Killed(s) \/ writePin(s)
      PROVE  PathInv'
  <2>1. \E to \in Operations \cup {"idle", "changed", "closing"} :
          step' = [step EXCEPT ![s] = to]
    BY <1>1 DEF Ask, reapDeadContext, Returns, reset, ChangedOutright, Refused, InUse,
       LaunchFails, closeLocked, Closed, CloseFails, Killed, writePin, Goes, EndsOperation, Operations
  <2>2. UNCHANGED saw \/ saw' = [saw EXCEPT ![s] = Nothing]
    BY <1>1 DEF Ask, reapDeadContext, Returns, reset, ChangedOutright, Refused, InUse,
       LaunchFails, closeLocked, Closed, CloseFails, Killed, writePin, EndsOperation
  <2>. QED BY <2>1, <2>2 DEF LoginTypeOK, PathInv, Operations, Opening
<1>2. ASSUME NEW s \in Servers,
             \/ PassesJudgement(s) \/ acquireProfileLock(s) \/ SeesStale(s) \/ Adopts(s)
             \/ launchPersistentContext(s)
      PROVE  PathInv'
  <2>1. /\ step[s] \in Opening /\ UNCHANGED saw
        /\ \E to \in Opening : step' = [step EXCEPT ![s] = to]
    BY <1>2 DEF PassesJudgement, acquireProfileLock, SeesStale, Adopts,
       launchPersistentContext, Goes, Opening
  <2>. QED BY <2>1 DEF LoginTypeOK, PathInv
<1>3. ASSUME NEW s \in Servers, probeChromeVersion(s) PROVE PathInv'
  <2>1. /\ step[s] \in Opening /\ \E v : saw' = [saw EXCEPT ![s].probed = v]
        /\ \E to : step' = [step EXCEPT ![s] = to]
    BY <1>3 DEF probeChromeVersion, Goes, Opening
  <2>2. \A t \in Servers : saw'[t].path = saw[t].path
    BY <2>1 DEF LoginTypeOK, Saws
  <2>. QED BY <2>1, <2>2 DEF LoginTypeOK, PathInv
<1>4. ASSUME NEW s \in Servers, resolvePinnedExecutable(s) PROVE PathInv'
  <2>1. CASE \E b \in browsers : b.up
    <3>1. step' = [step EXCEPT ![s] = "idle"] /\ saw' = [saw EXCEPT ![s] = Nothing]
      BY <1>4, <2>1 DEF resolvePinnedExecutable, EndsOperation, Goes
    <3>. QED BY <3>1 DEF LoginTypeOK, PathInv, Opening
  <2>2. CASE ~\E b \in browsers : b.up
    <3>1. PICK k : k = [pin |-> pin, path |-> chosen, build |-> disk[chosen].build,
                        probed |-> 0]
      OBVIOUS
    <3>2. /\ step' = [step EXCEPT ![s] = "judge"] /\ saw' = [saw EXCEPT ![s] = k]
          /\ k.path \in Paths
      BY <1>4, <2>2, <3>1 DEF resolvePinnedExecutable, Goes, LoginTypeOK
    <3>. QED BY <3>2 DEF LoginTypeOK, PathInv
  <2>. QED BY <2>1, <2>2
<1>5. CASE UNCHANGED <<step, saw>>
  BY <1>5 DEF PathInv
<1>6. CASE \/ \E b \in browsers : Exits(b) \/ CloseEvent(b)
           \/ \E r \in releases : ReadsHolder(r) \/ Removes(r)
  BY <1>5, <1>6 DEF Exits, CloseEvent, ReadsHolder, Removes
<1>7. CASE \E p \in Paths : SelfUpdates(p) \/ Replaced(p) \/ Prefers(p)
  BY <1>5, <1>7, FilesMove DEF untouched
<1>. QED BY <1>1, <1>2, <1>3, <1>4, <1>6, <1>7 DEF LoginNext

\* A Chrome comes only of a launch.
LEMMA OnlyLaunchesAdd ==
  ASSUME LoginTypeOK, LoginNext, NEW b \in browsers', \A c \in browsers : c.token # b.token
  PROVE  \E s \in Servers : launchPersistentContext(s) /\ b.version = disk[saw[s].path].version
<1>1. ASSUME NEW s \in Servers, launchPersistentContext(s)
      PROVE  b.version = disk[saw[s].path].version
  <2>1. PICK k : k = [token |-> lockToken[s], up |-> TRUE, closing |-> FALSE,
                      version |-> disk[saw[s].path].version]
    OBVIOUS
  <2>2. browsers' = browsers \cup {k}
    BY <1>1, <2>1 DEF launchPersistentContext
  <2>3. b = k
    BY <2>2
  <2>. QED BY <2>1, <2>3
<1>2. ASSUME NEW s \in Servers, closeLocked(s) PROVE FALSE
  BY <1>2 DEF closeLocked, LoginTypeOK, Chromes
<1>3. ASSUME NEW c \in browsers, Exits(c) \/ CloseEvent(c) PROVE FALSE
  BY <1>3 DEF Exits, CloseEvent, LoginTypeOK, Chromes
<1>4. ASSUME UNCHANGED browsers PROVE FALSE
  BY <1>4
<1>5. CASE \E s \in Servers : launchPersistentContext(s)
  BY <1>1, <1>5
<1>6. CASE \E s \in Servers : closeLocked(s)
  BY <1>2, <1>6
<1>7. CASE \E c \in browsers : Exits(c) \/ CloseEvent(c)
  BY <1>3, <1>7
<1>8. CASE UNCHANGED browsers
  BY <1>4, <1>8
<1>9. CASE \E s \in Servers :
             \/ \E what \in Operations : Ask(s, what)
             \/ reapDeadContext(s) \/ Returns(s) \/ reset(s)
             \/ resolvePinnedExecutable(s) \/ PassesJudgement(s) \/ ChangedOutright(s)
             \/ probeChromeVersion(s) \/ Refused(s)
             \/ acquireProfileLock(s) \/ SeesStale(s) \/ Adopts(s) \/ InUse(s)
             \/ LaunchFails(s) \/ writePin(s) \/ Closed(s) \/ CloseFails(s) \/ Killed(s)
  BY <1>8, <1>9 DEF Ask, reapDeadContext, Returns, reset, resolvePinnedExecutable,
     PassesJudgement, ChangedOutright, probeChromeVersion, Refused, acquireProfileLock,
     SeesStale, Adopts, InUse, LaunchFails, writePin, Closed, CloseFails, Killed
<1>10. CASE \E r \in releases : ReadsHolder(r) \/ Removes(r)
  BY <1>8, <1>10 DEF ReadsHolder, Removes
<1>11. CASE \E p \in Paths : SelfUpdates(p) \/ Replaced(p) \/ Prefers(p)
  BY <1>8, <1>11, FilesMove DEF untouched
<1>. QED BY <1>5, <1>6, <1>7, <1>9, <1>10, <1>11 DEF LoginNext

LEMMA LoginStepKeeps ==
  LoginInv /\ [LoginNext]_loginVars => LoginInv' /\ [NeverOlderStep]_loginVars
<1>. SUFFICES ASSUME LoginInv, [LoginNext]_loginVars
              PROVE  LoginInv' /\ [NeverOlderStep]_loginVars
  OBVIOUS
<1>0. LoginTypeOK /\ PathInv /\ WindowsInv /\ AloneInv
  BY DEF LoginInv
<1>1. CASE UNCHANGED loginVars
  <2>1. LoginTypeOK'
    BY <1>0, <1>1 DEF LoginTypeOK, loginVars
  <2>2. WindowsInv'
    BY <1>0, <1>1, WindowsUntouched DEF loginVars
  <2>3. AloneInv'
    BY <1>0, <1>1 DEF loginVars, AloneInv, PinInv, OpenInv, Matches, NewPath
  <2>4. PathInv'
    BY <1>0, <1>1 DEF loginVars, PathInv
  <2>. QED BY <1>1, <2>1, <2>2, <2>3, <2>4 DEF LoginInv
<1>2. ASSUME NEW s \in Servers,
             \/ \E what \in Operations : Ask(s, what)
             \/ reapDeadContext(s) \/ Returns(s) \/ reset(s)
             \/ resolvePinnedExecutable(s) \/ PassesJudgement(s) \/ ChangedOutright(s)
             \/ probeChromeVersion(s) \/ Refused(s)
             \/ acquireProfileLock(s) \/ SeesStale(s) \/ Adopts(s) \/ InUse(s)
             \/ launchPersistentContext(s) \/ LaunchFails(s) \/ writePin(s)
             \/ closeLocked(s) \/ Closed(s) \/ CloseFails(s) \/ Killed(s)
      PROVE  LoginTypeOK' /\ WindowsInv' /\ AloneInv'
  <2>1. LoginTypeOK'
    <3>1. CASE probeChromeVersion(s) \/ launchPersistentContext(s) \/ writePin(s)
      <4>1. lockToken[s] \in Tokens \/ step[s] # "launch"
        BY <1>0 DEF WindowsInv, FreshToken
      <4>2. saw[s].path \in Paths \/ step[s] \notin Opening
        BY <1>0 DEF PathInv
      <4>. QED BY <1>0, <3>1, <4>1, <4>2, TypesStayInAnOpen DEF launchPersistentContext
    <3>2. CASE closeLocked(s)
      <4>1. step[s] \notin Opening
        BY <3>2 DEF closeLocked, Opening
      <4>. QED BY <1>0, <3>2, <4>1, TypesStayInAnOpen
    <3>. QED BY <1>0, <1>2, <3>1, <3>2, TypesStayAtAServer, TypesStayAtTheLock
  <2>2. WindowsInv'
    BY <1>0, <1>2, <2>1, WindowsStay, WindowsAtTheLock, WindowsAtALaunch
  <2>3. ASSUME Alone PROVE PinInv' /\ OpenInv(s)'
    <3>1. PinInv /\ OpenInv(s)
      BY <1>0, <2>3 DEF AloneInv
    <3>. QED BY <1>0, <1>2, <3>1, OpensEndBy, OpensDecide, OpensLaunch
  <2>4. AloneInv'
    BY <2>3 DEF AloneInv, Alone
  <2>. QED BY <2>1, <2>2, <2>4
<1>3. ASSUME \/ \E b \in browsers : Exits(b) \/ CloseEvent(b)
             \/ \E r \in releases : ReadsHolder(r) \/ Removes(r)
      PROVE  LoginTypeOK' /\ WindowsInv' /\ AloneInv'
  <2>1. LoginTypeOK'
    BY <1>0, <1>3, TypesStayAtAClose
  <2>2. WindowsInv'
    BY <1>0, <1>3, <2>1, WindowsAtAClose
  <2>4. ASSUME Alone, NEW s \in Servers PROVE PinInv' /\ OpenInv(s)'
    BY <1>0, <1>3, <2>4, OpensOutlastCloses DEF AloneInv
  <2>6. AloneInv'
    BY <2>4 DEF AloneInv, Alone
  <2>. QED BY <2>1, <2>2, <2>6
<1>4. ASSUME NEW p \in Paths, SelfUpdates(p) \/ Replaced(p) \/ Prefers(p)
      PROVE  LoginTypeOK' /\ WindowsInv' /\ AloneInv'
  <2>1. LoginTypeOK' /\ UNCHANGED untouched /\ (Puts(p) \/ UNCHANGED disk)
    BY <1>0, <1>4, FilesMove
  <2>2. WindowsInv'
    BY <1>0, <2>1, WindowsUntouched DEF untouched
  <2>3. ASSUME Alone, NEW s \in Servers PROVE PinInv' /\ OpenInv(s)'
    <3>1. CASE Puts(p)
      BY <1>0, <2>1, <2>3, <3>1, OpensOutlastUpdates DEF AloneInv
    <3>2. CASE UNCHANGED disk
      BY <1>0, <2>1, <2>3, <3>2 DEF AloneInv, PinInv, OpenInv, Matches, NewPath, untouched
    <3>. QED BY <2>1, <3>1, <3>2
  <2>4. AloneInv'
    BY <2>3 DEF AloneInv, Alone
  <2>. QED BY <2>1, <2>2, <2>4
<1>5. ASSUME LoginNext PROVE NeverOlderStep
  <2>. SUFFICES ASSUME Alone, NEW b \in browsers', b.up, \A c \in browsers : c.token # b.token
                PROVE  b.version >= pin.version
    BY DEF NeverOlderStep
  <2>1. PICK s \in Servers :
          launchPersistentContext(s) /\ b.version = disk[saw[s].path].version
    BY <1>0, <1>5, OnlyLaunchesAdd
  <2>2. step[s] = "launch"
    BY <2>1 DEF launchPersistentContext
  <2>. QED BY <1>0, <2>1, <2>2 DEF AloneInv, OpenInv, Opening, PastJudgement
<1>6. LoginNext => LoginInv'
  BY <1>0, <1>2, <1>3, <1>4, PathStays DEF LoginNext, LoginInv
<1>. QED BY <1>1, <1>5, <1>6

\* The login browser keeps its inductive invariant, for any servers, paths and launches.
THEOREM LoginInvariant == LoginSpec => []LoginInv
<1>. QED BY LoginInitHolds, LoginStepKeeps, PTL DEF LoginSpec

\* A server knows every window it opened (login-browser.ts:289-301), and, alone on its
\* profile, never opens it with a binary older than the pin records (:680-683), however
\* servers are killed, binaries updated and close events late.
THEOREM ProfilesKept == LoginSpec => ProfilesAreSafe
<1>1. LoginInv => OpenWindowIsKnown
  BY DEF LoginInv, WindowsInv
<1>2. LoginInv /\ [LoginNext]_loginVars => [NeverOlderStep]_loginVars
  BY LoginStepKeeps
<1>. QED BY LoginInvariant, <1>1, <1>2, PTL DEF LoginSpec, ProfilesAreSafe, NeverOlder
=============================================================================
