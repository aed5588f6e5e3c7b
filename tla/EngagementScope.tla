--------------------------- MODULE EngagementScope ---------------------------
(***************************************************************************)
(* The engagement scope of a session: packages/policy scope-policy.ts      *)
(* (the request rules, the request budget, the paced admissions, the       *)
(* remembered redirect hops) with the amendments of packages/api           *)
(* service.ts, which must be in the engagement ledger                      *)
(* (engagement-ledger.ts) before they are in force.                        *)
(*                                                                         *)
(* Requests run concurrently; only the turns of pace are serialized.  A    *)
(* step that awaits nothing but settled promises is one action.            *)
(* External: the clock and the timers, the disk under the ledger, the base *)
(* policy (NetworkPolicy and the host lists, below), which may refuse.     *)
(***************************************************************************)
EXTENDS Naturals, Sequences, FiniteSets, SequencesExt

CONSTANTS
  Queries,      \* calls of checkRequest and hops of checkRedirectChain, once each
  Urls,         \* the URLs of redirect hops
  Shapes,       \* what the rules ask of a request: [host, kind, breaks]
  Rates,        \* the rate limits tried: 0 is a scope without one
  Window,       \* at most rate admissions in Window ticks
  MaxPace,      \* maxPaceMs
  ExpiresAt,
  Budget,       \* requestBudget at the start; each top-up adds one
  HopBound,     \* CHAIN_SPENT_BOUND
  MaxNow, MaxRevision, Durations  \* bounds of the clock, the amendments and an advance

ASSUME ScopeAssumption ==
  /\ Shapes # {} /\ Rates \subseteq Nat /\ Durations \subseteq Nat /\ Window \in Nat
  /\ ExpiresAt \in Nat /\ Budget \in Nat /\ MaxNow \in Nat

VARIABLES
  clock,
  rate,
  stopped,
  assets,      \* the vendor host has been appended to assetHosts
  requestBudget, spent, revision,
  admissions,  \* admitted: when, of each that still counted when pace last looked
  turns,       \* paceQueue
  query,       \* request -> [at, shape, since, waited]
  hops,        \* chainSpent, oldest first
  ledger,      \* "open" | "full" | "write_failed" | "closed"
  records,     \* the amendment records durable on disk: <<type, kind, revision>>
  amendment    \* [at, kind, next]: next is the revision it makes

settings == <<rate, stopped, assets, requestBudget, revision, ledger, records, amendment>>
traffic == <<spent, admissions, turns, query, hops>>
scopeVars == <<clock, settings, traffic>>

NotAsked == [at |-> "idle", shape |-> CHOOSE s \in Shapes : TRUE, since |-> 0, waited |-> FALSE]
Quiet == [at |-> "idle", kind |-> "none", next |-> 0]
Kinds == {"assets", "budget"}
Decided == {"passed", "resubmitted", "denied", "limited", "refused"}

ScopeInit ==
  /\ clock = 0 /\ rate \in Rates /\ stopped = FALSE /\ assets = FALSE
  /\ requestBudget = Budget /\ spent = 0 /\ revision = 0
  /\ admissions = [r \in {} |-> 0] /\ turns = <<>> /\ hops = <<>>
  /\ query = [r \in Queries |-> NotAsked]
  /\ ledger = "open" /\ records = {} /\ amendment = Quiet

-----------------------------------------------------------------------------
(* The rules.                                                              *)

ScopeExpired == clock >= ExpiresAt
Program(s) == s.host = "program"
\* admitsNonProgramHost: started by a program host, and of the host's class.
Asset(s) == s.host = "vendor" /\ assets /\ s.kind = "dependency"

\* rules throws at the first that fails; which one names the denial is left out.
denyIf(s) ==
  \/ stopped
  \/ ScopeExpired
  \/ spent >= requestBudget
  \/ ~Program(s) /\ ~Asset(s)
  \/ s.breaks \cap {"excludedHost", "origin", "excludedPath", "identity"} # {}
  \/ Program(s) /\ s.breaks \cap {"method", "path"} # {}

-----------------------------------------------------------------------------
(* Requests.                                                               *)

\* The spend, then the base policy: a request it refuses has been paid for.
Spends(r) ==
  /\ spent' = spent + 1
  /\ \E verdict \in {"passed", "refused"} :
       query' = [query EXCEPT ![r] =
         [NotAsked EXCEPT !.at = verdict, !.since = clock]]

\* rememberHop: the oldest is forgotten past the bound.
rememberHop(url) ==
  hops' = Append(IF Len(hops) >= HopBound THEN Tail(hops) ELSE hops, url)

\* checkRequest up to its turn in pace.
checkRequest(r, s) ==
  \/ /\ denyIf(s)
     /\ query' = [query EXCEPT ![r] = [NotAsked EXCEPT !.at = "denied"]]
     /\ UNCHANGED <<spent, admissions, turns>>
  \/ /\ ~denyIf(s) /\ rate > 0
     /\ turns' = Append(turns, r)
     /\ query' = [query EXCEPT ![r] =
                      [NotAsked EXCEPT !.at = "queued", !.shape = s, !.since = clock]]
     /\ UNCHANGED <<spent, admissions>>
  \/ /\ ~denyIf(s) /\ rate = 0
     /\ Spends(r)
     /\ UNCHANGED <<admissions, turns>>

Query(r, s) ==
  /\ query[r].at = "idle"
  /\ checkRequest(r, s)
  /\ UNCHANGED <<clock, settings, hops>>

\* checkRedirectChain, one hop: a remembered one is checked but not charged again.
Hop(r, s, url) ==
  /\ query[r].at = "idle"
  /\ \/ /\ ~Contains(hops, url)
        /\ rememberHop(url)
        /\ checkRequest(r, s)
     \/ /\ Contains(hops, url)
        /\ \E base \in BOOLEAN :
             query' = [query EXCEPT ![r] = [NotAsked EXCEPT
               !.at = IF denyIf(s) THEN "denied"
                      ELSE IF base THEN "resubmitted" ELSE "denied"]]
        /\ UNCHANGED <<spent, admissions, turns, hops>>
  /\ UNCHANGED <<clock, settings>>

\* The admissions that still count, and what is left of the map when only those stay.
Counted == {r \in DOMAIN admissions : admissions[r] + Window > clock}
StillCounted == [r \in Counted |-> admissions[r]]
Served == /\ turns' = Tail(turns) /\ UNCHANGED <<clock, settings, hops>>

\* Slip: a stopped scope lets the turn through as one that did not wait.
StopUnnoticed(r) ==
  /\ stopped
  /\ Served /\ UNCHANGED admissions
  /\ Spends(r)
\* A stopped scope admits nothing: the re-check denies.
StopNoticed(r) ==
  /\ stopped
  /\ Served
  /\ query' = [query EXCEPT ![r] = [NotAsked EXCEPT !.at = "denied"]]
  /\ UNCHANGED <<admissions, spent>>

FreeSlot == Cardinality(Counted) < rate

\* A slot is free: the admission is recorded; only a request that has waited
\* meets the rules again, then it spends.
Admits(r) ==
  /\ ~stopped /\ FreeSlot
  /\ Served
  /\ admissions' = [q \in Counted \cup {r} |-> IF q = r THEN clock ELSE admissions[q]]
  /\ \/ /\ query[r].waited /\ denyIf(query[r].shape)
        /\ query' = [query EXCEPT ![r] = [NotAsked EXCEPT !.at = "denied"]]
        /\ UNCHANGED spent
     \/ /\ ~query[r].waited \/ ~denyIf(query[r].shape)
        /\ Spends(r)

\* No more than rate are ever kept, so that the oldest is the one to wait for.
Oldest == CHOOSE r \in Counted : \A q \in Counted : admissions[r] <= admissions[q]
Wait == admissions[Oldest] + Window - clock
TooLong(r) == (clock - query[r].since) + Wait > MaxPace

\* It would wait past maxPaceMs.
RateLimited(r) ==
  /\ ~stopped /\ ~FreeSlot /\ TooLong(r)
  /\ Served
  /\ admissions' = StillCounted
  /\ query' = [query EXCEPT ![r] = [NotAsked EXCEPT !.at = "limited"]]
  /\ UNCHANGED spent

\* It sleeps; a timer may fire early, and the loop looks again.
Sleeps(r) ==
  /\ ~stopped /\ ~FreeSlot /\ ~TooLong(r)
  /\ admissions' = StillCounted
  /\ query' = [query EXCEPT ![r].waited = TRUE]
  /\ UNCHANGED <<clock, settings, spent, turns, hops>>

\* pace: the head of the queue has its turn.
pace ==
  /\ turns # <<>>
  /\ LET r == Head(turns)
     IN StopNoticed(r) \/ Admits(r) \/ RateLimited(r) \/ Sleeps(r)

-----------------------------------------------------------------------------
(* The ledger and the amendments.                                          *)

\* onUnavailable: a ledger that takes no more traffic stops the scope.
Unavailable ==
  /\ ledger = "open"
  /\ ledger' \in {"full", "write_failed"}
  /\ stopped' = TRUE
  /\ UNCHANGED <<clock, rate, traffic, assets, requestBudget, revision, records, amendment>>

\* deleteSessionState: the scope stops before the file closes.
SessionEnds ==
  /\ ledger # "closed"
  /\ ledger' = "closed" /\ stopped' = TRUE
  /\ UNCHANGED <<clock, rate, traffic, assets, requestBudget, revision, records, amendment>>

\* active: asked before the record is written and again before the grant.
Active(kind) ==
  /\ ~stopped /\ ~ScopeExpired
  /\ kind = "assets" => spent < requestBudget

\* The operator asks; the authorized record is on its way to the disk.
Amend(kind) ==
  /\ amendment = Quiet /\ revision < MaxRevision
  /\ ledger = "open" /\ Active(kind)
  /\ kind = "assets" => ~assets
  /\ amendment' = [at |-> "authorizing", kind |-> kind, next |-> revision + 1]
  /\ UNCHANGED <<clock, rate, traffic, stopped, assets, requestBudget, revision, ledger, records>>

\* appendCritical settles: written and synced, or the ledger is unavailable now.
appendCritical(type) ==
  \E outcome \in {"written", "full", "write_failed"} :
    \E durable \in (IF outcome = "written" THEN {TRUE} ELSE BOOLEAN) :
      /\ records' = IF durable THEN records \cup {<<type, amendment.kind, amendment.next>>}
                 ELSE records
      /\ ledger' = IF outcome = "written" \/ ledger # "open" THEN ledger ELSE outcome

Grant ==
  /\ revision' = revision + 1
  /\ assets' = (assets \/ amendment.kind = "assets")
  /\ requestBudget' = IF amendment.kind = "budget" THEN requestBudget + 1 ELSE requestBudget

\* The authorized record settles: the grant, or the scope stops.
Authorized ==
  /\ amendment.at = "authorizing"
  /\ appendCritical("authorized")
  /\ \/ /\ ledger' = "open" /\ Active(amendment.kind)
        /\ Grant
        /\ amendment' = [amendment EXCEPT !.at = "completing"]
        /\ UNCHANGED stopped
     \/ /\ ledger' # "open" \/ ~Active(amendment.kind)
        /\ stopped' = TRUE
        /\ amendment' = Quiet
        /\ UNCHANGED <<revision, assets, requestBudget>>
  /\ UNCHANGED <<clock, rate, traffic>>

\* The completed record settles; without it the scope stops.
Completed ==
  /\ amendment.at = "completing"
  /\ appendCritical("completed")
  /\ stopped' = (stopped \/ ledger' # "open")
  /\ amendment' = Quiet
  /\ UNCHANGED <<clock, rate, traffic, assets, requestBudget, revision>>

Tick ==
  /\ \E d \in Durations : clock' = clock + d /\ clock' <= MaxNow
  /\ UNCHANGED <<settings, traffic>>

-----------------------------------------------------------------------------
ScopeNext ==
  \/ \E r \in Queries, s \in Shapes : Query(r, s)
  \/ \E r \in Queries, s \in Shapes, url \in Urls : Hop(r, s, url)
  \/ pace
  \/ Unavailable \/ SessionEnds
  \/ \E kind \in Kinds : Amend(kind)
  \/ Authorized \/ Completed
  \/ Tick

ScopeSpec == ScopeInit /\ [][ScopeNext]_scopeVars

-----------------------------------------------------------------------------
(* Properties.                                                             *)

ScopeQuery ==
  [at : {"idle", "queued"} \cup Decided, shape : Shapes, since : Nat, waited : BOOLEAN]

ScopeTypeOK ==
  /\ clock \in Nat /\ rate \in Nat /\ stopped \in BOOLEAN /\ assets \in BOOLEAN
  /\ requestBudget \in Nat /\ spent \in Nat /\ revision \in Nat
  /\ DOMAIN admissions \subseteq Queries /\ IsFiniteSet(DOMAIN admissions)
  /\ \A r \in DOMAIN admissions : admissions[r] \in Nat
  /\ turns \in Seq(Queries) /\ hops \in Seq(Urls)
  /\ query \in [Queries -> ScopeQuery]
  /\ ledger \in {"open", "full", "write_failed", "closed"}
  /\ records \subseteq ({"authorized", "completed"} \X Kinds \X Nat)
  /\ amendment \in [at : {"idle", "authorizing", "completing"}, kind : {"none"} \cup Kinds,
                    next : Nat]

PaidQueries == {r \in Queries : query[r].at \in {"passed", "refused"}}
InWindow(start) == {r \in PaidQueries : query[r].since \in start .. (start + Window - 1)}

\* No window of Window ticks holds more than rate paid requests, however the
\* turns, the early timers and the denials fall (pace, serialized).
RateHolds == rate > 0 => \A start \in 0 .. clock : Cardinality(InWindow(start)) <= rate

\* A stopped scope passes nothing more, the requests that were queued or asleep
\* when it stopped included (stop wakes them to be denied).
PassesOnlyWhileOpen ==
  \A r \in Queries :
    query'[r].at \in {"passed", "resubmitted"} /\ query[r].at # query'[r].at => ~stopped
StoppedIsSilent == [][PassesOnlyWhileOpen]_scopeVars

\* Each revision in force was authorized on disk before, by a record of its own and of
\* what it granted, and once its amendment has ended it is also completed on disk or the
\* scope has stopped (amendScopeAssets, topUpScopeBudget).
GrantsAreOnRecord ==
  /\ \A rev \in 1 .. revision : \E kind \in Kinds :
       /\ <<"authorized", kind, rev>> \in records
       /\ \/ amendment = [at |-> "completing", kind |-> kind, next |-> rev]
          \/ <<"completed", kind, rev>> \in records
          \/ stopped
  /\ assets => \E rev \in 1 .. revision : <<"authorized", "assets", rev>> \in records
  /\ requestBudget > Budget =>
       \E rev \in 1 .. revision : <<"authorized", "budget", rev>> \in records

\* scope-policy.ts:58: the budget is the total of the requests in scope.
BudgetHolds == spent <= requestBudget

\* No window holds more requests than the engagement allows, nothing passes once it is
\* stopped, and a grant is on record before it counts (scope-policy.ts:472-520,
\* service.ts:2079-2207).
ScopeHolds == [](ScopeTypeOK /\ RateHolds /\ GrantsAreOnRecord) /\ StoppedIsSilent
=============================================================================
