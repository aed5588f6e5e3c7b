---------------------------- MODULE ApprovalGate ----------------------------
(***************************************************************************)
(* Approval tokens (packages/core/src/approval-gate.ts): minted for one    *)
(* action of one session, decided, consumed at most once, expired by a     *)
(* wall clock, removed by cleanup.                                         *)
(*                                                                         *)
(* A confirmation token is consumed by presenting it with the same action; *)
(* a reviewed token must first be approved by an operator in the same      *)
(* review context.  Callers keep tokens and may present any of them, with  *)
(* any action and context, at any time.                                    *)
(*                                                                         *)
(* Two methods await inside: minting at the token limit (cleanup, then the *)
(* admission is decided again), and the burn that records an outcome.      *)
(* Request validation and digests are left out: equal requests have equal  *)
(* fingerprints.                                                           *)
(***************************************************************************)
EXTENDS Naturals, FiniteSets

CONSTANTS
  TokenIds,     \* bounds the number of tokens minted
  Sessions,
  Actions,      \* action fingerprints
  Versions,     \* review versions; with the session, a review context
  MaxTokens,
  Ttl,
  MaxTime       \* bound on clock readings

ASSUME ApprovalsAssumption == MaxTokens \in Nat /\ Ttl \in Nat /\ MaxTime \in Nat

VARIABLES
  now,           \* Date.now(): may be set back
  tokens,        \* token id -> stored approval
  sessionIndex,  \* session -> ids of its tokens
  minted,        \* ids ever used
  minting,       \* requests between their cleanup and their second look
  burning,       \* tokens burned by a decision whose outcome is not recorded yet
  closed,
  granted        \* history: tokens whose consumption was answered with true

approvalVars == <<now, tokens, sessionIndex, minted, minting, burning, closed, granted>>

Kinds == {"confirmation", "reviewed"}
TokenStatuses == {"pending", "approved", "denied", "used", "expired"}
Decisions == {"approve", "deny"}

\* A confirmation has no context.
NoContext == "none"
Request ==
  [kind : {"confirmation"}, session : Sessions, action : Actions, version : {NoContext}]
  \cup [kind : {"reviewed"}, session : Sessions, action : Actions, version : Versions]

Token ==
  [request : Request, status : TokenStatuses, expiresAt : Nat,
   outcome : Decisions \cup {"none"}]

-----------------------------------------------------------------------------
(* Reading a token expires it.                                             *)

Lapsed(tok) == tok.status \in {"pending", "approved"} /\ now >= tok.expiresAt

\* expire
Expired(tok) == IF Lapsed(tok) THEN [tok EXCEPT !.status = "expired"] ELSE tok

Held(id, kind) == id \in DOMAIN tokens /\ tokens[id].request.kind = kind

\* getToken, getSessionTokens, getReviewedApproval and the non-consuming checks.
Read(id) ==
  /\ id \in DOMAIN tokens
  /\ tokens' = [tokens EXCEPT ![id] = Expired(@)]
  /\ UNCHANGED <<now, sessionIndex, minted, minting, burning, closed, granted>>

-----------------------------------------------------------------------------
(* Cleanup and minting.                                                    *)

\* What a cleanup pass keeps.
Keeps(tok) == now < tok.expiresAt /\ tok.status \notin {"used", "expired", "denied"}

\* Both maps lose the others.
runCleanup ==
  LET kept == {id \in DOMAIN tokens : Keeps(tokens[id])} IN
  /\ tokens' = [id \in kept |-> tokens[id]]
  /\ sessionIndex' = [s \in Sessions |-> sessionIndex[s] \ (DOMAIN tokens \ kept)]

Cleanup ==
  /\ ~closed
  /\ runCleanup
  /\ UNCHANGED <<now, minted, minting, burning, closed, granted>>

Full == Cardinality(DOMAIN tokens) >= MaxTokens

Insert(id, request) ==
  /\ id \in TokenIds \ minted
  /\ minted' = minted \cup {id}
  /\ tokens' = [i \in DOMAIN tokens \cup {id} |->
                  IF i = id THEN [request |-> request, status |-> "pending",
                                  expiresAt |-> now + Ttl, outcome |-> "none"]
                            ELSE tokens[i]]
  /\ sessionIndex' = [sessionIndex EXCEPT ![request.session] = @ \cup {id}]

\* allocate below the limit, without an await.
Mint(id, request) ==
  /\ ~closed
  /\ ~Full
  /\ Insert(id, request)
  /\ UNCHANGED <<now, minting, burning, closed, granted>>

\* allocate at the limit: a cleanup pass, then the await.
MintCleansUp(request) ==
  /\ ~closed
  /\ Full
  /\ runCleanup
  /\ minting' = minting \cup {request}
  /\ UNCHANGED <<now, minted, burning, closed, granted>>

\* The second look: no await between it and the insertion.
MintContinues(id, request) ==
  /\ request \in minting
  /\ minting' = minting \ {request}
  /\ IF closed \/ Full
       THEN UNCHANGED <<tokens, sessionIndex, minted>>
       ELSE Insert(id, request)
  /\ UNCHANGED <<now, burning, closed, granted>>

-----------------------------------------------------------------------------
(* Decisions and consumption.                                              *)

SetToken(id, tok) == tokens' = [tokens EXCEPT ![id] = tok]

\* decideReviewedApproval, for a caller in the token's context.
Decide(id, decision) ==
  LET tok == Expired(tokens[id]) IN
  /\ Held(id, "reviewed")
  /\ SetToken(id,
       IF tok.status \in {"expired", "used"} THEN tok
       ELSE IF decision = "deny" THEN [tok EXCEPT !.status = "denied"]
       ELSE IF tok.status = "pending" THEN [tok EXCEPT !.status = "approved"]
       ELSE tok)
  /\ UNCHANGED <<now, sessionIndex, minted, minting, burning, closed, granted>>

\* Slip: a reviewed token need not have been decided.
AuthorizesUndecided(tok, request) ==
  tok.request = request /\ tok.status \in {"pending", "approved"}

\* The token answers for the request, unexpired, in the status its kind asks for.
Authorizes(tok, request) ==
  /\ tok.request = request
  /\ tok.status = IF request.kind = "reviewed" THEN "approved" ELSE "pending"

\* consumeApprovalToken and consumeReviewedApproval: check and burn, no await.
Consume(id, request) ==
  LET tok == Expired(tokens[id])
      grants == Authorizes(tok, request)
  IN
  /\ Held(id, request.kind)
  /\ request.kind = "reviewed" => tokens[id].request.version = request.version
  /\ SetToken(id, IF grants THEN [tok EXCEPT !.status = "used"] ELSE tok)
  /\ granted' = IF grants THEN granted \cup {id} ELSE granted
  /\ UNCHANGED <<now, sessionIndex, minted, minting, burning, closed>>

\* useApprovalTokenWithOutcome, for the kinds decided by burning: the burn...
Burn(id, decision) ==
  LET tok == Expired(tokens[id]) IN
  /\ Held(id, "confirmation")
  /\ SetToken(id, IF tok.status = "pending" THEN [tok EXCEPT !.status = "used"] ELSE tok)
  /\ burning' = IF tok.status = "pending"
                  THEN burning \cup {[id |-> id, decision |-> decision]} ELSE burning
  /\ UNCHANGED <<now, sessionIndex, minted, minting, closed, granted>>

\* ... and, after its await, the outcome, if the token is still there.
RecordOutcome(b) ==
  /\ b \in burning
  /\ burning' = burning \ {b}
  /\ tokens' = IF b.id \in DOMAIN tokens
                 THEN [tokens EXCEPT ![b.id].outcome = b.decision] ELSE tokens
  /\ UNCHANGED <<now, sessionIndex, minted, minting, closed, granted>>

\* invalidateSessionTokens: confirmations only; a reviewed token is left to its
\* review context.
InvalidateSession(s) ==
  /\ tokens' = [id \in DOMAIN tokens |->
                  IF /\ id \in sessionIndex[s]
                     /\ tokens[id].request.kind = "confirmation"
                     /\ tokens[id].status = "pending"
                    THEN [tokens[id] EXCEPT !.status = "expired"]
                    ELSE tokens[id]]
  /\ UNCHANGED <<now, sessionIndex, minted, minting, burning, closed, granted>>

shutdown ==
  /\ closed' = TRUE
  /\ tokens' = [id \in {} |-> NoContext]
  /\ sessionIndex' = [s \in Sessions |-> {}]
  /\ UNCHANGED <<now, minted, minting, burning, granted>>

Clock(t) ==
  /\ now' = t
  /\ UNCHANGED <<tokens, sessionIndex, minted, minting, burning, closed, granted>>

-----------------------------------------------------------------------------

ApprovalsInit ==
  /\ now = 0
  /\ tokens = [id \in {} |-> NoContext]
  /\ sessionIndex = [s \in Sessions |-> {}]
  /\ minted = {}
  /\ minting = {}
  /\ burning = {}
  /\ closed = FALSE
  /\ granted = {}

\* Ids are random: which of the unused ones is immaterial.
FreshId ==
  LET unused == TokenIds \ minted IN IF unused = {} THEN {} ELSE {CHOOSE id \in unused : TRUE}

ApprovalsNext ==
  \/ \E t \in 0..MaxTime : Clock(t)
  \/ \E id \in DOMAIN tokens : Read(id)
  \/ Cleanup
  \/ \E id \in FreshId, request \in Request : Mint(id, request)
  \/ \E request \in Request : MintCleansUp(request)
  \/ \E id \in FreshId, request \in Request : MintContinues(id, request)
  \/ \E id \in DOMAIN tokens, decision \in Decisions : Decide(id, decision)
  \/ \E id \in DOMAIN tokens, request \in Request : Consume(id, request)
  \/ \E id \in DOMAIN tokens, decision \in Decisions : Burn(id, decision)
  \/ \E b \in burning : RecordOutcome(b)
  \/ \E s \in Sessions : InvalidateSession(s)
  \/ shutdown

ApprovalsSpec == ApprovalsInit /\ [][ApprovalsNext]_approvalVars

-----------------------------------------------------------------------------
(* Properties.                                                             *)

ApprovalsTypeOK ==
  /\ now \in Nat
  /\ DOMAIN tokens \subseteq minted
  /\ \A id \in DOMAIN tokens : tokens[id] \in Token
  /\ sessionIndex \in [Sessions -> SUBSET minted]
  /\ minted \subseteq TokenIds
  /\ minting \subseteq Request
  /\ burning \subseteq [id : minted, decision : Decisions]
  /\ closed \in BOOLEAN
  /\ granted \subseteq minted

\* "Must be kept consistent with `tokens` on every create/expire/cleanup": the
\* session index names exactly the stored tokens, each under its own session.
IndexMatchesTokens ==
  \A s \in Sessions : sessionIndex[s] = {id \in DOMAIN tokens : tokens[id].request.session = s}

\* "Concurrent callers cannot over-admit", and none mints past a shutdown: the
\* limit holds however many requests wait between cleanup and insertion.
WithinLimit == Cardinality(DOMAIN tokens) <= IF closed THEN 0 ELSE MaxTokens

\* A grant follows the decision its kind needs, however the clock is set: a token
\* that was denied, expired, invalidated or burned before never grants.
GrantsAsDecided ==
  [][\A id \in granted' \ granted :
       /\ tokens[id].status = IF tokens[id].request.kind = "reviewed"
                                THEN "approved" ELSE "pending"
       /\ now < tokens[id].expiresAt]_approvalVars

\* A token that granted is spent for good, so one approval is one action, and the
\* outcome recorded after a burn's await never lands on it.
GrantSpends ==
  \A id \in granted \cap DOMAIN tokens : tokens[id].status = "used" /\ tokens[id].outcome = "none"

\* No later call revives a token that was spent or refused.
FinalIsFinal ==
  [][\A id \in DOMAIN tokens \cap DOMAIN tokens' :
       tokens[id].status \in {"used", "denied", "expired"}
         => tokens'[id].status = tokens[id].status]_approvalVars

\* Room is made at the limit only from dead tokens: a live approval is never lost
\* to another caller's request.
LiveTokensKept ==
  [][\A id \in DOMAIN tokens \ DOMAIN tokens' :
       closed' \/ Lapsed(tokens[id]) \/ tokens[id].status \notin {"pending", "approved"}]_approvalVars

\* "Expire every token of one session at once": what invalidateSessionTokens says
\* of itself, for a call that finds no token expired by the clock.
InvalidationExpiresAll ==
  [][\A s \in Sessions :
       InvalidateSession(s) /\ (\A id \in DOMAIN tokens : ~Lapsed(tokens[id])) =>
         \A id \in DOMAIN tokens :
           tokens[id].request.session = s => tokens'[id].status \notin {"pending", "approved"}]_approvalVars

\* The gate's whole promise: a token grants once and only as it was decided, a final
\* status stays final, a live token is not dropped, and the token map, its session
\* index and its limit agree.
ApprovalsHold ==
  /\ [](GrantSpends /\ IndexMatchesTokens /\ WithinLimit)
  /\ GrantsAsDecided
  /\ FinalIsFinal
  /\ LiveTokensKept
=============================================================================
