--------------------------- MODULE ApprovalProofs ----------------------------
(***************************************************************************)
(* The approval gate, the acts that spend its tokens, the operations of    *)
(* an application, the plans of actions on a page and autofill keep their  *)
(* promise for any number of tokens, sessions, requests, acts that         *)
(* overlap, clock settings, pages and steps. ApprovalsInvariant,           *)
(* ReviewInvariant, OutcomeInvariant, PlanInvariant and FillInvariant are  *)
(* the inductive invariants; ApprovalsKept, ReviewKept, OutcomeHonest,     *)
(* PlansKeepTheirWord and ReportsHold the promises the runs check;         *)
(* ActsUseTheGate composes acts and gate: acts drive the gate as its       *)
(* callers may.                                                            *)
(*                                                                         *)
(* One approval is one action because of two facts about a token that is   *)
(* not spent yet (its outcome is still open) and about one that a          *)
(* decision burned and whose outcome is still to be recorded (it is spent  *)
(* and never granted).  Neither is visible in the promise itself.          *)
(*                                                                         *)
(* Authority of before a reseed pays for nothing because of what an act    *)
(* carries between its decision and its payment: an act that will pay      *)
(* with a token was decided with a confirmation of this session, and once  *)
(* a reseed has come between, that confirmation is pending no more.        *)
(*                                                                         *)
(* An outcome is honest because each phase of an operation bounds what it  *)
(* can have executed, verified and released by then (OperationFits).       *)
(*                                                                         *)
(* A plan acts on what it named because a reference means one element      *)
(* from when it is handed out (HandedInv), and every way the code gets     *)
(* from one reference to another keeps the label, or says it does not      *)
(* (StepInv).                                                              *)
(*                                                                         *)
(* And what autofill reports of a form, over any number of fields: a       *)
(* field before the present one has its receipt and one after it is        *)
(* untouched (ReceiptInv), and where the run takes the stage for valid, a  *)
(* complete observation came after its last action (StageInv).             *)
(***************************************************************************)
EXTENDS ReviewedAct, ApplicationOutcome, PlanRun, Autofill, FiniteSetTheorems,
        SequenceTheorems, TLAPS

-----------------------------------------------------------------------------
(* The gate.                                                               *)

\* Only a spent token has an outcome (useApprovalTokenWithOutcome burns first).
OpenOutcome ==
  \A id \in DOMAIN tokens : tokens[id].status # "used" => tokens[id].outcome = "none"

\* A token between its burn and its outcome is spent, and granted nothing.
BurnedIsSpent ==
  \A b \in burning :
    /\ b.id \notin granted
    /\ b.id \in DOMAIN tokens => tokens[b.id].status = "used"

\* The limit, and that there is a number to compare with it.
Bounded == IsFiniteSet(DOMAIN tokens) /\ WithinLimit

\* The inductive invariant.
ApprovalsInv ==
  /\ ApprovalsTypeOK
  /\ IndexMatchesTokens
  /\ Bounded
  /\ GrantSpends
  /\ OpenOutcome
  /\ BurnedIsSpent

Final == {"used", "denied", "expired"}

\* What every call does to a stored token that it does not drop: the request stays,
\* a final status stays, none is made pending again, the outcome is not touched.
Follows(new, old) ==
  /\ new \in Token
  /\ new.request = old.request
  /\ new.expiresAt = old.expiresAt
  /\ new.outcome = old.outcome
  /\ old.status \in Final => new.status = old.status
  /\ new.status = "pending" => old.status = "pending"

Rewritten ==
  /\ DOMAIN tokens' = DOMAIN tokens
  /\ \A id \in DOMAIN tokens : Follows(tokens'[id], tokens[id])

\* What cleanup and shutdown do: tokens go, from both maps.
Dropped ==
  /\ DOMAIN tokens' \subseteq DOMAIN tokens
  /\ \A id \in DOMAIN tokens' : tokens'[id] = tokens[id]
  /\ sessionIndex' = [s \in Sessions |-> sessionIndex[s] \cap DOMAIN tokens']

-----------------------------------------------------------------------------
(* The operators.                                                          *)

LEMMA TokenFields ==
  ASSUME NEW tok \in Token
  PROVE  /\ tok.request \in Request /\ tok.request.session \in Sessions
         /\ tok.request.kind \in Kinds
         /\ tok.status \in TokenStatuses
         /\ tok.expiresAt \in Nat
         /\ tok.outcome \in Decisions \cup {"none"}
  BY DEF Token, Request, Kinds

\* Any status may be written over a token that is not final.
LEMMA NewStatus ==
  ASSUME NEW tok \in Token, NEW status \in TokenStatuses,
         tok.status \notin Final, status # "pending"
  PROVE  /\ Follows([tok EXCEPT !.status = status], tok)
         /\ [tok EXCEPT !.status = status].status = status
  BY TokenFields DEF Token, Follows, TokenStatuses, Final

LEMMA FollowsItself ==
  ASSUME NEW tok \in Token
  PROVE  Follows(tok, tok)
  BY DEF Follows

LEMMA FollowsOn ==
  ASSUME NEW a, NEW b, NEW c, Follows(a, b), Follows(b, c)
  PROVE  Follows(a, c)
  BY DEF Follows

\* Reading a token expires it, or leaves it as it is.
LEMMA ExpiredFollows ==
  ASSUME NEW tok \in Token
  PROVE  /\ Expired(tok) \in Token
         /\ Follows(Expired(tok), tok)
         /\ Expired(tok).status # "expired" => Expired(tok) = tok /\ ~Lapsed(tok)
         /\ tok.status = "expired" => Expired(tok) = tok
<1>1. CASE Lapsed(tok)
  <2>1. tok.status \notin Final
    BY <1>1 DEF Lapsed, Final
  <2>2. "expired" \in TokenStatuses /\ Expired(tok) = [tok EXCEPT !.status = "expired"]
    BY <1>1 DEF Expired, TokenStatuses
  <2>3. Follows(Expired(tok), tok) /\ Expired(tok).status = "expired"
    BY <2>1, <2>2, NewStatus
  <2> QED
    BY <2>1, <2>3 DEF Follows, Final
<1>2. CASE ~Lapsed(tok)
  BY <1>2, FollowsItself DEF Expired
<1> QED
  BY <1>1, <1>2

-----------------------------------------------------------------------------
(* What the three kinds of change preserve.                                *)

\* A change of stored tokens, with the index as it was.
LEMMA RewritingKeeps ==
  ASSUME ApprovalsInv, Rewritten,
         UNCHANGED <<now, sessionIndex, minted, minting, closed>>
  PROVE  /\ DOMAIN tokens' \subseteq minted'
         /\ \A id \in DOMAIN tokens' : tokens'[id] \in Token
         /\ IndexMatchesTokens'
         /\ Bounded'
         /\ OpenOutcome'
         /\ \A id \in DOMAIN tokens' : tokens[id].status = "used" => tokens'[id].status = "used"
         /\ \A id \in DOMAIN tokens' : tokens'[id].outcome = tokens[id].outcome
<1>1. DOMAIN tokens' = DOMAIN tokens /\ \A id \in DOMAIN tokens : Follows(tokens'[id], tokens[id])
  BY DEF Rewritten
<1>2. IndexMatchesTokens'
  BY <1>1 DEF ApprovalsInv, IndexMatchesTokens, Follows
<1>3. Bounded'
  BY <1>1 DEF ApprovalsInv, Bounded, WithinLimit
<1>4. OpenOutcome'
  BY <1>1 DEF ApprovalsInv, OpenOutcome, Follows, Final
<1> QED
  BY <1>1, <1>2, <1>3, <1>4 DEF ApprovalsInv, ApprovalsTypeOK, Follows, Final

\* Tokens that go leave no trace in the index, and make room.
LEMMA DroppingKeeps ==
  ASSUME ApprovalsInv, Dropped, closed' => closed \/ DOMAIN tokens' = {},
         closed => closed', closed' \in BOOLEAN,
         UNCHANGED <<now, minted, burning, granted>>, minting' \subseteq Request
  PROVE  ApprovalsInv'
<1>1. /\ DOMAIN tokens' \subseteq DOMAIN tokens
      /\ \A id \in DOMAIN tokens' : id \in DOMAIN tokens /\ tokens'[id] = tokens[id]
  BY DEF Dropped
<1>2. ApprovalsTypeOK'
  BY <1>1 DEF ApprovalsInv, ApprovalsTypeOK, Dropped
<1>3. IndexMatchesTokens'
  <2> SUFFICES ASSUME NEW s \in Sessions
               PROVE  sessionIndex'[s] = {id \in DOMAIN tokens' : tokens'[id].request.session = s}
    BY DEF IndexMatchesTokens
  <2>1. sessionIndex'[s] = sessionIndex[s] \cap DOMAIN tokens'
    BY DEF Dropped
  <2>2. sessionIndex[s] = {id \in DOMAIN tokens : tokens[id].request.session = s}
    BY DEF ApprovalsInv, IndexMatchesTokens
  <2> QED
    BY <1>1, <2>1, <2>2
<1>4. Bounded'
  <2>1. IsFiniteSet(DOMAIN tokens) /\ Cardinality(DOMAIN tokens) \in Nat
    BY FS_CardinalityType DEF ApprovalsInv, Bounded
  <2>2. /\ IsFiniteSet(DOMAIN tokens') /\ Cardinality(DOMAIN tokens') \in Nat
        /\ Cardinality(DOMAIN tokens') <= Cardinality(DOMAIN tokens)
    BY <1>1, <2>1, FS_Subset, FS_CardinalityType
  <2>3. CASE DOMAIN tokens' = {}
    BY <2>2, <2>3, FS_EmptySet, ApprovalsAssumption DEF Bounded, WithinLimit
  <2>4. CASE ~(DOMAIN tokens' = {})
    BY <2>1, <2>2, <2>4, ApprovalsAssumption
    DEF ApprovalsInv, ApprovalsTypeOK, Bounded, WithinLimit
  <2> QED
    BY <2>3, <2>4
<1> QED
  BY <1>1, <1>2, <1>3, <1>4 DEF ApprovalsInv, GrantSpends, OpenOutcome, BurnedIsSpent

\* A new id is nobody's: neither granted nor burned before.
LEMMA InsertionKeeps ==
  ASSUME ApprovalsInv, NEW id, NEW request \in Request, Insert(id, request), ~Full, ~closed,
         UNCHANGED <<now, closed, burning, granted>>, minting' \subseteq Request
  PROVE  ApprovalsInv'
<1> DEFINE new == [request |-> request, status |-> "pending",
                   expiresAt |-> now + Ttl, outcome |-> "none"]
<1>1. /\ id \in TokenIds \ minted /\ minted' = minted \cup {id}
      /\ DOMAIN tokens' = DOMAIN tokens \cup {id}
      /\ tokens'[id] = new
      /\ \A i \in DOMAIN tokens : i # id /\ tokens'[i] = tokens[i]
      /\ sessionIndex' = [sessionIndex EXCEPT ![request.session] = @ \cup {id}]
  BY DEF Insert, ApprovalsInv, ApprovalsTypeOK
<1>2. /\ new \in Token /\ new.status = "pending" /\ new.outcome = "none"
      /\ new.request.session = request.session /\ request.session \in Sessions
  BY ApprovalsAssumption DEF Token, TokenStatuses, ApprovalsInv, ApprovalsTypeOK, Request
<1> HIDE DEF new
<1>3. ApprovalsTypeOK'
  BY <1>1, <1>2 DEF ApprovalsInv, ApprovalsTypeOK
<1>4. IndexMatchesTokens'
  <2> SUFFICES ASSUME NEW s \in Sessions
               PROVE  sessionIndex'[s] = {i \in DOMAIN tokens' : tokens'[i].request.session = s}
    BY DEF IndexMatchesTokens
  <2>1. sessionIndex[s] = {i \in DOMAIN tokens : tokens[i].request.session = s}
    BY DEF ApprovalsInv, IndexMatchesTokens
  <2>2. sessionIndex'[s] = IF s = request.session THEN sessionIndex[s] \cup {id}
                          ELSE sessionIndex[s]
    BY <1>1 DEF ApprovalsInv, ApprovalsTypeOK
  <2> QED
    BY <1>1, <1>2, <2>1, <2>2
<1>5. Bounded'
  <2>1. IsFiniteSet(DOMAIN tokens) /\ Cardinality(DOMAIN tokens) \in Nat
    BY FS_CardinalityType DEF ApprovalsInv, Bounded
  <2>2. id \notin DOMAIN tokens
    BY <1>1
  <2>3. IsFiniteSet(DOMAIN tokens') /\ Cardinality(DOMAIN tokens') = Cardinality(DOMAIN tokens) + 1
    BY <1>1, <2>1, <2>2, FS_AddElement
  <2> QED
    BY <2>1, <2>3, ApprovalsAssumption DEF Full, Bounded, WithinLimit
<1>6. GrantSpends' /\ OpenOutcome' /\ BurnedIsSpent'
  BY <1>1, <1>2
  DEF ApprovalsInv, ApprovalsTypeOK, GrantSpends, OpenOutcome, BurnedIsSpent
<1> QED
  BY <1>3, <1>4, <1>5, <1>6 DEF ApprovalsInv

\* What runCleanup removes, in the form the lemmas above use.
LEMMA CleanupDrops ==
  ASSUME ApprovalsInv, runCleanup
  PROVE  Dropped
<1> DEFINE kept == {id \in DOMAIN tokens : Keeps(tokens[id])}
<1>1. tokens' = [id \in kept |-> tokens[id]]
      /\ sessionIndex' = [s \in Sessions |-> sessionIndex[s] \ (DOMAIN tokens \ kept)]
  BY DEF runCleanup
<1>2. kept \subseteq DOMAIN tokens
  OBVIOUS
<1> HIDE DEF kept
<1>3. DOMAIN tokens' = kept /\ \A id \in kept : tokens'[id] = tokens[id]
  BY <1>1
<1>4. \A s \in Sessions : sessionIndex[s] \ (DOMAIN tokens \ kept) = sessionIndex[s] \cap kept
  <2> TAKE s \in Sessions
  <2>1. sessionIndex[s] \subseteq DOMAIN tokens
    BY DEF ApprovalsInv, IndexMatchesTokens
  <2> QED
    BY <1>2, <2>1
<1> QED
  BY <1>1, <1>2, <1>3, <1>4 DEF Dropped

-----------------------------------------------------------------------------
(* The actions.                                                            *)

\* A rewrite that grants and burns nothing.
LEMMA QuietRewriting ==
  ASSUME ApprovalsInv, Rewritten,
         UNCHANGED <<now, sessionIndex, minted, minting, burning, closed, granted>>
  PROVE  ApprovalsInv'
<1>1. ApprovalsTypeOK'
  BY RewritingKeeps DEF ApprovalsInv, ApprovalsTypeOK
<1>2. GrantSpends' /\ BurnedIsSpent'
  BY RewritingKeeps DEF ApprovalsInv, GrantSpends, BurnedIsSpent, Rewritten
<1> QED
  BY <1>1, <1>2, RewritingKeeps DEF ApprovalsInv

\* One token set to a value that follows it.
LEMMA Setting ==
  ASSUME ApprovalsInv, NEW id \in DOMAIN tokens, NEW tok, SetToken(id, tok),
         Follows(tok, tokens[id])
  PROVE  Rewritten /\ tokens'[id] = tok /\ \A i \in DOMAIN tokens \ {id} : tokens'[i] = tokens[i]
<1>1. /\ DOMAIN tokens' = DOMAIN tokens
      /\ tokens'[id] = tok
      /\ \A i \in DOMAIN tokens \ {id} : tokens'[i] = tokens[i]
  BY DEF SetToken
<1>2. \A i \in DOMAIN tokens : tokens[i] \in Token
  BY DEF ApprovalsInv, ApprovalsTypeOK
<1>3. \A i \in DOMAIN tokens : Follows(tokens'[i], tokens[i])
  BY <1>1, <1>2, FollowsItself
<1> QED
  BY <1>1, <1>3 DEF Rewritten

LEMMA ReadRewrites ==
  ASSUME ApprovalsInv, NEW id, Read(id)
  PROVE  Rewritten
<1>1. id \in DOMAIN tokens /\ SetToken(id, Expired(tokens[id])) /\ tokens[id] \in Token
  BY DEF Read, SetToken, ApprovalsInv, ApprovalsTypeOK
<1> QED
  BY <1>1, ExpiredFollows, Setting

\* Deciding.
LEMMA DecideRewrites ==
  ASSUME ApprovalsInv, NEW id \in DOMAIN tokens, NEW decision \in Decisions, Decide(id, decision)
  PROVE  Rewritten
<1> DEFINE tok == Expired(tokens[id])
           new == IF tok.status \in {"expired", "used"} THEN tok
                  ELSE IF decision = "deny" THEN [tok EXCEPT !.status = "denied"]
                  ELSE IF tok.status = "pending" THEN [tok EXCEPT !.status = "approved"]
                  ELSE tok
<1>1. SetToken(id, new) /\ tokens[id] \in Token
  BY DEF Decide, ApprovalsInv, ApprovalsTypeOK
<1>2. tok \in Token /\ Follows(tok, tokens[id])
  BY <1>1, ExpiredFollows
<1> HIDE DEF tok
<1>3. Follows(new, tok)
  <2>1. CASE new = tok
    BY <1>2, <2>1, FollowsItself
  <2>2. CASE /\ tok.status \notin {"expired", "used"} /\ decision = "deny"
             /\ new = [tok EXCEPT !.status = "denied"]
    <3>1. CASE tok.status = "denied"
      BY <1>2, <2>2, <3>1, FollowsItself DEF Token
    <3>2. CASE tok.status # "denied"
      <4>1. tok.status \notin Final /\ "denied" \in TokenStatuses
        BY <2>2, <3>2 DEF Final, TokenStatuses
      <4> QED
        BY <1>2, <2>2, <4>1, NewStatus
    <3> QED
      BY <3>1, <3>2
  <2>3. CASE tok.status = "pending" /\ new = [tok EXCEPT !.status = "approved"]
    <3>1. tok.status \notin Final /\ "approved" \in TokenStatuses
      BY <2>3 DEF Final, TokenStatuses
    <3> QED
      BY <1>2, <2>3, <3>1, NewStatus
  <2> QED
    BY <2>1, <2>2, <2>3
<1>4. Follows(new, tokens[id])
  BY <1>2, <1>3, FollowsOn
<1> HIDE DEF new
<1> QED
  BY <1>1, <1>4, Setting

\* Invalidation of a session.
LEMMA InvalidateRewrites ==
  ASSUME ApprovalsInv, NEW s \in Sessions, InvalidateSession(s)
  PROVE  Rewritten
<1>1. /\ DOMAIN tokens' = DOMAIN tokens
      /\ \A id \in DOMAIN tokens :
           \/ tokens'[id] = tokens[id]
           \/ /\ tokens[id].status = "pending"
              /\ tokens'[id] = [tokens[id] EXCEPT !.status = "expired"]
  BY DEF InvalidateSession
<1>2. \A id \in DOMAIN tokens : Follows(tokens'[id], tokens[id])
  <2> TAKE id \in DOMAIN tokens
  <2>1. tokens[id] \in Token
    BY DEF ApprovalsInv, ApprovalsTypeOK
  <2>2. tokens[id].status = "pending" => tokens[id].status \notin Final
    BY DEF Final
  <2>3. "expired" \in TokenStatuses
    BY DEF TokenStatuses
  <2> QED
    BY <1>1, <2>1, <2>2, <2>3, FollowsItself, NewStatus
<1> QED
  BY <1>1, <1>2 DEF Rewritten

\* What a consumption that grants found: the token in the status its kind asks for,
\* not expired, with its outcome open.
LEMMA ConsumeEffect ==
  ASSUME ApprovalsInv, NEW id \in DOMAIN tokens, NEW request \in Request, Consume(id, request)
  PROVE  /\ Rewritten
         /\ \/ granted' = granted
            \/ /\ granted' = granted \cup {id}
               /\ tokens'[id].status = "used"
               /\ tokens[id].status =
                    IF tokens[id].request.kind = "reviewed" THEN "approved" ELSE "pending"
               /\ now < tokens[id].expiresAt
<1> DEFINE tok == Expired(tokens[id])
           grants == Authorizes(tok, request)
           new == IF grants THEN [tok EXCEPT !.status = "used"] ELSE tok
<1>1. /\ SetToken(id, new) /\ tokens[id] \in Token
      /\ granted' = IF grants THEN granted \cup {id} ELSE granted
  BY DEF Consume, ApprovalsInv, ApprovalsTypeOK
<1>2. /\ tok \in Token /\ Follows(tok, tokens[id])
      /\ tok.status # "expired" => tok = tokens[id] /\ ~Lapsed(tokens[id])
  BY <1>1, ExpiredFollows
<1> HIDE DEF tok
<1>3. CASE ~grants
  <2>1. new = tok /\ granted' = granted
    BY <1>1, <1>3
  <2> HIDE DEF new
  <2> QED
    BY <1>1, <1>2, <2>1, Setting
<1>4. CASE grants
  <2>1. /\ tok.request = request
        /\ tok.status = IF request.kind = "reviewed" THEN "approved" ELSE "pending"
    BY <1>4 DEF Authorizes
  <2>2. tok.status \in {"approved", "pending"} /\ tok.status # "expired"
    BY <2>1
  <2>3. tok = tokens[id] /\ ~Lapsed(tokens[id])
    BY <1>2, <2>2
  <2>4. tok.status \notin Final /\ "used" \in TokenStatuses
    BY <2>2 DEF Final, TokenStatuses
  <2>5. new = [tok EXCEPT !.status = "used"] /\ granted' = granted \cup {id}
    BY <1>1, <1>4
  <2>6. Follows(new, tok) /\ new.status = "used"
    BY <1>2, <2>4, <2>5, NewStatus
  <2> HIDE DEF new, grants
  <2>7. Rewritten /\ tokens'[id] = new
    BY <1>1, <2>3, <2>6, Setting
  <2>8. now < tokens[id].expiresAt
    BY <1>1, <2>2, <2>3, TokenFields DEF Lapsed, ApprovalsInv, ApprovalsTypeOK
  <2> QED
    BY <2>1, <2>3, <2>5, <2>6, <2>7, <2>8
<1> QED
  BY <1>3, <1>4

\* What a burn finds and leaves.
LEMMA BurnEffect ==
  ASSUME ApprovalsInv, NEW id \in DOMAIN tokens, NEW decision \in Decisions, Burn(id, decision)
  PROVE  /\ Rewritten
         /\ \/ burning' = burning
            \/ /\ burning' = burning \cup {[id |-> id, decision |-> decision]}
               /\ tokens[id].status = "pending"
               /\ tokens'[id].status = "used"
<1> DEFINE tok == Expired(tokens[id])
           pending == tok.status = "pending"
           new == IF pending THEN [tok EXCEPT !.status = "used"] ELSE tok
<1>1. /\ SetToken(id, new) /\ tokens[id] \in Token
      /\ burning' = IF pending THEN burning \cup {[id |-> id, decision |-> decision]} ELSE burning
  BY DEF Burn, ApprovalsInv, ApprovalsTypeOK
<1>2. /\ tok \in Token /\ Follows(tok, tokens[id])
      /\ tok.status # "expired" => tok = tokens[id]
  BY <1>1, ExpiredFollows
<1> HIDE DEF tok
<1>3. CASE ~pending
  <2>1. new = tok /\ burning' = burning
    BY <1>1, <1>3
  <2> HIDE DEF new
  <2> QED
    BY <1>1, <1>2, <2>1, Setting
<1>4. CASE pending
  <2>1. tok = tokens[id] /\ tok.status \notin Final /\ "used" \in TokenStatuses
    BY <1>2, <1>4 DEF Final, TokenStatuses
  <2>2. /\ new = [tok EXCEPT !.status = "used"]
        /\ burning' = burning \cup {[id |-> id, decision |-> decision]}
    BY <1>1, <1>4
  <2>3. Follows(new, tok) /\ new.status = "used"
    BY <1>2, <2>1, <2>2, NewStatus
  <2>4. tokens[id].status = "pending"
    BY <1>4, <2>1
  <2> HIDE DEF new, pending
  <2> QED
    BY <1>1, <2>1, <2>2, <2>3, <2>4, Setting
<1> QED
  BY <1>3, <1>4

LEMMA ConsumeKeeps ==
  ASSUME ApprovalsInv, NEW id \in DOMAIN tokens, NEW request \in Request, Consume(id, request)
  PROVE  ApprovalsInv'
<1>1. UNCHANGED <<now, sessionIndex, minted, minting, burning, closed>>
  BY DEF Consume
<1>2. Rewritten
  BY ConsumeEffect
<1>3. CASE granted' = granted
  BY <1>1, <1>2, <1>3, QuietRewriting
<1>4. CASE /\ granted' = granted \cup {id} /\ tokens'[id].status = "used"
           /\ tokens[id].status \in {"approved", "pending"}
  <2>1. ApprovalsTypeOK'
    BY <1>1, <1>2, <1>4, RewritingKeeps DEF ApprovalsInv, ApprovalsTypeOK
  <2>2. tokens[id].outcome = "none"
    BY <1>4 DEF ApprovalsInv, OpenOutcome
  <2>3. GrantSpends'
    BY <1>1, <1>2, <1>4, <2>2, RewritingKeeps DEF ApprovalsInv, GrantSpends, Rewritten
  <2>4. BurnedIsSpent'
    BY <1>1, <1>2, <1>4, RewritingKeeps DEF ApprovalsInv, BurnedIsSpent, Rewritten
  <2> QED
    BY <1>1, <1>2, <2>1, <2>3, <2>4, RewritingKeeps DEF ApprovalsInv
<1> QED
  BY <1>3, <1>4, ConsumeEffect

LEMMA BurnKeeps ==
  ASSUME ApprovalsInv, NEW id \in DOMAIN tokens, NEW decision \in Decisions, Burn(id, decision)
  PROVE  ApprovalsInv'
<1>1. UNCHANGED <<now, sessionIndex, minted, minting, closed, granted>>
  BY DEF Burn
<1>2. Rewritten
  BY BurnEffect
<1>3. CASE burning' = burning
  BY <1>1, <1>2, <1>3, QuietRewriting
<1>4. CASE /\ burning' = burning \cup {[id |-> id, decision |-> decision]}
           /\ tokens[id].status = "pending" /\ tokens'[id].status = "used"
  <2>1. ApprovalsTypeOK'
    BY <1>1, <1>2, <1>4, RewritingKeeps DEF ApprovalsInv, ApprovalsTypeOK
  <2>2. id \notin granted
    BY <1>4 DEF ApprovalsInv, GrantSpends
  <2>3. GrantSpends'
    BY <1>1, <1>2, RewritingKeeps DEF ApprovalsInv, GrantSpends, Rewritten
  <2>4. BurnedIsSpent'
    BY <1>1, <1>2, <1>4, <2>2, RewritingKeeps DEF ApprovalsInv, BurnedIsSpent, Rewritten
  <2> QED
    BY <1>1, <1>2, <2>1, <2>3, <2>4, RewritingKeeps DEF ApprovalsInv
<1> QED
  BY <1>3, <1>4, BurnEffect

LEMMA RecordOutcomeKeeps ==
  ASSUME ApprovalsInv, NEW b \in burning, RecordOutcome(b)
  PROVE  ApprovalsInv'
<1>1. /\ UNCHANGED <<now, sessionIndex, minted, minting, closed, granted>>
      /\ burning' = burning \ {b} /\ burning' \subseteq burning
      /\ b.id \notin granted /\ b.decision \in Decisions
  BY DEF RecordOutcome, ApprovalsInv, ApprovalsTypeOK, BurnedIsSpent
<1>2. CASE b.id \notin DOMAIN tokens
  <2>1. tokens' = tokens
    BY <1>2 DEF RecordOutcome
  <2> QED
    BY <1>1, <2>1
    DEF ApprovalsInv, ApprovalsTypeOK, IndexMatchesTokens, Bounded, WithinLimit, GrantSpends,
        OpenOutcome, BurnedIsSpent
<1>3. CASE b.id \in DOMAIN tokens
  <2> DEFINE new == [tokens[b.id] EXCEPT !.outcome = b.decision]
  <2>1. tokens[b.id] \in Token /\ tokens[b.id].status = "used"
    BY <1>3 DEF ApprovalsInv, ApprovalsTypeOK, BurnedIsSpent
  <2>2. /\ new \in Token /\ new.request = tokens[b.id].request /\ new.status = "used"
    BY <1>1, <2>1 DEF Token
  <2>3. tokens' = [tokens EXCEPT ![b.id] = new]
    BY <1>3 DEF RecordOutcome
  <2> HIDE DEF new
  <2>4. /\ DOMAIN tokens' = DOMAIN tokens
        /\ tokens'[b.id] = new
        /\ \A i \in DOMAIN tokens : i # b.id => tokens'[i] = tokens[i]
    BY <1>3, <2>3
  <2>5. ApprovalsTypeOK'
    BY <1>1, <2>2, <2>4 DEF ApprovalsInv, ApprovalsTypeOK
  <2>6. IndexMatchesTokens'
    BY <1>1, <2>2, <2>4 DEF ApprovalsInv, IndexMatchesTokens
  <2>7. Bounded'
    BY <1>1, <2>4 DEF ApprovalsInv, Bounded, WithinLimit
  <2>8. GrantSpends' /\ OpenOutcome' /\ BurnedIsSpent'
    BY <1>1, <2>2, <2>4 DEF ApprovalsInv, GrantSpends, OpenOutcome, BurnedIsSpent
  <2> QED
    BY <2>5, <2>6, <2>7, <2>8 DEF ApprovalsInv
<1> QED
  BY <1>2, <1>3

LEMMA ShutdownKeeps ==
  ASSUME ApprovalsInv, shutdown
  PROVE  ApprovalsInv'
<1>1. /\ tokens' = [id \in {} |-> NoContext]
      /\ sessionIndex' = [s \in Sessions |-> {}] /\ closed' = TRUE
      /\ UNCHANGED <<now, minted, minting, burning, granted>>
  BY DEF shutdown
<1>2. DOMAIN tokens' = {}
  BY <1>1
<1>3. Dropped
  BY <1>1, <1>2 DEF Dropped
<1> QED
  BY <1>1, <1>2, <1>3, DroppingKeeps DEF ApprovalsInv, ApprovalsTypeOK

-----------------------------------------------------------------------------
(* The theorems.                                                           *)

\* Every step keeps the inductive invariant.
LEMMA ApprovalsStep ==
  ASSUME ApprovalsInv, [ApprovalsNext]_approvalVars PROVE ApprovalsInv'
<1>1. ASSUME NEW t \in 0..MaxTime, Clock(t) PROVE ApprovalsInv'
  BY <1>1, ApprovalsAssumption
  DEF Clock, ApprovalsInv, ApprovalsTypeOK, IndexMatchesTokens, Bounded, WithinLimit,
      GrantSpends, OpenOutcome, BurnedIsSpent
<1>2. ASSUME NEW id \in DOMAIN tokens, Read(id) PROVE ApprovalsInv'
  BY <1>2, ReadRewrites, QuietRewriting DEF Read
<1>3. CASE Cleanup
  BY <1>3, CleanupDrops, DroppingKeeps DEF Cleanup, ApprovalsInv, ApprovalsTypeOK
<1>4. ASSUME NEW id \in FreshId, NEW request \in Request, Mint(id, request) PROVE ApprovalsInv'
  BY <1>4, InsertionKeeps DEF Mint, ApprovalsInv, ApprovalsTypeOK
<1>5. ASSUME NEW request \in Request, MintCleansUp(request) PROVE ApprovalsInv'
  BY <1>5, CleanupDrops, DroppingKeeps DEF MintCleansUp, ApprovalsInv, ApprovalsTypeOK
<1>6. ASSUME NEW id \in FreshId, NEW request \in Request, MintContinues(id, request)
      PROVE  ApprovalsInv'
  <2>1. /\ UNCHANGED <<now, burning, closed, granted>> /\ minting' \subseteq Request
    BY <1>6 DEF MintContinues, ApprovalsInv, ApprovalsTypeOK
  <2>2. CASE closed \/ Full
    BY <1>6, <2>1, <2>2
    DEF MintContinues, ApprovalsInv, ApprovalsTypeOK, IndexMatchesTokens, Bounded, WithinLimit,
        GrantSpends, OpenOutcome, BurnedIsSpent
  <2>3. CASE ~closed /\ ~Full
    BY <1>6, <2>1, <2>3, InsertionKeeps DEF MintContinues
  <2> QED
    BY <2>2, <2>3
<1>7. ASSUME NEW id \in DOMAIN tokens, NEW decision \in Decisions, Decide(id, decision)
      PROVE  ApprovalsInv'
  BY <1>7, DecideRewrites, QuietRewriting DEF Decide
<1>8. ASSUME NEW id \in DOMAIN tokens, NEW request \in Request, Consume(id, request)
      PROVE  ApprovalsInv'
  BY <1>8, ConsumeKeeps
<1>9. ASSUME NEW id \in DOMAIN tokens, NEW decision \in Decisions, Burn(id, decision)
      PROVE  ApprovalsInv'
  BY <1>9, BurnKeeps
<1>10. ASSUME NEW b \in burning, RecordOutcome(b) PROVE ApprovalsInv'
  BY <1>10, RecordOutcomeKeeps
<1>11. ASSUME NEW s \in Sessions, InvalidateSession(s) PROVE ApprovalsInv'
  BY <1>11, InvalidateRewrites, QuietRewriting DEF InvalidateSession
<1>12. CASE shutdown
  BY <1>12, ShutdownKeeps
<1>13. CASE UNCHANGED approvalVars
  BY <1>13
  DEF approvalVars, ApprovalsInv, ApprovalsTypeOK, IndexMatchesTokens, Bounded, WithinLimit,
      GrantSpends, OpenOutcome, BurnedIsSpent
<1> QED
  BY <1>1, <1>2, <1>3, <1>4, <1>5, <1>6, <1>7, <1>8, <1>9, <1>10, <1>11, <1>12, <1>13
  DEF ApprovalsNext

LEMMA ApprovalsStart == ApprovalsInit => ApprovalsInv
<1> SUFFICES ASSUME ApprovalsInit PROVE ApprovalsInv
  OBVIOUS
<1>1. /\ now = 0 /\ DOMAIN tokens = {} /\ sessionIndex = [s \in Sessions |-> {}]
      /\ minted = {} /\ minting = {} /\ burning = {} /\ closed = FALSE /\ granted = {}
  BY DEF ApprovalsInit
<1>2. ApprovalsTypeOK /\ GrantSpends /\ OpenOutcome /\ BurnedIsSpent
  BY <1>1 DEF ApprovalsTypeOK, GrantSpends, OpenOutcome, BurnedIsSpent
<1>3. IndexMatchesTokens
  BY <1>1 DEF IndexMatchesTokens
<1>4. Bounded
  BY <1>1, FS_EmptySet, ApprovalsAssumption DEF Bounded, WithinLimit
<1> QED
  BY <1>2, <1>3, <1>4 DEF ApprovalsInv

\* Every reachable state: types, the session index, the limit, one approval one
\* action, and the two facts about spent tokens it rests on.
THEOREM ApprovalsInvariant == ApprovalsSpec => []ApprovalsInv
<1>1. ApprovalsInv /\ [ApprovalsNext]_approvalVars => ApprovalsInv'
  BY ApprovalsStep
<1> QED
  BY <1>1, ApprovalsStart, PTL DEF ApprovalsSpec

\* What one step may do, by kind of change.
LEMMA StepKinds ==
  ASSUME ApprovalsInv, [ApprovalsNext]_approvalVars
  PROVE  /\ \A id \in DOMAIN tokens \cap DOMAIN tokens' :
              tokens[id].status \in Final => tokens'[id].status = tokens[id].status
         /\ \A id \in DOMAIN tokens \ DOMAIN tokens' : closed' \/ ~Keeps(tokens[id])
         /\ \A id \in granted' \ granted :
              /\ id \in DOMAIN tokens
              /\ tokens[id].status =
                   IF tokens[id].request.kind = "reviewed" THEN "approved" ELSE "pending"
              /\ now < tokens[id].expiresAt
<1> DEFINE P == /\ \A id \in DOMAIN tokens \cap DOMAIN tokens' :
                     tokens[id].status \in Final => tokens'[id].status = tokens[id].status
                /\ \A id \in DOMAIN tokens \ DOMAIN tokens' : closed' \/ ~Keeps(tokens[id])
                /\ \A id \in granted' \ granted :
                     /\ id \in DOMAIN tokens
                     /\ tokens[id].status =
                          IF tokens[id].request.kind = "reviewed" THEN "approved" ELSE "pending"
                     /\ now < tokens[id].expiresAt
<1>1. Rewritten /\ granted' = granted => P
  BY DEF Rewritten, Follows
<1>2. tokens' = tokens /\ granted' = granted => P
  OBVIOUS
<1>3. runCleanup /\ granted' = granted => P
  <2> SUFFICES ASSUME runCleanup, granted' = granted PROVE P
    OBVIOUS
  <2>1. tokens' = [id \in {i \in DOMAIN tokens : Keeps(tokens[i])} |-> tokens[id]]
    BY DEF runCleanup
  <2>2. /\ DOMAIN tokens' = {i \in DOMAIN tokens : Keeps(tokens[i])}
        /\ \A id \in DOMAIN tokens' : tokens'[id] = tokens[id]
    BY <2>1
  <2> QED
    BY <2>2
<1>4. ASSUME NEW id, NEW request, Insert(id, request), granted' = granted PROVE P
  BY <1>4 DEF Insert, ApprovalsInv, ApprovalsTypeOK
<1>5. ASSUME NEW t \in 0..MaxTime, Clock(t) PROVE P
  BY <1>5, <1>2 DEF Clock
<1>6. ASSUME NEW id \in DOMAIN tokens, Read(id) PROVE P
  BY <1>6, <1>1, ReadRewrites DEF Read
<1>7. CASE Cleanup
  BY <1>7, <1>3 DEF Cleanup
<1>8. ASSUME NEW id \in FreshId, NEW request \in Request, Mint(id, request) PROVE P
  BY <1>8, <1>4 DEF Mint
<1>9. ASSUME NEW request \in Request, MintCleansUp(request) PROVE P
  BY <1>9, <1>3 DEF MintCleansUp
<1>10. ASSUME NEW id \in FreshId, NEW request \in Request, MintContinues(id, request) PROVE P
  BY <1>10, <1>2, <1>4 DEF MintContinues
<1>11. ASSUME NEW id \in DOMAIN tokens, NEW decision \in Decisions, Decide(id, decision) PROVE P
  BY <1>11, <1>1, DecideRewrites DEF Decide
<1>12. ASSUME NEW id \in DOMAIN tokens, NEW request \in Request, Consume(id, request) PROVE P
  <2>1. \A i \in DOMAIN tokens \cap DOMAIN tokens' :
          tokens[i].status \in Final => tokens'[i].status = tokens[i].status
    BY <1>12, ConsumeEffect DEF Rewritten, Follows
  <2>2. \A i \in DOMAIN tokens \ DOMAIN tokens' : closed' \/ ~Keeps(tokens[i])
    BY <1>12, ConsumeEffect DEF Rewritten
  <2> QED
    BY <1>12, <2>1, <2>2, ConsumeEffect
<1>13. ASSUME NEW id \in DOMAIN tokens, NEW decision \in Decisions, Burn(id, decision) PROVE P
  BY <1>13, <1>1, BurnEffect DEF Burn
<1>14. ASSUME NEW b \in burning, RecordOutcome(b) PROVE P
  <2>1. granted' = granted /\ DOMAIN tokens' = DOMAIN tokens
    BY <1>14 DEF RecordOutcome
  <2>2. \A i \in DOMAIN tokens : tokens'[i].status = tokens[i].status
    BY <1>14 DEF RecordOutcome, ApprovalsInv, ApprovalsTypeOK, Token
  <2> QED
    BY <2>1, <2>2
<1>15. ASSUME NEW s \in Sessions, InvalidateSession(s) PROVE P
  BY <1>15, <1>1, InvalidateRewrites DEF InvalidateSession
<1>16. CASE shutdown
  <2>1. DOMAIN tokens' = {} /\ closed' /\ granted' = granted
    BY <1>16 DEF shutdown
  <2> QED
    BY <2>1
<1>17. CASE UNCHANGED approvalVars
  BY <1>17, <1>2 DEF approvalVars
<1> QED
  BY <1>5, <1>6, <1>7, <1>8, <1>9, <1>10, <1>11, <1>12, <1>13, <1>14, <1>15, <1>16, <1>17
  DEF ApprovalsNext

\* One approval is one action, the index names the stored tokens, the limit holds
\* (allocate, runCleanup, useApprovalTokenWithOutcome).
THEOREM OneApprovalOneAction ==
  ApprovalsSpec => [](GrantSpends /\ IndexMatchesTokens /\ WithinLimit)
<1>1. ApprovalsInv => GrantSpends /\ IndexMatchesTokens /\ WithinLimit
  BY DEF ApprovalsInv, Bounded
<1> QED
  BY <1>1, ApprovalsInvariant, PTL

\* A grant follows the decision its kind needs, before the token's time is over
\* (consumeApprovalToken, consumeReviewedApproval).
THEOREM GrantedAsDecided == ApprovalsSpec => GrantsAsDecided
<1>1. ApprovalsInv /\ [ApprovalsNext]_approvalVars =>
        [\A id \in granted' \ granted :
           /\ tokens[id].status = IF tokens[id].request.kind = "reviewed"
                                    THEN "approved" ELSE "pending"
           /\ now < tokens[id].expiresAt]_approvalVars
  BY StepKinds
<1> QED
  BY <1>1, ApprovalsInvariant, PTL DEF ApprovalsSpec, GrantsAsDecided

\* Spent, denied and expired are for good (expire, decideReviewedApproval).
THEOREM FinalStaysFinal == ApprovalsSpec => FinalIsFinal
<1>1. ApprovalsInv /\ [ApprovalsNext]_approvalVars =>
        [\A id \in DOMAIN tokens \cap DOMAIN tokens' :
           tokens[id].status \in {"used", "denied", "expired"}
             => tokens'[id].status = tokens[id].status]_approvalVars
  BY StepKinds DEF Final
<1> QED
  BY <1>1, ApprovalsInvariant, PTL DEF ApprovalsSpec, FinalIsFinal

\* Cleanup at the limit never drops a live token (allocate, runCleanup).
THEOREM LiveKept == ApprovalsSpec => LiveTokensKept
<1>1. ApprovalsInv /\ [ApprovalsNext]_approvalVars =>
        [\A id \in DOMAIN tokens \ DOMAIN tokens' :
           closed' \/ Lapsed(tokens[id]) \/ tokens[id].status \notin {"pending", "approved"}
        ]_approvalVars
  <2> SUFFICES ASSUME ApprovalsInv, [ApprovalsNext]_approvalVars,
                      NEW id \in DOMAIN tokens \ DOMAIN tokens'
               PROVE  \/ closed' \/ Lapsed(tokens[id])
                      \/ tokens[id].status \notin {"pending", "approved"}
    OBVIOUS
  <2>1. closed' \/ ~Keeps(tokens[id])
    BY StepKinds
  <2>2. tokens[id].expiresAt \in Nat /\ now \in Nat
    BY TokenFields DEF ApprovalsInv, ApprovalsTypeOK
  <2>3. tokens[id].status \in TokenStatuses
    BY TokenFields DEF ApprovalsInv, ApprovalsTypeOK
  <2> QED
    BY <2>1, <2>2, <2>3 DEF Keeps, Lapsed, TokenStatuses
<1> QED
  BY <1>1, ApprovalsInvariant, PTL DEF ApprovalsSpec, LiveTokensKept

\* The gate's whole promise, for any number of tokens, sessions and requests.
THEOREM ApprovalsKept == ApprovalsSpec => ApprovalsHold
  BY OneApprovalOneAction, GrantedAsDecided, FinalStaysFinal, LiveKept DEF ApprovalsHold

-----------------------------------------------------------------------------
(* The acts.                                                               *)

CallPlaces ==
  {"idle", "started", "bound", "admitted", "prepared", "revalidated", "paid", "running", "done"}
Plans == {"none", "deny", "free", "lease", "token"}
Call ==
  [pc : CallPlaces, request : Requests, plan : Plans, token : TokenIds \cup {NoToken},
   approval : Request \cup {NoApproval}, version : Versions \cup {NoApproval}, generation : Nat]
Lease == [remaining : Nat, expiresAt : Nat, generation : Nat]

ReviewTypeOK ==
  /\ act \in [Acts -> Call] /\ version \in Versions /\ controlled \in BOOLEAN
  /\ lease \in Lease /\ leased \in [granted : Nat, spent : Nat] /\ generation \in Nat
  /\ minted \subseteq TokenIds /\ now \in Nat
  /\ \A a \in Acts : act[a].pc \in {"prepared", "revalidated"} =>
       act[a].approval \in Request /\ act[a].plan \in {"free", "lease", "token"}

-----------------------------------------------------------------------------
(* Types, and that the acts drive the gate as its callers may.             *)

LEMMA PlanKinds ==
  ASSUME NEW r \in Requests PROVE PlanFor(r) \in {"deny", "lease", "free", "token"}
  BY DEF PlanFor

LEMMA ApprovalRequestIs ==
  ASSUME ReviewTypeOK
  PROVE  /\ ApprovalRequest \in Request /\ ApprovalRequest.session = Session
         /\ ApprovalRequest.kind = IF usesOperatorReview THEN "reviewed" ELSE "confirmation"
<1>1. Action \in Actions
  BY ReviewAssumption DEF Action
<1>. QED BY <1>1, ReviewAssumption DEF ApprovalRequest, Request, ReviewTypeOK

\* The calls an act can move to, apart from its own start.
LEMMA CallFields ==
  ASSUME NEW c \in Call
  PROVE  /\ \A pc \in CallPlaces : [c EXCEPT !.pc = pc] \in Call
         /\ \A pc \in CallPlaces :
              /\ [c EXCEPT !.pc = pc].pc = pc
              /\ [c EXCEPT !.pc = pc].plan = c.plan
              /\ [c EXCEPT !.pc = pc].token = c.token
              /\ [c EXCEPT !.pc = pc].approval = c.approval
              /\ [c EXCEPT !.pc = pc].version = c.version
              /\ [c EXCEPT !.pc = pc].generation = c.generation
  BY DEF Call

LEMMA IdleIs ==
  /\ IdleCall \in Call /\ IdleCall.pc = "idle" /\ IdleCall.plan = "none"
  /\ IdleCall.approval = NoApproval
<1>1. NoRequest \in Requests
  BY ReviewAssumption DEF NoRequest
<1>. QED BY <1>1 DEF IdleCall, Call, CallPlaces, Plans

\* A refusal, with or without a token, leaves the act idle and steps the gate at most.
LEMMA RefusalSteps ==
  ASSUME ReviewTypeOK, NEW a \in Acts, NEW request \in Request,
         RefuseWithToken(a, request) \/ (Refuse(a) /\ UNCHANGED approvalVars)
  PROVE  /\ act' = [act EXCEPT ![a] = IdleCall]
         /\ UNCHANGED approvalVars \/ \E id \in FreshId : Mint(id, request)
  BY DEF RefuseWithToken, Refuse, SetAct

-----------------------------------------------------------------------------
(* The inductive invariant.                                                *)

Waiting == {"prepared", "revalidated"}

Pending(id, request) ==
  id \in DOMAIN tokens /\ tokens[id].request = request /\ tokens[id].status = "pending"

\* What a decided act that will pay with a token rests on: once a reseed has come
\* between, the confirmation it was decided with is pending no more.
Stands(call) ==
  /\ call.token \in minted
  /\ call.approval.session = Session
  /\ ~controlled => call.approval.kind = "confirmation"
  /\ call.generation # generation => ~controlled /\ ~Pending(call.token, call.approval)

TokensStand ==
  \A a \in Acts : act[a].pc \in Waiting /\ act[a].plan = "token" => Stands(act[a])

\* A ticket lasts no longer than the review context an act was decided in.
TicketsAreCurrent ==
  \A a \in Acts : act[a].pc \in Waiting \cup {"paid"} /\ controlled /\ a \in ticketed
    => act[a].version = version

LeaseIsCurrent == lease.remaining > 0 => lease.generation = generation

ReviewInv ==
  /\ ReviewTypeOK /\ TokensStand /\ TicketsAreCurrent /\ EveryActPays /\ LeaseIsCurrent
  /\ reseed # "none" => ~controlled

\* What a step of the gate may do to the tokens there are.
GateStep ==
  /\ minted \subseteq minted' /\ granted \subseteq granted'
  /\ \A id \in minted, request \in Request :
       id \in DOMAIN tokens' /\ tokens'[id].request = request /\ tokens'[id].status = "pending"
         => Pending(id, request)

\* The steps of the gate that acts, the operator and a reseed take.
Drives ==
  \/ UNCHANGED approvalVars
  \/ \E id \in FreshId, request \in Request : Mint(id, request)
  \/ \E id \in DOMAIN tokens, request \in Request : Consume(id, request)
  \/ \E id \in DOMAIN tokens, decision \in Decisions : Decide(id, decision)
  \/ InvalidateSession(Session)
  \/ \E t \in 0..MaxTime : Clock(t)

LEMMA DrivesTheGate == ASSUME Drives PROVE [ApprovalsNext]_approvalVars
  BY ReviewAssumption DEF Drives, ApprovalsNext

LEMMA GateKeeps ==
  ASSUME ApprovalsInv, Drives PROVE GateStep
<1>1. DOMAIN tokens \subseteq minted
  BY DEF ApprovalsInv, ApprovalsTypeOK
<1>2. ASSUME Rewritten, granted \subseteq granted', minted' = minted PROVE GateStep
  BY <1>1, <1>2 DEF Rewritten, Follows, Final, GateStep, Pending, Token, TokenStatuses,
    ApprovalsInv, ApprovalsTypeOK
<1>3. ASSUME NEW id \in FreshId, NEW request \in Request, Mint(id, request) PROVE GateStep
  BY <1>1, <1>3 DEF Mint, Insert, GateStep, Pending
<1>4. ASSUME NEW id \in DOMAIN tokens, NEW request \in Request, Consume(id, request)
      PROVE  GateStep
  <2>1. minted' = minted
    BY <1>4 DEF Consume
  <2>2. Rewritten /\ granted \subseteq granted'
    BY <1>4, ConsumeEffect
  <2> QED BY <1>2, <2>1, <2>2
<1>5. ASSUME NEW id \in DOMAIN tokens, NEW decision \in Decisions, Decide(id, decision)
      PROVE  GateStep
  BY <1>2, <1>5, DecideRewrites DEF Decide
<1>6. CASE InvalidateSession(Session)
  BY <1>2, <1>6, InvalidateRewrites, ReviewAssumption DEF InvalidateSession
<1>7. ASSUME NEW t \in 0..MaxTime, Clock(t) PROVE GateStep
  BY <1>7 DEF Clock, GateStep, Pending
<1>8. CASE UNCHANGED approvalVars
  BY <1>8 DEF approvalVars, GateStep, Pending
<1> QED
  BY <1>3, <1>4, <1>5, <1>6, <1>7, <1>8 DEF Drives

-----------------------------------------------------------------------------
(* What the moves of one act keep.                                         *)

LEMMA StandsOn ==
  ASSUME ReviewTypeOK, GateStep, controlled' = controlled, generation' = generation,
         NEW CONSTANT q, q.approval \in Request, Stands(q)
  PROVE  Stands(q)'
  BY DEF Stands, GateStep, Pending

LEMMA OthersStand ==
  ASSUME ReviewInv, GateStep, UNCHANGED <<controlled, version, generation>>,
         NEW a \in Acts, \A b \in Acts \ {a} : act'[b] = act[b],
         \A b \in Acts \ {a} : b \in ticketed' => b \in ticketed,
         act'[a].pc \in Waiting /\ act'[a].plan = "token" => Stands(act[a])',
         act'[a].pc \in Waiting \cup {"paid"} /\ controlled /\ a \in ticketed'
           => act'[a].version = version
  PROVE  TokensStand' /\ TicketsAreCurrent'
<1>1. \A b \in Acts \ {a} : act'[b].pc \in Waiting /\ act'[b].plan = "token" => Stands(act[b])'
  <2> TAKE b \in Acts \ {a}
  <2> SUFFICES ASSUME act'[b].pc \in Waiting, act'[b].plan = "token" PROVE Stands(act[b])'
    OBVIOUS
  <2>1. act[b].approval \in Request /\ Stands(act[b])
    BY DEF ReviewInv, ReviewTypeOK, TokensStand, Waiting
  <2>2. PICK q : q = act[b]
    OBVIOUS
  <2>3. q.approval \in Request /\ Stands(q) /\ q = act'[b]
    BY <2>1, <2>2
  <2>4. Stands(q)'
    BY <2>3, StandsOn DEF ReviewInv
  <2> QED BY <2>3, <2>4 DEF Stands, Pending
<1> QED
  BY <1>1 DEF ReviewInv, TokensStand, TicketsAreCurrent

\* A move that pays nothing.
LEMMA NobodyPays ==
  ASSUME ReviewInv, granted \subseteq granted', UNCHANGED leaseVars,
         NEW a \in Acts, \A b \in Acts \ {a} : act'[b] = act[b],
         act'[a].pc \in {"paid", "running", "done"} /\ act'[a].plan \in {"token", "lease"} =>
           Paid(a) /\ act[a].plan = act'[a].plan /\ act[a].token = act'[a].token
  PROVE  EveryActPays'
<1> DEFINE S == {b \in Acts : Paid(b) /\ act[b].plan = "lease"}
           T == {b \in Acts : act'[b].pc \in {"paid", "running", "done"} /\ act'[b].plan = "lease"}
<1>1. /\ \A b \in Acts : Paid(b) /\ act[b].plan = "token" =>
           /\ act[b].token \in granted
           /\ \A d \in Acts \ {b} :
                Paid(d) /\ act[d].plan = "token" => act[b].token # act[d].token
      /\ Cardinality(S) <= leased.spent
      /\ leased.spent + lease.remaining <= leased.granted
  BY DEF ReviewInv, EveryActPays
<1>2. IsFiniteSet(S) /\ IsFiniteSet(T) /\ Cardinality(S) \in Nat /\ Cardinality(T) \in Nat
  BY ReviewAssumption, FS_Subset, FS_CardinalityType
<1>3. T \subseteq S
  BY DEF Paid
<1>4. Cardinality(T) <= Cardinality(S)
  <2> HIDE DEF S, T
  <2> QED BY <1>2, <1>3, FS_Subset
<1>5. Cardinality(T) <= leased.spent
  <2> HIDE DEF S, T
  <2>1. leased.spent \in Nat
    BY DEF ReviewInv, ReviewTypeOK
  <2> QED BY <1>1, <1>2, <1>4, <2>1
<1>6. T = {b \in Acts : Paid(b) /\ act[b].plan = "lease"}'
  BY DEF Paid
<1>7. lease' = lease /\ leased' = leased
  BY DEF leaseVars
<1>8. \A b \in Acts : act'[b].pc \in {"paid", "running", "done"} /\ act'[b].plan = "token" =>
         /\ act'[b].token \in granted'
         /\ Paid(b) /\ act[b].plan = "token" /\ act[b].token = act'[b].token
  BY <1>1 DEF Paid
<1> HIDE DEF S, T
<1> QED
  BY <1>1, <1>5, <1>6, <1>7, <1>8 DEF EveryActPays, Paid

LEMMA MoveKeeps ==
  ASSUME ReviewInv, ApprovalsInv', GateStep,
         UNCHANGED <<controlled, version, leaseVars, reseed, generation>>,
         NEW a \in Acts, NEW CONSTANT c \in Call, act' = [act EXCEPT ![a] = c],
         \A b \in Acts \ {a} : b \in ticketed' => b \in ticketed,
         c.pc \in Waiting => c.approval \in Request /\ c.plan \in {"free", "lease", "token"},
         c.pc \in Waiting /\ c.plan = "token" => Stands(c)',
         c.pc \in Waiting \cup {"paid"} /\ controlled /\ a \in ticketed' => c.version = version,
         c.pc \in {"paid", "running", "done"} /\ c.plan \in {"token", "lease"} =>
           Paid(a) /\ act[a].plan = c.plan /\ act[a].token = c.token
  PROVE  ReviewInv'
<1>1. act \in [Acts -> Call] /\ act' \in [Acts -> Call]
  BY DEF ReviewInv, ReviewTypeOK
<1>2. act'[a] = c /\ \A b \in Acts \ {a} : act'[b] = act[b]
  BY <1>1
<1>3. ReviewTypeOK'
  BY <1>1, <1>2 DEF ReviewInv, ReviewTypeOK, leaseVars, ApprovalsInv, ApprovalsTypeOK, Waiting
<1>4. act'[a].pc \in Waiting /\ act'[a].plan = "token" => Stands(act[a])'
  BY <1>2 DEF Stands, Pending
<1>5. TokensStand' /\ TicketsAreCurrent'
  BY <1>2, <1>4, OthersStand
<1>6. EveryActPays'
  BY <1>2, NobodyPays DEF GateStep
<1> QED
  BY <1>3, <1>5, <1>6 DEF ReviewInv, LeaseIsCurrent, leaseVars

\* A move of an act that decides nothing and pays nothing.
LEMMA QuietMove ==
  ASSUME ReviewInv, ApprovalsInv', GateStep,
         UNCHANGED <<controlled, version, leaseVars, reseed, generation>>,
         NEW a \in Acts, NEW CONSTANT c \in Call, act' = [act EXCEPT ![a] = c],
         \A b \in Acts \ {a} : b \in ticketed' => b \in ticketed,
         \/ c.pc \in {"idle", "started", "bound", "admitted"}
         \/ /\ c.pc \in {"running", "done"} /\ act[a].pc \in {"paid", "running"}
            /\ c.plan = act[a].plan /\ c.token = act[a].token
  PROVE  ReviewInv'
  BY MoveKeeps DEF Waiting, Paid

LEMMA RefusedKeeps ==
  ASSUME ReviewInv, ApprovalsInv', GateStep, NEW a \in Acts, act' = [act EXCEPT ![a] = IdleCall],
         UNCHANGED <<sessionVars, leaseVars, reseedVars>>
  PROVE  ReviewInv'
  BY QuietMove, IdleIs DEF sessionVars, reseedVars

LEMMA StartKeeps ==
  ASSUME ReviewInv, ApprovalsInv', GateStep, NEW a \in Acts, NEW request \in Requests,
         NEW token \in minted \cup {NoToken}, StartAct(a, request, token)
  PROVE  ReviewInv'
<1> DEFINE c == [IdleCall EXCEPT !.pc = "started", !.request = request, !.token = token]
<1>1. token \in TokenIds \cup {NoToken}
  BY DEF ReviewInv, ReviewTypeOK
<1>2. c \in Call /\ c.pc = "started"
  BY <1>1, IdleIs DEF IdleCall, Call, CallPlaces
<1>3. /\ act' = [act EXCEPT ![a] = c]
      /\ UNCHANGED <<controlled, version, leaseVars, reseed, generation>>
      /\ \A b \in Acts \ {a} : b \in ticketed' => b \in ticketed
  BY DEF StartAct, SetAct, reseedVars
<1> HIDE DEF c
<1> QED BY <1>2, <1>3, QuietMove

\* bound, admitted, running: the call keeps what it carries.
LEMMA PassageKeeps ==
  ASSUME ReviewInv, ApprovalsInv', GateStep, NEW a \in Acts,
         NEW pc \in {"bound", "admitted", "running"}, pc = "running" => act[a].pc = "paid",
         act' = [act EXCEPT ![a] = [act[a] EXCEPT !.pc = pc]],
         UNCHANGED <<sessionVars, leaseVars, reseedVars>>
  PROVE  ReviewInv'
<1> DEFINE c == [act[a] EXCEPT !.pc = pc]
<1>1. act[a] \in Call /\ pc \in CallPlaces
  BY DEF ReviewInv, ReviewTypeOK, CallPlaces
<1>2. c \in Call /\ c.pc = pc /\ c.plan = act[a].plan /\ c.token = act[a].token
  BY <1>1, CallFields
<1>3. act' = [act EXCEPT ![a] = c]
  OBVIOUS
<1>4. PICK d : d = c
  OBVIOUS
<1> HIDE DEF c
<1>5. act' = [act EXCEPT ![a] = d]
  BY <1>3, <1>4
<1>6. d \in Call /\ d.pc = pc /\ d.plan = act[a].plan /\ d.token = act[a].token
  BY <1>2, <1>4
<1> QED BY <1>5, <1>6, QuietMove DEF sessionVars, reseedVars

LEMMA EndKeeps ==
  ASSUME ReviewInv, ApprovalsInv', GateStep, NEW a \in Acts, ActEnds(a)
  PROVE  ReviewInv'
<1> DEFINE c == [IdleCall EXCEPT !.pc = "done", !.plan = act[a].plan, !.token = act[a].token]
<1>1. act[a].plan \in Plans /\ act[a].token \in TokenIds \cup {NoToken}
  BY DEF ReviewInv, ReviewTypeOK, Call
<1>2. c \in Call /\ c.pc = "done" /\ c.plan = act[a].plan /\ c.token = act[a].token
  BY <1>1, IdleIs DEF IdleCall, Call, CallPlaces
<1>3. /\ act' = [act EXCEPT ![a] = c]
      /\ UNCHANGED <<controlled, version, leaseVars, reseed, generation>>
      /\ act[a].pc = "running"
      /\ \A b \in Acts \ {a} : b \in ticketed' => b \in ticketed
  BY DEF ActEnds, SetAct, reseedVars
<1>4. PICK d : d = c
  OBVIOUS
<1> HIDE DEF c
<1>5. act' = [act EXCEPT ![a] = d]
  BY <1>3, <1>4
<1>6. d \in Call /\ d.pc = "done" /\ d.plan = act[a].plan /\ d.token = act[a].token
  BY <1>2, <1>4
<1> QED BY <1>3, <1>5, <1>6, QuietMove

-----------------------------------------------------------------------------
(* Deciding, revalidating, paying.                                         *)

\* A valid token is pending under the request it is valid for, unless an operator
\* approved it.
LEMMA ValidIs ==
  ASSUME ApprovalsInv, NEW token, NEW request \in Request, Valid(token, request)
  PROVE  /\ token \in DOMAIN tokens /\ token \in minted /\ token \notin granted
         /\ request.kind = "confirmation" => Pending(token, request)
<1>1. /\ token \in DOMAIN tokens /\ tokens[token] \in Token
      /\ Authorizes(Expired(tokens[token]), request)
  BY DEF Valid, ApprovalsInv, ApprovalsTypeOK
<1>2. /\ Expired(tokens[token]).request = request
      /\ Expired(tokens[token]).status =
           IF request.kind = "reviewed" THEN "approved" ELSE "pending"
  BY <1>1 DEF Authorizes
<1>3. Expired(tokens[token]).status # "expired"
  BY <1>2
<1>4. Expired(tokens[token]) = tokens[token]
  BY <1>1, <1>3, ExpiredFollows
<1>5. /\ tokens[token].request = request
      /\ tokens[token].status = IF request.kind = "reviewed" THEN "approved" ELSE "pending"
  BY <1>2, <1>4
<1> QED
  BY <1>1, <1>5 DEF Pending, ApprovalsInv, ApprovalsTypeOK, GrantSpends

LEMMA PrepareKeeps ==
  ASSUME ReviewInv, ApprovalsInv, ApprovalsInv', GateStep, NEW a \in Acts, PrepareApproval(a)
  PROVE  ReviewInv'
<1> DEFINE planned == PlanFor(act[a].request)
           c == [act[a] EXCEPT !.pc = "prepared", !.plan = planned, !.version = version,
                               !.approval = ApprovalRequest, !.generation = generation]
<1>1. /\ act[a] \in Call /\ act[a].request \in Requests /\ version \in Versions
      /\ generation \in Nat /\ controlled \in BOOLEAN
  BY DEF ReviewInv, ReviewTypeOK, Call
<1>2. planned \in {"deny", "lease", "free", "token"}
  BY <1>1, PlanKinds
<1>3. /\ ApprovalRequest \in Request /\ ApprovalRequest.session = Session
      /\ ApprovalRequest.kind = IF usesOperatorReview THEN "reviewed" ELSE "confirmation"
  BY ApprovalRequestIs DEF ReviewInv
<1>4. UNCHANGED <<sessionVars, leaseVars, reseedVars>>
  BY DEF PrepareApproval
<1>5. \/ Refuse(a) \/ RefuseWithToken(a, ApprovalRequest)
      \/ /\ act' = [act EXCEPT ![a] = c] /\ UNCHANGED approvalVars
         /\ planned # "deny"
         /\ planned = "token" => /\ ~(marked /\ ~controlled)
                                 /\ Valid(act[a].token, ApprovalRequest)
  BY <1>2 DEF PrepareApproval, SetAct
<1>6. CASE Refuse(a) \/ RefuseWithToken(a, ApprovalRequest)
  <2>1. act' = [act EXCEPT ![a] = IdleCall]
    BY <1>6 DEF RefuseWithToken, Refuse, SetAct
  <2> QED BY <1>4, <2>1, RefusedKeeps
<1>7. CASE /\ act' = [act EXCEPT ![a] = c] /\ UNCHANGED approvalVars
           /\ planned # "deny"
           /\ planned = "token" => /\ ~(marked /\ ~controlled)
                                   /\ Valid(act[a].token, ApprovalRequest)
  <2>1. /\ c \in Call /\ c.pc = "prepared" /\ c.plan = planned /\ c.version = version
        /\ c.approval = ApprovalRequest /\ c.generation = generation /\ c.token = act[a].token
    <3>1. planned \in Plans
      BY <1>2 DEF Plans
    <3> HIDE DEF planned
    <3> QED BY <1>1, <1>3, <3>1 DEF Call, CallPlaces
  <2>2. PICK d : d = c
    OBVIOUS
  <2>3. planned = "token" => /\ act[a].token \in minted
                             /\ ~controlled => ApprovalRequest.kind = "confirmation"
    BY <1>1, <1>3, <1>7, ValidIs DEF usesOperatorReview
  <2> HIDE DEF c, planned
  <2>4. /\ d \in Call /\ d.pc = "prepared" /\ d.plan = planned /\ d.version = version
        /\ d.approval = ApprovalRequest /\ d.generation = generation /\ d.token = act[a].token
    BY <2>1, <2>2
  <2>5. planned = "token" => Stands(d)
    BY <1>3, <2>3, <2>4 DEF Stands
  <2>6. planned = "token" => Stands(d)'
    BY <1>3, <1>4, <2>4, <2>5, StandsOn DEF sessionVars, reseedVars, ReviewInv
  <2>7. act' = [act EXCEPT ![a] = d]
    BY <1>7, <2>2
  <2>8. UNCHANGED <<controlled, version, leaseVars, reseed, generation>> /\ ticketed' = ticketed
    BY <1>4 DEF sessionVars, reseedVars
  <2>9. planned \in {"free", "lease", "token"}
    BY <1>2, <1>7
  <2> QED
    BY <1>3, <2>4, <2>6, <2>7, <2>8, <2>9, MoveKeeps DEF Waiting
<1> QED
  BY <1>5, <1>6, <1>7

LEMMA RevalidateKeeps ==
  ASSUME ReviewInv, ApprovalsInv, ApprovalsInv', GateStep, NEW a \in Acts, Revalidate(a)
  PROVE  ReviewInv'
<1> DEFINE c == [act[a] EXCEPT !.pc = "revalidated"]
<1>1. act[a] \in Call /\ act[a].pc = "prepared"
  BY DEF Revalidate, ReviewInv, ReviewTypeOK
<1>2. UNCHANGED <<controlled, version, leaseVars, reseed, generation>> /\ ticketed' = ticketed
  BY DEF Revalidate, sessionVars, reseedVars
<1>3. act' = [act EXCEPT ![a] = IdleCall] \/ act' = [act EXCEPT ![a] = c]
  BY DEF Revalidate, RefuseWithToken, Refuse, SetAct
<1>4. CASE act' = [act EXCEPT ![a] = IdleCall]
  BY <1>4, RefusedKeeps DEF Revalidate
<1>5. CASE act' = [act EXCEPT ![a] = c]
  <2>1. /\ c \in Call /\ c.pc = "revalidated" /\ c.plan = act[a].plan
        /\ c.token = act[a].token /\ c.approval = act[a].approval
        /\ c.version = act[a].version /\ c.generation = act[a].generation
    BY <1>1, CallFields DEF CallPlaces
  <2>2. PICK d : d = c
    OBVIOUS
  <2> HIDE DEF c
  <2>3. /\ d \in Call /\ d.pc = "revalidated" /\ d.plan = act[a].plan
        /\ d.token = act[a].token /\ d.approval = act[a].approval
        /\ d.version = act[a].version /\ d.generation = act[a].generation
    BY <2>1, <2>2
  <2>4. d.approval \in Request /\ d.plan \in {"free", "lease", "token"}
    BY <1>1, <2>3 DEF ReviewInv, ReviewTypeOK
  <2>5. d.plan = "token" => Stands(d)
    BY <1>1, <2>3 DEF Stands, ReviewInv, TokensStand, Waiting
  <2>6. d.plan = "token" => Stands(d)'
    BY <1>2, <2>4, <2>5, StandsOn DEF ReviewInv
  <2>7. controlled /\ a \in ticketed' => d.version = version
    BY <1>1, <1>2, <2>3 DEF ReviewInv, TicketsAreCurrent, Waiting
  <2>8. act' = [act EXCEPT ![a] = d]
    BY <1>5, <2>2
  <2> QED
    BY <1>2, <2>3, <2>4, <2>6, <2>7, <2>8, MoveKeeps DEF Waiting
<1> QED
  BY <1>3, <1>4, <1>5

\* What commit finds.
LEMMA CommitFinds ==
  ASSUME ReviewInv, NEW a \in Acts, Commit(a)
  PROVE  /\ act[a] \in Call /\ act[a].pc \in Waiting /\ act[a].approval \in Request
         /\ act[a].plan \in {"free", "lease", "token"}
         /\ ~Paid(a)
         /\ controlled /\ a \in ticketed => act[a].version = version
         /\ UNCHANGED <<sessionVars, reseedVars>>
<1>1. act[a] \in Call /\ act[a].pc \in Waiting
  BY DEF Commit, ReadyToPay, Waiting, ReviewInv, ReviewTypeOK
<1> QED
  BY <1>1 DEF Commit, Waiting, Paid, ReviewInv, ReviewTypeOK, TicketsAreCurrent

LEMMA FreeKeeps ==
  ASSUME ReviewInv, ApprovalsInv, ApprovalsInv', GateStep, NEW a \in Acts, Commit(a),
         act[a].plan = "free"
  PROVE  ReviewInv'
<1> DEFINE c == [act[a] EXCEPT !.pc = "paid"]
<1>1. act' = [act EXCEPT ![a] = c] /\ UNCHANGED leaseVars
  BY DEF Commit, SetAct
<1>2. c \in Call /\ c.pc = "paid" /\ c.plan = "free" /\ c.version = act[a].version
  BY CommitFinds, CallFields DEF CallPlaces
<1>3. PICK d : d = c
  OBVIOUS
<1> HIDE DEF c
<1>4. /\ d \in Call /\ d.pc = "paid" /\ d.plan = "free" /\ d.version = act[a].version
      /\ act' = [act EXCEPT ![a] = d]
  BY <1>1, <1>2, <1>3
<1>5. UNCHANGED <<controlled, version, reseed, generation>> /\ ticketed' = ticketed
  BY CommitFinds DEF sessionVars, reseedVars
<1>6. d.pc \notin Waiting /\ (controlled /\ a \in ticketed' => d.version = version)
  BY <1>4, <1>5, CommitFinds DEF Waiting
<1> QED
  BY <1>1, <1>4, <1>5, <1>6, MoveKeeps

\* The lease is spent once for each act that goes ahead on it.
LEMMA LeaseSpendKeeps ==
  ASSUME ReviewInv, ApprovalsInv, ApprovalsInv', GateStep, NEW a \in Acts, Commit(a),
         act[a].plan = "lease", LeaseCovers
  PROVE  ReviewInv' /\ act'[a].generation = generation
<1> DEFINE c == [act[a] EXCEPT !.pc = "paid", !.generation = lease.generation]
           S == {b \in Acts : Paid(b) /\ act[b].plan = "lease"}
           T == {b \in Acts : act'[b].pc \in {"paid", "running", "done"} /\ act'[b].plan = "lease"}
<1>1. /\ act' = [act EXCEPT ![a] = c]
      /\ lease' = [lease EXCEPT !.remaining = @ - 1]
      /\ leased' = [leased EXCEPT !.spent = @ + 1]
  BY DEF Commit, SpendLease, SetAct
<1>2. /\ lease \in Lease /\ leased \in [granted : Nat, spent : Nat] /\ lease.remaining > 0
      /\ lease.generation = generation
  BY DEF ReviewInv, ReviewTypeOK, LeaseCovers, LeaseIsCurrent
<1>3. /\ lease' \in Lease /\ leased' \in [granted : Nat, spent : Nat]
      /\ lease'.remaining = lease.remaining - 1 /\ lease'.generation = lease.generation
      /\ leased'.spent = leased.spent + 1 /\ leased'.granted = leased.granted
  BY <1>1, <1>2 DEF Lease
<1>4. /\ c \in Call /\ c.pc = "paid" /\ c.plan = "lease" /\ c.version = act[a].version
      /\ c.generation = generation
  BY <1>2, CommitFinds DEF CallPlaces, Call, Lease
<1> HIDE DEF c
<1>5. act \in [Acts -> Call]
  BY DEF ReviewInv, ReviewTypeOK
<1>6. act' \in [Acts -> Call] /\ act'[a] = c /\ \A b \in Acts \ {a} : act'[b] = act[b]
  BY <1>1, <1>4, <1>5
<1>7. UNCHANGED <<controlled, version, reseed, generation>> /\ ticketed' = ticketed
  BY CommitFinds DEF sessionVars, reseedVars
<1>8. TokensStand' /\ TicketsAreCurrent'
  BY <1>4, <1>6, <1>7, CommitFinds, OthersStand DEF Waiting
<1>9. ReviewTypeOK'
  BY <1>3, <1>4, <1>6, <1>7 DEF ReviewInv, ReviewTypeOK, ApprovalsInv, ApprovalsTypeOK
<1>10. T = S \cup {a} /\ a \notin S
  BY <1>4, <1>6, CommitFinds DEF Paid
<1>11. Cardinality(T) <= leased'.spent
  <2>1. IsFiniteSet(S)
    BY ReviewAssumption, FS_Subset
  <2>2. Cardinality(S) <= leased.spent /\ leased.spent \in Nat
    BY <1>2 DEF ReviewInv, EveryActPays
  <2> HIDE DEF S, T
  <2>3. Cardinality(S) \in Nat
    BY <2>1, FS_CardinalityType
  <2>4. Cardinality(T) = Cardinality(S) + 1
    BY <1>10, <2>1, FS_AddElement
  <2> QED BY <1>3, <2>2, <2>3, <2>4
<1>12. T = {b \in Acts : Paid(b) /\ act[b].plan = "lease"}'
  BY DEF Paid
<1>13. leased'.spent + lease'.remaining <= leased'.granted
  <2>1. leased.spent + lease.remaining <= leased.granted
    BY DEF ReviewInv, EveryActPays
  <2> QED BY <1>2, <1>3, <2>1 DEF Lease
<1>14. \A b \in Acts : act'[b].pc \in {"paid", "running", "done"} /\ act'[b].plan = "token" =>
         /\ act'[b].token \in granted'
         /\ \A e \in Acts \ {b} :
              act'[e].pc \in {"paid", "running", "done"} /\ act'[e].plan = "token" =>
                act'[b].token # act'[e].token
  BY <1>4, <1>6 DEF ReviewInv, EveryActPays, Paid, GateStep
<1>15. EveryActPays'
  <2> HIDE DEF T
  <2> QED BY <1>11, <1>12, <1>13, <1>14 DEF EveryActPays, Paid
<1> QED
  BY <1>2, <1>3, <1>4, <1>6, <1>7, <1>8, <1>9, <1>15 DEF ReviewInv, LeaseIsCurrent

\* The token is granted to this act, and was granted to none before.
LEMMA TokenSpendKeeps ==
  ASSUME ReviewInv, ApprovalsInv, ApprovalsInv', GateStep, NEW a \in Acts, Commit(a),
         act[a].plan = "token", Valid(act[a].token, act[a].approval)
  PROVE  ReviewInv' /\ act'[a].generation = generation
<1> DEFINE c == [act[a] EXCEPT !.pc = "paid"]
           S == {b \in Acts : Paid(b) /\ act[b].plan = "lease"}
<1>1. /\ act' = [act EXCEPT ![a] = c] /\ UNCHANGED leaseVars
      /\ Consume(act[a].token, act[a].approval)
  BY DEF Commit, SpendToken, SetAct
<1>2. /\ act[a].token \in DOMAIN tokens /\ act[a].token \notin granted
      /\ act[a].approval.kind = "confirmation" => Pending(act[a].token, act[a].approval)
  BY CommitFinds, ValidIs
<1>3. granted' = granted \cup {act[a].token}
  BY <1>1 DEF Consume, Valid
<1>4. /\ c \in Call /\ c.pc = "paid" /\ c.plan = "token" /\ c.version = act[a].version
      /\ c.token = act[a].token /\ c.generation = act[a].generation
  BY CommitFinds, CallFields DEF CallPlaces
<1>5. act[a].generation = generation
  <2>1. Stands(act[a])
    BY CommitFinds DEF ReviewInv, TokensStand
  <2> QED BY <1>2, <2>1 DEF Stands
<1> HIDE DEF c
<1>6. act \in [Acts -> Call]
  BY DEF ReviewInv, ReviewTypeOK
<1>7. act' \in [Acts -> Call] /\ act'[a] = c /\ \A b \in Acts \ {a} : act'[b] = act[b]
  BY <1>1, <1>4, <1>6
<1>8. UNCHANGED <<controlled, version, reseed, generation>> /\ ticketed' = ticketed
  BY CommitFinds DEF sessionVars, reseedVars
<1>9. TokensStand' /\ TicketsAreCurrent'
  BY <1>4, <1>7, <1>8, CommitFinds, OthersStand DEF Waiting
<1>10. lease' = lease /\ leased' = leased
  BY <1>1 DEF leaseVars
<1>11. ReviewTypeOK'
  BY <1>4, <1>7, <1>8, <1>10 DEF ReviewInv, ReviewTypeOK, ApprovalsInv, ApprovalsTypeOK
<1>12. S = {b \in Acts : Paid(b) /\ act[b].plan = "lease"}'
  BY <1>4, <1>7, CommitFinds DEF Paid
<1>13. \A b \in Acts : act'[b].pc \in {"paid", "running", "done"} /\ act'[b].plan = "token" =>
         /\ act'[b].token \in granted'
         /\ \A e \in Acts \ {b} :
              act'[e].pc \in {"paid", "running", "done"} /\ act'[e].plan = "token" =>
                act'[b].token # act'[e].token
  BY <1>2, <1>3, <1>4, <1>7 DEF ReviewInv, EveryActPays, Paid
<1>14. Cardinality(S) <= leased.spent /\ leased.spent + lease.remaining <= leased.granted
  BY DEF ReviewInv, EveryActPays
<1>15. EveryActPays'
  <2> HIDE DEF S
  <2> QED BY <1>10, <1>12, <1>13, <1>14 DEF EveryActPays, Paid
<1> QED
  BY <1>4, <1>5, <1>7, <1>8, <1>9, <1>10, <1>11, <1>15 DEF ReviewInv, LeaseIsCurrent

\* commit, in all its cases.
LEMMA CommitKeeps ==
  ASSUME ReviewInv, ApprovalsInv, ApprovalsInv', GateStep, NEW a \in Acts, Commit(a)
  PROVE  /\ ReviewInv'
         /\ act'[a].pc = "paid" /\ act[a].plan \in {"token", "lease"} =>
              act'[a].generation = generation
<1>1. act \in [Acts -> Call] /\ UNCHANGED <<sessionVars, reseedVars>>
  BY CommitFinds DEF ReviewInv, ReviewTypeOK
<1>2. ASSUME act' = [act EXCEPT ![a] = IdleCall], UNCHANGED leaseVars
      PROVE  ReviewInv' /\ act'[a].pc # "paid"
  <2>1. ReviewInv'
    BY <1>1, <1>2, RefusedKeeps
  <2>2. act'[a] = IdleCall
    BY <1>1, <1>2
  <2> QED BY <2>1, <2>2, IdleIs
<1>3. CASE act[a].plan = "free"
  BY <1>3, FreeKeeps
<1>4. CASE act[a].plan = "lease"
  <2>1. CASE LeaseCovers
    BY <1>4, <2>1, LeaseSpendKeeps
  <2>2. CASE ~LeaseCovers
    BY <1>2, <1>4, <2>2 DEF Commit, SpendLease, Refuse, SetAct
  <2> QED BY <2>1, <2>2
<1>5. CASE act[a].plan = "token"
  <2>1. CASE Valid(act[a].token, act[a].approval)
    BY <1>5, <2>1, TokenSpendKeeps
  <2>2. CASE ~Valid(act[a].token, act[a].approval)
    BY <1>2, <1>5, <2>2 DEF Commit, SpendToken, RefuseWithToken, Refuse, SetAct
  <2> QED BY <2>1, <2>2
<1> QED
  BY <1>3, <1>4, <1>5, CommitFinds

-----------------------------------------------------------------------------
(* The operator and the reseed.                                            *)

\* Calls that no step of the session touches.
LEMMA ActsRest ==
  ASSUME ReviewInv, ApprovalsInv', GateStep, UNCHANGED <<act, controlled, version, generation>>,
         ticketed' \subseteq ticketed, reseed' # "none" => ~controlled, UNCHANGED leaseVars
  PROVE  ReviewInv'
<1>1. \A b \in Acts : act'[b].pc \in Waiting /\ act'[b].plan = "token" => Stands(act[b])'
  <2> TAKE b \in Acts
  <2> SUFFICES ASSUME act[b].pc \in Waiting, act[b].plan = "token" PROVE Stands(act[b])'
    OBVIOUS
  <2>1. act[b].approval \in Request /\ Stands(act[b])
    BY DEF ReviewInv, ReviewTypeOK, TokensStand, Waiting
  <2>2. PICK q : q = act[b]
    OBVIOUS
  <2>3. q.approval \in Request /\ Stands(q) /\ q = act'[b]
    BY <2>1, <2>2
  <2>4. Stands(q)'
    BY <2>3, StandsOn DEF ReviewInv
  <2> QED BY <2>3, <2>4 DEF Stands, Pending
<1>2. TokensStand' /\ TicketsAreCurrent'
  BY <1>1 DEF ReviewInv, TokensStand, TicketsAreCurrent
<1>3. ReviewTypeOK'
  BY DEF ReviewInv, ReviewTypeOK, leaseVars, ApprovalsInv, ApprovalsTypeOK
<1>4. EveryActPays'
  BY DEF ReviewInv, EveryActPays, Paid, GateStep, leaseVars
<1> QED
  BY <1>2, <1>3, <1>4 DEF ReviewInv, LeaseIsCurrent, leaseVars

LEMMA TakesKeeps ==
  ASSUME ReviewInv, ApprovalsInv', GateStep, OperatorTakes
  PROVE  ReviewInv'
<1>1. /\ version' \in Versions /\ ticketed' = {}
      /\ UNCHANGED <<controlled, act, leaseVars, reseedVars, approvalVars>>
  BY DEF OperatorTakes
<1>2. ReviewTypeOK'
  BY <1>1 DEF ReviewInv, ReviewTypeOK, leaseVars, reseedVars, ApprovalsInv, ApprovalsTypeOK
<1>3. TokensStand' /\ TicketsAreCurrent'
  BY <1>1
  DEF ReviewInv, TokensStand, TicketsAreCurrent, Stands, Pending, reseedVars, approvalVars
<1> QED
  BY <1>1, <1>2, <1>3
  DEF ReviewInv, EveryActPays, Paid, LeaseIsCurrent, leaseVars, reseedVars, approvalVars

LEMMA GrantKeeps ==
  ASSUME ReviewInv, ApprovalsInv, ApprovalsInv', GateStep, GrantLease
  PROVE  ReviewInv'
<1> DEFINE S == {b \in Acts : Paid(b) /\ act[b].plan = "lease"}
<1>1. /\ lease' = [remaining |-> LeaseActions, expiresAt |-> now + LeaseTtl,
                   generation |-> generation]
      /\ leased' = [leased EXCEPT !.granted = @ + LeaseActions]
      /\ UNCHANGED <<approvalVars, sessionVars, act, reseedVars>>
  BY DEF GrantLease
<1>2. leased \in [granted : Nat, spent : Nat] /\ now \in Nat /\ generation \in Nat
  BY DEF ReviewInv, ReviewTypeOK
<1>3. /\ leased' \in [granted : Nat, spent : Nat] /\ leased'.spent = leased.spent
      /\ leased'.granted = leased.granted + LeaseActions
  BY <1>1, <1>2, ReviewAssumption
<1>4. lease' \in Lease /\ lease'.remaining = LeaseActions /\ lease'.generation = generation
  BY <1>1, <1>2, ReviewAssumption DEF Lease, LeaseTtl
<1>5. ReviewTypeOK'
  BY <1>1, <1>3, <1>4
  DEF ReviewInv, ReviewTypeOK, sessionVars, reseedVars, approvalVars, ApprovalsInv,
      ApprovalsTypeOK
<1>6. TokensStand' /\ TicketsAreCurrent'
  BY <1>1 DEF ReviewInv, TokensStand, TicketsAreCurrent, Stands, Pending, reseedVars,
    approvalVars, sessionVars
<1>7. S = S'
  BY <1>1 DEF Paid
<1>8. /\ Cardinality(S) <= leased.spent /\ leased.spent + lease.remaining <= leased.granted
      /\ lease \in Lease
  BY DEF ReviewInv, EveryActPays, ReviewTypeOK
<1>9. Cardinality(S)' <= leased'.spent /\ leased'.spent + lease'.remaining <= leased'.granted
  <2>1. leased'.spent + lease'.remaining <= leased'.granted
    BY <1>2, <1>3, <1>4, <1>8, ReviewAssumption DEF Lease
  <2> HIDE DEF S
  <2> QED BY <1>3, <1>7, <1>8, <2>1
<1>10. EveryActPays'
  BY <1>1, <1>9 DEF ReviewInv, EveryActPays, Paid, approvalVars
<1> QED
  BY <1>1, <1>4, <1>5, <1>6, <1>10 DEF ReviewInv, LeaseIsCurrent, reseedVars, sessionVars

\* The reseed's auth generation: every confirmation of the session that was pending
\* is expired, so what waits on one waits in vain, and the lease is gone.
LEMMA ReplaceKeeps ==
  ASSUME ReviewInv, ApprovalsInv, ApprovalsInv', GateStep, ReseedReplaces
  PROVE  ReviewInv'
<1>1. /\ InvalidateSession(Session) /\ lease' = NoLease /\ generation' = generation + 1
      /\ UNCHANGED <<controlled, version, ticketed, act, leased>>
      /\ ~controlled
  BY DEF ReseedReplaces, ReviewInv
<1>2. /\ NoLease \in Lease /\ NoLease.remaining = 0 /\ generation \in Nat
  BY DEF NoLease, Lease, ReviewInv, ReviewTypeOK
<1>3. ReviewTypeOK'
  BY <1>1, <1>2 DEF ReviewInv, ReviewTypeOK, ApprovalsInv, ApprovalsTypeOK
<1>4. \A b \in Acts : act[b].pc \in Waiting /\ act[b].plan = "token" => Stands(act[b])'
  <2> TAKE b \in Acts
  <2> SUFFICES ASSUME act[b].pc \in Waiting, act[b].plan = "token" PROVE Stands(act[b])'
    OBVIOUS
  <2>1. act[b].approval \in Request /\ Stands(act[b])
    BY DEF ReviewInv, ReviewTypeOK, TokensStand, Waiting
  <2>2. PICK q : q = act[b]
    OBVIOUS
  <2>3. /\ q.approval \in Request /\ q = act'[b] /\ q.token \in minted
        /\ q.approval.session = Session /\ q.approval.kind = "confirmation"
    BY <1>1, <2>1, <2>2 DEF Stands
  <2>4. ~(/\ q.token \in DOMAIN tokens' /\ tokens'[q.token].request = q.approval
          /\ tokens'[q.token].status = "pending")
    <3> SUFFICES ASSUME q.token \in DOMAIN tokens', tokens'[q.token].request = q.approval,
                        tokens'[q.token].status = "pending"
                 PROVE  FALSE
      OBVIOUS
    <3>1. Pending(q.token, q.approval)
      BY <2>3 DEF GateStep
    <3>2. q.token \in sessionIndex[Session]
      BY <2>3, <3>1, ReviewAssumption DEF Pending, ApprovalsInv, IndexMatchesTokens
    <3>3. tokens'[q.token] = [tokens[q.token] EXCEPT !.status = "expired"]
      BY <1>1, <2>3, <3>1, <3>2 DEF InvalidateSession, Pending
    <3>4. tokens[q.token] \in Token
      BY <3>1 DEF Pending, ApprovalsInv, ApprovalsTypeOK
    <3>5. tokens'[q.token].status = "expired"
      BY <3>3, <3>4 DEF Token
    <3> QED BY <3>5
  <2>5. minted \subseteq minted'
    BY DEF GateStep
  <2> QED
    BY <1>1, <2>3, <2>4, <2>5 DEF Stands, Pending
<1>5. TokensStand' /\ TicketsAreCurrent'
  BY <1>1, <1>4 DEF ReviewInv, TokensStand, TicketsAreCurrent
<1>6. EveryActPays'
  <2>1. leased'.spent + lease'.remaining <= leased'.granted
    BY <1>1, <1>2 DEF ReviewInv, ReviewTypeOK, EveryActPays, Lease
  <2> QED
    BY <1>1, <2>1 DEF ReviewInv, EveryActPays, Paid, GateStep
<1> QED
  BY <1>1, <1>2, <1>3, <1>5, <1>6 DEF ReviewInv, LeaseIsCurrent

-----------------------------------------------------------------------------
(* The theorems.                                                           *)

\* Acts, the operator and the reseed drive the gate as its callers may.
LEMMA ReviewDrives ==
  ASSUME ReviewInv, [ReviewNext]_reviewVars PROVE Drives
<1>1. ASSUME NEW a \in Acts, NEW request \in Request, RefuseWithToken(a, request) PROVE Drives
  BY <1>1 DEF RefuseWithToken, Drives
<1>2. ASSUME NEW a \in Acts, PrepareApproval(a) PROVE Drives
  <2>1. ApprovalRequest \in Request
    BY ApprovalRequestIs DEF ReviewInv
  <2>2. UNCHANGED approvalVars \/ RefuseWithToken(a, ApprovalRequest)
    BY <1>2 DEF PrepareApproval
  <2> QED BY <1>1, <2>1, <2>2 DEF Drives
<1>3. ASSUME NEW a \in Acts, Revalidate(a) PROVE Drives
  <2>1. act[a].approval \in Request
    BY <1>3 DEF Revalidate, ReviewInv, ReviewTypeOK
  <2>2. UNCHANGED approvalVars \/ RefuseWithToken(a, act[a].approval)
    BY <1>3 DEF Revalidate
  <2> QED BY <1>1, <2>1, <2>2 DEF Drives
<1>4. ASSUME NEW a \in Acts, Commit(a) PROVE Drives
  <2>1. act[a].approval \in Request
    BY <1>4, CommitFinds
  <2>2. \/ UNCHANGED approvalVars \/ RefuseWithToken(a, act[a].approval)
        \/ act[a].token \in DOMAIN tokens /\ Consume(act[a].token, act[a].approval)
    BY <1>4 DEF Commit, SpendToken, Valid
  <2> QED BY <1>1, <2>1, <2>2 DEF Drives
<1>5. ASSUME NEW a \in Acts,
             \/ \E request \in Requests, token \in minted \cup {NoToken} :
                  StartAct(a, request, token)
             \/ BindTarget(a) \/ BeforeAction(a) \/ Dispatch(a) \/ ActEnds(a)
      PROVE  Drives
  BY <1>5 DEF StartAct, BindTarget, BeforeAction, Dispatch, ActEnds, Drives
<1>6. CASE OperatorTakes \/ GrantLease \/ ReseedAuthorizes \/ ReseedSuspends \/ ReseedGivesUp
           \/ ReseedEnds
  BY <1>6
  DEF OperatorTakes, GrantLease, ReseedAuthorizes, ReseedSuspends, ReseedGivesUp, ReseedEnds,
      Drives
<1>7. CASE \E id \in DOMAIN tokens, decision \in Decisions : DecideToken(id, decision)
  BY <1>7 DEF DecideToken, Drives
<1>8. CASE ReseedReplaces
  BY <1>8 DEF ReseedReplaces, Drives
<1>9. CASE \E t \in 0..MaxTime : TimePasses(t)
  BY <1>9 DEF TimePasses, Drives
<1>10. CASE UNCHANGED reviewVars
  BY <1>10 DEF reviewVars, Drives
<1> QED
  BY <1>2, <1>3, <1>4, <1>5, <1>6, <1>7, <1>8, <1>9, <1>10 DEF ReviewNext

LEMMA ReviewStep ==
  ASSUME ReviewInv, ApprovalsInv, [ReviewNext]_reviewVars
  PROVE  ReviewInv' /\ ApprovalsInv' /\ [ApprovalsNext]_approvalVars
<1>1. Drives
  BY ReviewDrives
<1>2. ApprovalsInv' /\ GateStep /\ [ApprovalsNext]_approvalVars
  BY <1>1, DrivesTheGate, ApprovalsStep, GateKeeps
<1>3. ASSUME NEW a \in Acts, NEW request \in Requests, NEW token \in minted \cup {NoToken},
             StartAct(a, request, token)
      PROVE  ReviewInv'
  BY <1>2, <1>3, StartKeeps
<1>4. ASSUME NEW a \in Acts, BindTarget(a) PROVE ReviewInv'
  <2>1. \/ act' = [act EXCEPT ![a] = IdleCall]
        \/ act' = [act EXCEPT ![a] = [act[a] EXCEPT !.pc = "bound"]]
    BY <1>4 DEF BindTarget, Refuse, SetAct
  <2>2. UNCHANGED <<sessionVars, leaseVars, reseedVars>>
    BY <1>4 DEF BindTarget
  <2> QED BY <1>2, <2>1, <2>2, RefusedKeeps, PassageKeeps
<1>5. ASSUME NEW a \in Acts, BeforeAction(a) PROVE ReviewInv'
  <2>1. \/ act' = [act EXCEPT ![a] = IdleCall]
        \/ act' = [act EXCEPT ![a] = [act[a] EXCEPT !.pc = "admitted"]]
    BY <1>5 DEF BeforeAction, Refuse, SetAct
  <2>2. UNCHANGED <<sessionVars, leaseVars, reseedVars>>
    BY <1>5 DEF BeforeAction
  <2> QED BY <1>2, <2>1, <2>2, RefusedKeeps, PassageKeeps
<1>6. ASSUME NEW a \in Acts, Dispatch(a) PROVE ReviewInv'
  <2>1. \/ act' = [act EXCEPT ![a] = IdleCall]
        \/ act' = [act EXCEPT ![a] = [act[a] EXCEPT !.pc = "running"]]
    BY <1>6 DEF Dispatch, Refuse, SetAct
  <2>2. UNCHANGED <<sessionVars, leaseVars, reseedVars>> /\ act[a].pc = "paid"
    BY <1>6 DEF Dispatch
  <2> QED BY <1>2, <2>1, <2>2, RefusedKeeps, PassageKeeps
<1>7. ASSUME NEW a \in Acts, PrepareApproval(a) PROVE ReviewInv'
  BY <1>2, <1>7, PrepareKeeps
<1>8. ASSUME NEW a \in Acts, Revalidate(a) PROVE ReviewInv'
  BY <1>2, <1>8, RevalidateKeeps
<1>9. ASSUME NEW a \in Acts, Commit(a) PROVE ReviewInv'
  BY <1>2, <1>9, CommitKeeps
<1>10. ASSUME NEW a \in Acts, ActEnds(a) PROVE ReviewInv'
  BY <1>2, <1>10, EndKeeps
<1>11. CASE OperatorTakes
  BY <1>2, <1>11, TakesKeeps
<1>12. CASE \E id \in DOMAIN tokens, decision \in Decisions : DecideToken(id, decision)
  BY <1>2, <1>12, ActsRest DEF DecideToken, sessionVars, reseedVars, ReviewInv
<1>13. CASE GrantLease
  BY <1>2, <1>13, GrantKeeps
<1>14. CASE ReseedAuthorizes \/ ReseedSuspends \/ ReseedGivesUp \/ ReseedEnds
  BY <1>2, <1>14, ActsRest
  DEF ReseedAuthorizes, ReseedSuspends, ReseedGivesUp, ReseedEnds, sessionVars, ReviewInv
<1>15. CASE ReseedReplaces
  BY <1>2, <1>15, ReplaceKeeps
<1>16. CASE \E t \in 0..MaxTime : TimePasses(t)
  BY <1>2, <1>16, ActsRest DEF TimePasses, sessionVars, reseedVars, ReviewInv
<1>17. CASE UNCHANGED reviewVars
  BY <1>2, <1>17, ActsRest DEF reviewVars, sessionVars, reseedVars, ReviewInv
<1> QED
  BY <1>2, <1>3, <1>4, <1>5, <1>6, <1>7, <1>8, <1>9, <1>10, <1>11, <1>12, <1>13, <1>14, <1>15,
     <1>16, <1>17
  DEF ReviewNext

LEMMA ReviewStarts == ReviewInit => ReviewInv /\ ApprovalsInv
<1> SUFFICES ASSUME ReviewInit PROVE ReviewInv /\ ApprovalsInv
  OBVIOUS
<1>1. ApprovalsInv
  BY ApprovalsStart DEF ReviewInit
<1>2. /\ act = [a \in Acts |-> IdleCall] /\ controlled \in BOOLEAN /\ lease = NoLease
      /\ leased = [granted |-> 0, spent |-> 0] /\ reseed = "none" /\ generation = 0
  BY DEF ReviewInit
<1>3. version \in Versions
  BY ReviewAssumption DEF ReviewInit
<1>4. \A a \in Acts : act[a].pc = "idle"
  BY <1>2, IdleIs
<1>5. ReviewTypeOK
  BY <1>1, <1>2, <1>3, <1>4, IdleIs
  DEF ReviewTypeOK, NoLease, Lease, ApprovalsInv, ApprovalsTypeOK
<1>6. EveryActPays
  <2>1. {a \in Acts : Paid(a) /\ act[a].plan = "lease"} = {}
    BY <1>4 DEF Paid
  <2>2. Cardinality({a \in Acts : Paid(a) /\ act[a].plan = "lease"}) = 0
    BY <2>1, FS_EmptySet
  <2> QED
    BY <1>2, <1>4, <2>2 DEF EveryActPays, Paid, NoLease
<1> QED
  BY <1>1, <1>2, <1>4, <1>5, <1>6
  DEF ReviewInv, TokensStand, TicketsAreCurrent, LeaseIsCurrent, NoLease, Waiting

\* Every reachable state of the acts and of the gate they spend tokens of.
THEOREM ReviewInvariant == ReviewSpec => [](ReviewInv /\ ApprovalsInv)
<1>1. (ReviewInv /\ ApprovalsInv) /\ [ReviewNext]_reviewVars => (ReviewInv /\ ApprovalsInv)'
  BY ReviewStep
<1> QED
  BY <1>1, ReviewStarts, PTL DEF ReviewSpec

\* The acts use the gate as a caller may: every promise of the gate holds of them.
THEOREM ActsUseTheGate == ReviewSpec => ApprovalsSpec
<1>1. ReviewInit => ApprovalsInit
  BY DEF ReviewInit
<1>2. (ReviewInv /\ ApprovalsInv) /\ [ReviewNext]_reviewVars => [ApprovalsNext]_approvalVars
  BY ReviewStep
<1> QED
  BY <1>1, <1>2, ReviewInvariant, PTL DEF ReviewSpec, ApprovalsSpec

\* What a step finds at the two places the promise is about.
LEMMA PayingAndRunning ==
  ASSUME ReviewInv, ApprovalsInv, [ReviewNext]_reviewVars, NEW a \in Acts
  PROVE  /\ act[a].pc = "paid" /\ act'[a].pc = "running" /\ controlled =>
              act[a].version = version
         /\ ~Paid(a) /\ act[a].plan \in {"token", "lease"} /\ act'[a].pc = "paid" =>
              act'[a].generation = generation
<1> DEFINE P == /\ act[a].pc = "paid" /\ act'[a].pc = "running" /\ controlled =>
                     act[a].version = version
                /\ ~Paid(a) /\ act[a].plan \in {"token", "lease"} /\ act'[a].pc = "paid" =>
                     act'[a].generation = generation
<1>1. act \in [Acts -> Call]
  BY DEF ReviewInv, ReviewTypeOK
<1>2. ASSUME act'[a] = act[a] PROVE P
  BY <1>2 DEF Paid
<1>3. ASSUME act'[a].pc \notin {"paid", "running"} PROVE P
  BY <1>3
<1>4. ASSUME act[a].pc # "paid", act'[a].pc # "paid" PROVE P
  BY <1>4
<1>5. ASSUME NEW b \in Acts, NEW c, act' = [act EXCEPT ![b] = c] PROVE
        act'[b] = c /\ (a # b => P)
  BY <1>1, <1>2, <1>5
<1>6. ASSUME NEW b \in Acts, act' = [act EXCEPT ![b] = IdleCall] PROVE P
  BY <1>3, <1>5, <1>6, IdleIs
<1>7. ASSUME NEW b \in Acts, NEW pc \in CallPlaces \ {"paid", "running"},
             act' = [act EXCEPT ![b] = [act[b] EXCEPT !.pc = pc]]
      PROVE  P
  <2>1. [act[b] EXCEPT !.pc = pc].pc = pc
    BY <1>1, CallFields
  <2> QED BY <1>3, <1>5, <1>7, <2>1
<1>8. ASSUME NEW b \in Acts, NEW request \in Requests, NEW token \in minted \cup {NoToken},
             StartAct(b, request, token)
      PROVE  P
  <2> DEFINE c == [IdleCall EXCEPT !.pc = "started", !.request = request, !.token = token]
  <2>1. c.pc = "started"
    BY DEF IdleCall
  <2>2. act' = [act EXCEPT ![b] = c]
    BY <1>8 DEF StartAct, SetAct
  <2> HIDE DEF c
  <2> QED BY <1>3, <1>5, <2>1, <2>2
<1>9. ASSUME NEW b \in Acts, BindTarget(b) PROVE P
  <2>1. \/ act' = [act EXCEPT ![b] = IdleCall]
        \/ act' = [act EXCEPT ![b] = [act[b] EXCEPT !.pc = "bound"]]
    BY <1>9 DEF BindTarget, Refuse, SetAct
  <2> QED BY <1>6, <1>7, <2>1 DEF CallPlaces
<1>10. ASSUME NEW b \in Acts, BeforeAction(b) PROVE P
  <2>1. \/ act' = [act EXCEPT ![b] = IdleCall]
        \/ act' = [act EXCEPT ![b] = [act[b] EXCEPT !.pc = "admitted"]]
    BY <1>10 DEF BeforeAction, Refuse, SetAct
  <2> QED BY <1>6, <1>7, <2>1 DEF CallPlaces
<1>11. ASSUME NEW b \in Acts, PrepareApproval(b) PROVE P
  <2> DEFINE planned == PlanFor(act[b].request)
             c == [act[b] EXCEPT !.pc = "prepared", !.plan = planned, !.version = version,
                                 !.approval = ApprovalRequest, !.generation = generation]
  <2>1. act' = [act EXCEPT ![b] = IdleCall] \/ act' = [act EXCEPT ![b] = c]
    BY <1>11 DEF PrepareApproval, RefuseWithToken, Refuse, SetAct
  <2>2. c.pc = "prepared"
    <3> HIDE DEF planned
    <3> QED BY <1>1 DEF Call
  <2> HIDE DEF c
  <2> QED BY <1>3, <1>5, <1>6, <2>1, <2>2
<1>12. ASSUME NEW b \in Acts, Revalidate(b) PROVE P
  <2>1. \/ act' = [act EXCEPT ![b] = IdleCall]
        \/ act' = [act EXCEPT ![b] = [act[b] EXCEPT !.pc = "revalidated"]]
    BY <1>12 DEF Revalidate, RefuseWithToken, Refuse, SetAct
  <2> QED BY <1>6, <1>7, <2>1 DEF CallPlaces
<1>13. ASSUME NEW b \in Acts, Commit(b) PROVE P
  <2>1. \E c : act' = [act EXCEPT ![b] = c]
    BY <1>13 DEF Commit, SpendLease, SpendToken, RefuseWithToken, Refuse, SetAct
  <2>2. CASE a = b
    <3>1. act[a].pc # "paid"
      BY <1>13, <2>2, CommitFinds DEF Waiting
    <3>2. ApprovalsInv' /\ GateStep
      BY ReviewDrives, DrivesTheGate, ApprovalsStep, GateKeeps
    <3> QED BY <1>13, <2>2, <3>1, <3>2, CommitKeeps
  <2> QED BY <1>5, <2>1, <2>2
<1>14. ASSUME NEW b \in Acts, Dispatch(b) PROVE P
  <2>1. CASE Asserted(b)
    <3>1. act' = [act EXCEPT ![b] = [act[b] EXCEPT !.pc = "running"]] /\ act[b].pc = "paid"
      BY <1>14, <2>1 DEF Dispatch, SetAct
    <3>2. [act[b] EXCEPT !.pc = "running"].pc = "running"
      BY <1>1, CallFields DEF CallPlaces
    <3>3. controlled => act[b].version = version
      BY <2>1, <3>1 DEF Asserted, ReviewInv, TicketsAreCurrent
    <3>4. act'[b].pc = "running"
      BY <1>5, <3>1, <3>2
    <3> QED BY <1>5, <3>1, <3>3, <3>4
  <2>2. CASE ~Asserted(b)
    BY <1>6, <1>14, <2>2 DEF Dispatch, Refuse, SetAct
  <2> QED BY <2>1, <2>2
<1>15. ASSUME NEW b \in Acts, ActEnds(b) PROVE P
  <2> DEFINE c == [IdleCall EXCEPT !.pc = "done", !.plan = act[b].plan, !.token = act[b].token]
  <2>1. c.pc = "done"
    BY DEF IdleCall
  <2>2. act' = [act EXCEPT ![b] = c]
    BY <1>15 DEF ActEnds, SetAct
  <2> HIDE DEF c
  <2> QED BY <1>3, <1>5, <2>1, <2>2
<1>16. ASSUME act' = act PROVE P
  BY <1>2, <1>16
<1>17. CASE OperatorTakes \/ GrantLease \/ ReseedAuthorizes \/ ReseedSuspends \/ ReseedGivesUp
            \/ ReseedReplaces \/ ReseedEnds
  BY <1>16, <1>17
  DEF OperatorTakes, GrantLease, ReseedAuthorizes, ReseedSuspends, ReseedGivesUp,
      ReseedReplaces,
      ReseedEnds
<1>18. CASE \/ \E id \in DOMAIN tokens, decision \in Decisions : DecideToken(id, decision)
            \/ \E t \in 0..MaxTime : TimePasses(t)
            \/ UNCHANGED reviewVars
  BY <1>16, <1>18 DEF DecideToken, TimePasses, reviewVars
<1> QED
  BY <1>8, <1>9, <1>10, <1>11, <1>12, <1>13, <1>14, <1>15, <1>17, <1>18 DEF ReviewNext

\* An act reaches the page only in the context it was decided in (execute).
THEOREM ActsAreCurrent == ReviewSpec => ReviewedActIsCurrent
<1>1. ReviewInv /\ ApprovalsInv /\ [ReviewNext]_reviewVars =>
        [\A a \in Acts :
           act[a].pc = "paid" /\ act'[a].pc = "running" /\ controlled
             => act[a].version = version]_reviewVars
  BY PayingAndRunning
<1> QED
  BY <1>1, ReviewInvariant, PTL DEF ReviewSpec, ReviewedActIsCurrent

\* Authority of before a reseed pays for nothing after it (reseedSession).
THEOREM OldAuthorityIsDead == ReviewSpec => OldAuthorityPaysNothing
<1>1. ReviewInv /\ ApprovalsInv /\ [ReviewNext]_reviewVars =>
        [\A a \in Acts :
           /\ ~Paid(a) /\ act[a].plan \in {"token", "lease"}
           /\ act'[a].pc = "paid"
           => act'[a].generation = generation]_reviewVars
  BY PayingAndRunning
<1> QED
  BY <1>1, ReviewInvariant, PTL DEF ReviewSpec, OldAuthorityPaysNothing

\* The whole promise of a reviewed act, for any number of acts that overlap.
THEOREM ReviewKept == ReviewSpec => ActIsReviewed
<1>1. ReviewInv => EveryActPays
  BY DEF ReviewInv
<1>2. ReviewSpec => []EveryActPays
  BY <1>1, ReviewInvariant, PTL
<1> QED
  BY <1>2, ActsAreCurrent, OldAuthorityIsDead DEF ActIsReviewed

-----------------------------------------------------------------------------
(* Application outcomes.                                                   *)

Polled == {"polling", "reading", "inspecting", "evaluating"}

\* What an operation of each kind has come to in each phase.
SubmitFits(o) ==
  /\ o.phase \in {"admitted", "consuming", "marking", "running", "publishing", "done"}
  /\ o.verification = "unknown"
  /\ o.phase # "done" => ~o.released

OutcomeFits(o) ==
  /\ o.phase \in {"admitted", "executing", "cleaning", "done"} \cup Polled
  /\ o.phase = "admitted" => o.execution = "not_started"
  /\ o.phase = "executing" <=> o.execution = "running"
  /\ o.phase \in Polled => o.execution = "completed"
  /\ o.dispatched => o.execution \in {"running", "completed", "unknown"}
  /\ o.verification # "unknown" => o.execution = "completed"
  /\ o.phase \in Polled => o.verification = "unknown"
  /\ o.phase = "done" =>
       /\ o.cleaned
       /\ o.revoked => o.availability # "available" /\ o.verification = "unknown" /\ ~o.released

OperationFits(o) ==
  /\ o.kind = "none" <=> o.phase = "idle"
  /\ o.kind = "submit" => SubmitFits(o)
  /\ o.kind = "outcome" => OutcomeFits(o)

OutcomeInv == OutcomeTypeOK /\ OperationFits(op)

USE DEF Polled

LEMMA OutcomeInitial == OutcomeInit => OutcomeInv
  BY OutcomeAssumption
     DEF OutcomeInit, OutcomeInv, OutcomeTypeOK, OperationFits, NoOperation, Operation

\* The host, the binding and the policy move; the operation is only told of a takeover
\* or a cancellation.
LEMMA EnvironmentKeeps ==
  ASSUME OutcomeInv,
         \/ Register \/ Unregister \/ Takeover \/ Delegate \/ Bind \/ Unbind \/ PolicyChanges
         \/ Cancel
  PROVE  OutcomeInv' /\ EntitledStep
<1>1. /\ session' \in 0 .. made' /\ made' \in Nat /\ binds' \in Nat /\ binding' \in 0 .. binds'
      /\ state' \in {"human", "agent", "pausing"} /\ permits' \in BOOLEAN
  <2> USE DEF OutcomeInv, OutcomeTypeOK
  <2>1. CASE Register
    BY <2>1 DEF Register
  <2>2. CASE Unregister
    BY <2>2 DEF Unregister
  <2>3. CASE Takeover
    BY <2>3 DEF Takeover
  <2>4. CASE Bind
    BY <2>4 DEF Bind
  <2>5. CASE Delegate \/ Unbind \/ Cancel
    BY <2>5 DEF Delegate, Unbind, Cancel, Environment
  <2>6. CASE PolicyChanges
    <3>1. permits' \in BOOLEAN
      BY <2>6, Zenon DEF PolicyChanges
    <3> QED BY <2>6, <3>1 DEF PolicyChanges
  <2> QED BY <2>1, <2>2, <2>3, <2>4, <2>5, <2>6
<1>2. PICK lost, cancelled \in BOOLEAN :
        op' = [op EXCEPT !.lost = lost, !.cancelled = cancelled]
  <2>1. CASE Takeover
    <3>1. op' = [op EXCEPT !.lost = Occupied /\ (op.lost \/ op.inc = session),
                           !.cancelled = op.cancelled]
      BY <2>1 DEF Takeover, OutcomeInv, OutcomeTypeOK, Operation
    <3> QED BY <3>1 DEF OutcomeInv, OutcomeTypeOK, Operation
  <2>2. CASE Cancel
    <3>1. op' = [op EXCEPT !.lost = op.lost, !.cancelled = TRUE]
      BY <2>2 DEF Cancel, OutcomeInv, OutcomeTypeOK, Operation
    <3> QED BY <3>1 DEF OutcomeInv, OutcomeTypeOK, Operation
  <2>3. CASE op' = op
    <3>1. op' = [op EXCEPT !.lost = op.lost, !.cancelled = op.cancelled]
      BY <2>3 DEF OutcomeInv, OutcomeTypeOK, Operation
    <3> QED BY <3>1 DEF OutcomeInv, OutcomeTypeOK, Operation
  <2> QED BY <2>1, <2>2, <2>3 DEF Register, Unregister, Delegate, Bind, Unbind, PolicyChanges
<1>3. op' \in Operation
  BY <1>2 DEF OutcomeInv, OutcomeTypeOK, Operation
<1>4. /\ op'.kind = op.kind /\ op'.phase = op.phase /\ op'.verification = op.verification
      /\ op'.released = op.released /\ op'.execution = op.execution
      /\ op'.dispatched = op.dispatched /\ op'.cleaned = op.cleaned
      /\ op'.revoked = op.revoked /\ op'.availability = op.availability
  BY <1>2 DEF OutcomeInv, OutcomeTypeOK, Operation
<1>5. OperationFits(op)' /\ EntitledStep
  BY <1>4 DEF OutcomeInv, OperationFits, SubmitFits, OutcomeFits, EntitledStep
<1> QED BY <1>1, <1>3, <1>5 DEF OutcomeInv, OutcomeTypeOK

LEMMA BeginKeeps ==
  ASSUME OutcomeInv, NEW kind \in {"submit", "outcome"}, Begin(kind)
  PROVE  OutcomeInv' /\ EntitledStep
<1>1. session \in Nat /\ binding \in Nat
  BY DEF OutcomeInv, OutcomeTypeOK
<1>2. op' = [kind |-> kind, phase |-> "admitted", inc |-> session, bind |-> binding,
             lost |-> FALSE, cancelled |-> FALSE, revoked |-> FALSE, dispatched |-> FALSE,
             reads |-> 0, cleaned |-> FALSE, released |-> FALSE, availability |-> "available",
             execution |-> "not_started", verification |-> "unknown"]
  <2>1. op' = [NoOperation EXCEPT !.kind = kind, !.phase = "admitted",
                                  !.inc = session, !.bind = binding]
    BY DEF Begin
  <2> QED BY <2>1 DEF NoOperation
<1>3. op' \in Operation
  BY <1>1, <1>2, OutcomeAssumption DEF Operation
<1>4. OperationFits(op)'
  BY <1>2 DEF OperationFits, SubmitFits, OutcomeFits
<1>5. EntitledStep
  BY <1>2 DEF EntitledStep
<1> QED BY <1>3, <1>4, <1>5 DEF OutcomeInv, OutcomeTypeOK, Begin, Environment

\* A protected write, from its review to its publication.
LEMMA SubmitKeeps ==
  ASSUME OutcomeInv,
         \/ Prepare \/ Marked \/ Settled \/ Publish
         \/ \E agreed, journaled \in BOOLEAN : Consumed(agreed, journaled)
  PROVE  OutcomeInv' /\ EntitledStep
<1>1. op.kind = "submit" /\ op.phase # "done" /\ UNCHANGED Environment
  BY DEF Prepare, Marked, Settled, Publish, Consumed
<1>2. Access \in BOOLEAN /\ (Access => Entitled)
  BY DEF Access, OutcomeInv, OutcomeTypeOK, Operation, Entitled, Owns
<1>3. \E phase \in {"consuming", "marking", "running", "publishing", "done"},
         revoked, dispatched, released \in BOOLEAN :
        /\ op' = [op EXCEPT !.phase = phase, !.revoked = revoked, !.dispatched = dispatched,
                            !.released = released]
        /\ dispatched => op.dispatched \/ Access
        /\ released => phase = "done" /\ Access
  <2>1. op.revoked \in BOOLEAN /\ op.dispatched \in BOOLEAN /\ op.released = FALSE
    BY <1>1 DEF OutcomeInv, OutcomeTypeOK, Operation, OperationFits, SubmitFits
  <2>2. CASE op' = [op EXCEPT !.phase = "done", !.revoked = TRUE]
    <3>1. op' = [op EXCEPT !.phase = "done", !.revoked = TRUE, !.dispatched = op.dispatched,
                           !.released = FALSE]
      BY <2>1, <2>2 DEF OutcomeInv, OutcomeTypeOK, Operation
    <3> QED BY <3>1, <2>1
  <2>3. CASE op' = [op EXCEPT !.phase = "done", !.revoked = ~Access]
    <3>1. op' = [op EXCEPT !.phase = "done", !.revoked = ~Access, !.dispatched = op.dispatched,
                           !.released = FALSE]
      BY <2>1, <2>3 DEF OutcomeInv, OutcomeTypeOK, Operation
    <3> QED BY <3>1, <2>1
  <2>4. CASE Access /\ op' = [op EXCEPT !.phase = "running", !.dispatched = TRUE]
    <3>1. op' = [op EXCEPT !.phase = "running", !.revoked = op.revoked, !.dispatched = TRUE,
                           !.released = FALSE]
      BY <2>1, <2>4 DEF OutcomeInv, OutcomeTypeOK, Operation
    <3> QED BY <3>1, <2>1, <2>4
  <2>5. CASE \E phase \in {"consuming", "marking", "publishing"} :
               op' = [op EXCEPT !.phase = phase]
    <3>1. PICK phase \in {"consuming", "marking", "publishing"} : op' = [op EXCEPT !.phase = phase]
      BY <2>5
    <3>2. op' = [op EXCEPT !.phase = phase, !.revoked = op.revoked, !.dispatched = op.dispatched,
                           !.released = FALSE]
      BY <2>1, <3>1 DEF OutcomeInv, OutcomeTypeOK, Operation
    <3> QED BY <3>2, <2>1
  <2>6. CASE op' = [op EXCEPT !.phase = "done", !.released = Access, !.revoked = ~Access]
    <3>1. op' = [op EXCEPT !.phase = "done", !.revoked = ~Access, !.dispatched = op.dispatched,
                           !.released = Access]
      BY <2>1, <2>6 DEF OutcomeInv, OutcomeTypeOK, Operation
    <3> QED BY <3>1, <2>1, <1>2
  <2>7. CASE Prepare
    BY <2>7, <2>2, <2>5 DEF Prepare, RefuseOperation
  <2>8. CASE Marked
    BY <2>8, <2>2, <2>4 DEF Marked, RefuseOperation
  <2>9. CASE \E agreed, journaled \in BOOLEAN : Consumed(agreed, journaled)
    <3>1. PICK agreed, journaled \in BOOLEAN : Consumed(agreed, journaled)
      BY <2>9
    <3>2. CASE ~agreed \/ ~Access
      BY <3>1, <3>2, <2>3 DEF Consumed
    <3>3. CASE agreed /\ Access /\ journaled
      <4>1. op' = [op EXCEPT !.phase = "marking"]
        BY <3>1, <3>3 DEF Consumed
      <4> QED BY <4>1, <2>5
    <3>4. CASE agreed /\ Access /\ ~journaled
      BY <3>1, <3>4, <2>4 DEF Consumed
    <3> QED BY <3>2, <3>3, <3>4
  <2> QED BY <2>5, <2>6, <2>7, <2>8, <2>9 DEF Settled, Publish
<1>4. PICK phase \in {"consuming", "marking", "running", "publishing", "done"},
           revoked, dispatched, released \in BOOLEAN :
        /\ op' = [op EXCEPT !.phase = phase, !.revoked = revoked, !.dispatched = dispatched,
                            !.released = released]
        /\ dispatched => op.dispatched \/ Access
        /\ released => phase = "done" /\ Access
  BY <1>3
<1>5. op' \in Operation
  BY ZenonT(60), <1>4 DEF OutcomeInv, OutcomeTypeOK, Operation
<1>6. OperationFits(op)'
  BY <1>1, <1>4 DEF OutcomeInv, OutcomeTypeOK, Operation, OperationFits, SubmitFits
<1>7. EntitledStep
  BY <1>1, <1>2, <1>4
     DEF OutcomeInv, OutcomeTypeOK, Operation, OperationFits, SubmitFits, EntitledStep
<1> QED BY <1>1, <1>5, <1>6, <1>7 DEF OutcomeInv, OutcomeTypeOK, Environment

\* A verified outcome, up to its cleanup: each step leaves the facts of the phase it
\* moves to. Nothing is handed out here.
OutcomeStep ==
  \/ \E source \in {"none", "unmatched", "matched"} : Available(source)
  \/ Dispatches
  \/ \E how \in {"returned", "reported", "threw"} : Executed(how)
  \/ \E timeLeft \in BOOLEAN : Poll(timeLeft)
  \/ \E returned \in BOOLEAN : Fetched(returned)
  \/ \E found \in {"nothing", "evidence", "malformed"} : Inspected(found)
  \/ \E verdict \in {"passed", "failed", "unknown"} : Evaluated(verdict)
  \/ ReadTimesOut \/ CleansUp

LEMMA AvailableKeeps ==
  ASSUME OutcomeInv, NEW source \in {"none", "unmatched", "matched"}, Available(source)
  PROVE  op' \in Operation /\ OperationFits(op)' /\ op'.phase # "done"
<1>1. op.kind = "outcome" /\ op.phase = "admitted" /\ op \in Operation /\ OutcomeFits(op)
  BY DEF Available, OutcomeInv, OutcomeTypeOK, OperationFits
<1>2. \/ op' = [op EXCEPT !.availability = "unsupported", !.phase = "cleaning"]
      \/ op' = [op EXCEPT !.availability = "blocked", !.phase = "cleaning",
                          !.revoked = ~op.cancelled]
      \/ op' = [op EXCEPT !.execution = "running", !.phase = "executing"]
  BY Zenon DEF Available
<1>3. CASE op' = [op EXCEPT !.execution = "running", !.phase = "executing"]
  BY <1>1, <1>3 DEF Operation, OperationFits, OutcomeFits
<1>4. CASE op' = [op EXCEPT !.availability = "unsupported", !.phase = "cleaning"]
  BY <1>1, <1>4 DEF Operation, OperationFits, OutcomeFits
<1>5. CASE op' = [op EXCEPT !.availability = "blocked", !.phase = "cleaning",
                            !.revoked = ~op.cancelled]
  BY ZenonT(60), <1>1, <1>5 DEF Operation, OperationFits, OutcomeFits
<1> QED BY <1>2, <1>3, <1>4, <1>5

LEMMA ExecutedKeeps ==
  ASSUME OutcomeInv, NEW how \in {"returned", "reported", "threw"}, Executed(how)
  PROVE  op' \in Operation /\ OperationFits(op)' /\ op'.phase # "done"
<1>1. op.kind = "outcome" /\ op.phase = "executing" /\ op \in Operation /\ OutcomeFits(op)
  BY DEF Executed, OutcomeInv, OutcomeTypeOK, OperationFits
<1>2. Access \in BOOLEAN /\ Latch \in BOOLEAN
  BY <1>1 DEF Latch, Access, Operation
<1> DEFINE execution == IF how = "returned" /\ Access THEN "completed" ELSE Unfinished
           revoked == IF how = "threw" THEN op.revoked ELSE Latch
           phase == IF how = "returned" /\ Access THEN "polling" ELSE "cleaning"
           released == how # "threw" /\ Access
<1>3. op' = [op EXCEPT !.execution = execution, !.released = released, !.revoked = revoked,
                       !.phase = phase]
  BY DEF Executed
<1>4. /\ execution \in {"completed", "unknown", "failed"} /\ (op.dispatched => execution # "failed")
      /\ phase \in {"polling", "cleaning"} /\ (phase = "polling" => execution = "completed")
      /\ revoked \in BOOLEAN /\ released \in BOOLEAN
  BY <1>1, <1>2 DEF Unfinished, Operation
<1>5. op.verification = "unknown"
  BY <1>1 DEF OutcomeFits
<1> HIDE DEF execution, revoked, phase, released
<1> QED BY ZenonT(60), <1>1, <1>3, <1>4, <1>5 DEF Operation, OperationFits, OutcomeFits

LEMMA ReadsKeep ==
  ASSUME OutcomeInv,
         \/ \E timeLeft \in BOOLEAN : Poll(timeLeft)
         \/ \E returned \in BOOLEAN : Fetched(returned)
         \/ \E found \in {"nothing", "evidence", "malformed"} : Inspected(found)
         \/ \E verdict \in {"passed", "failed", "unknown"} : Evaluated(verdict)
         \/ ReadTimesOut
  PROVE  op' \in Operation /\ OperationFits(op)' /\ op'.phase # "done"
<1>1. op.kind = "outcome" /\ op.phase \in Polled /\ op \in Operation /\ OutcomeFits(op)
  BY DEF Poll, Fetched, Inspected, Evaluated, ReadTimesOut, OutcomeInv, OutcomeTypeOK,
         OperationFits
<1>2. Access \in BOOLEAN /\ Latch \in BOOLEAN
  BY <1>1 DEF Latch, Access, Operation
<1>3. \/ op' = [op EXCEPT !.phase = "cleaning"]
      \/ op' = [op EXCEPT !.phase = "reading", !.reads = op.reads + 1] /\ op.reads # MaxReads
      \/ op' = [op EXCEPT !.phase = "cleaning", !.revoked = TRUE]
      \/ op' = [op EXCEPT !.phase = "inspecting"]
      \/ op' = [op EXCEPT !.phase = "cleaning", !.revoked = Latch]
      \/ op' = [op EXCEPT !.phase = "polling"]
      \/ op' = [op EXCEPT !.phase = "evaluating"]
      \/ \E verdict \in {"passed", "failed", "unknown"} :
           op' = [op EXCEPT !.phase = "cleaning", !.revoked = Latch,
                            !.verification = IF op.cancelled THEN "unknown" ELSE verdict]
  <2>1. ASSUME NEW timeLeft \in BOOLEAN, Poll(timeLeft) PROVE <1>3!1 \/ <1>3!2 \/ <1>3!3
    BY <2>1 DEF Poll
  <2>2. ASSUME NEW returned \in BOOLEAN, Fetched(returned) PROVE <1>3!4 \/ <1>3!5
    BY <2>2 DEF Fetched
  <2>3. ASSUME NEW found \in {"nothing", "evidence", "malformed"}, Inspected(found)
        PROVE  <1>3!5 \/ <1>3!6 \/ <1>3!7
    BY <2>3, Zenon DEF Inspected
  <2>4. ASSUME NEW verdict \in {"passed", "failed", "unknown"}, Evaluated(verdict)
        PROVE  <1>3!8
    BY <2>4 DEF Evaluated
  <2> QED BY <2>1, <2>2, <2>3, <2>4 DEF ReadTimesOut
<1> HIDE DEF Latch, Access
<1>4. PICK phase \in Polled \cup {"cleaning"}, revoked \in BOOLEAN, reads \in 0 .. MaxReads,
           verification \in {"unknown", "passed", "failed"} :
        /\ op' = [op EXCEPT !.phase = phase, !.revoked = revoked, !.reads = reads,
                            !.verification = verification]
        /\ phase # "cleaning" => verification = "unknown"
  <2>1. op.revoked \in BOOLEAN /\ op.reads \in 0 .. MaxReads /\ op.verification = "unknown"
    BY <1>1 DEF Operation, OutcomeFits
  <2>2. CASE <1>3!8
    <3>1. PICK verdict \in {"passed", "failed", "unknown"} :
            op' = [op EXCEPT !.phase = "cleaning", !.revoked = Latch,
                             !.verification = IF op.cancelled THEN "unknown" ELSE verdict]
      BY <2>2
    <3> DEFINE verification == IF op.cancelled THEN "unknown" ELSE verdict
    <3>2. verification \in {"unknown", "passed", "failed"}
      OBVIOUS
    <3>3. op' = [op EXCEPT !.phase = "cleaning", !.revoked = Latch, !.verification = verification]
      BY <3>1
    <3> HIDE DEF verification
    <3>4. op' = [op EXCEPT !.phase = "cleaning", !.revoked = Latch, !.reads = op.reads,
                           !.verification = verification]
      BY <1>1, <3>3 DEF Operation
    <3> QED BY <1>2, <2>1, <3>2, <3>4
  <2>3. CASE <1>3!2
    <3>1. op' = [op EXCEPT !.phase = "reading", !.revoked = op.revoked, !.reads = op.reads + 1,
                           !.verification = "unknown"]
      BY <1>1, <2>1, <2>3 DEF Operation
    <3>2. op.reads + 1 \in 0 .. MaxReads
      BY <2>1, <2>3, OutcomeAssumption
    <3> QED BY <2>1, <3>1, <3>2
  <2>4. CASE <1>3!3 \/ <1>3!5
    <3>1. PICK revoked \in BOOLEAN : op' = [op EXCEPT !.phase = "cleaning", !.revoked = revoked]
      BY <1>2, <2>4
    <3>2. op' = [op EXCEPT !.phase = "cleaning", !.revoked = revoked, !.reads = op.reads,
                           !.verification = "unknown"]
      BY <1>1, <2>1, <3>1 DEF Operation
    <3> QED BY <2>1, <3>2
  <2>5. CASE \E phase \in Polled \cup {"cleaning"} : op' = [op EXCEPT !.phase = phase]
    <3>1. PICK phase \in Polled \cup {"cleaning"} : op' = [op EXCEPT !.phase = phase]
      BY <2>5
    <3>2. op' = [op EXCEPT !.phase = phase, !.revoked = op.revoked, !.reads = op.reads,
                           !.verification = "unknown"]
      BY <1>1, <2>1, <3>1 DEF Operation
    <3> QED BY <2>1, <3>2
  <2> QED BY <1>3, <2>2, <2>3, <2>4, <2>5
<1>5. op' \in Operation
  BY ZenonT(60), <1>1, <1>4 DEF Operation
<1>6. op.execution = "completed"
  BY <1>1 DEF OutcomeFits
<1> QED BY <1>1, <1>4, <1>5, <1>6 DEF Operation, OperationFits, OutcomeFits

LEMMA OutcomeKeeps ==
  ASSUME OutcomeInv, OutcomeStep
  PROVE  OutcomeInv' /\ EntitledStep
<1>1. op.kind = "outcome" /\ UNCHANGED Environment
  BY DEF OutcomeStep, Available, Dispatches, Executed, Poll, Fetched, Inspected, Evaluated,
         ReadTimesOut, CleansUp
<1>2. op' \in Operation /\ OperationFits(op)' /\ op'.phase # "done"
  <2>1. CASE Dispatches \/ CleansUp
    BY ZenonT(60), <2>1 DEF Dispatches, CleansUp, OutcomeInv, OutcomeTypeOK, Operation, OperationFits,
                OutcomeFits
  <2> QED BY <2>1, AvailableKeeps, ExecutedKeeps, ReadsKeep DEF OutcomeStep
<1> QED BY <1>1, <1>2 DEF OutcomeInv, OutcomeTypeOK, Environment, EntitledStep

\* The final fence: the one place an outcome is handed out.
LEMMA ProjectKeeps ==
  ASSUME OutcomeInv, Project
  PROVE  OutcomeInv' /\ EntitledStep
<1>1. /\ op.kind = "outcome" /\ op.phase = "cleaning" /\ op.cleaned
      /\ op \in Operation /\ OutcomeFits(op) /\ UNCHANGED Environment
  BY DEF Project, OutcomeInv, OutcomeTypeOK, OperationFits
<1>2. Access \in BOOLEAN /\ Latch \in BOOLEAN /\ (Access => Entitled /\ ~op.revoked)
  BY <1>1 DEF Latch, Access, Operation
<1>3. CASE op.cancelled \/ ~Access
  <2> DEFINE revoked == IF op.cancelled THEN Latch ELSE TRUE
             execution == IF op.execution = "not_started" THEN "not_started" ELSE Unfinished
  <2>1. op' = [op EXCEPT !.availability = "blocked", !.verification = "unknown",
                         !.released = FALSE, !.revoked = revoked, !.execution = execution,
                         !.phase = "done"]
    BY <1>1, <1>3 DEF Project, Fence, Operation
  <2>2. /\ revoked \in BOOLEAN /\ execution \in {"not_started", "unknown", "failed"}
        /\ op.dispatched => execution = "unknown"
    BY <1>1, <1>2 DEF Unfinished, OutcomeFits
  <2> HIDE DEF revoked, execution
  <2>3. op' \in Operation
    BY ZenonT(60), <1>1, <2>1, <2>2 DEF Operation
  <2>4. /\ op'.kind = "outcome" /\ op'.phase = "done" /\ op'.cleaned = op.cleaned
        /\ op'.availability = "blocked" /\ op'.verification = "unknown"
        /\ op'.released = FALSE /\ op'.revoked = revoked /\ op'.execution = execution
        /\ op'.dispatched = op.dispatched /\ op'.cancelled = op.cancelled
    BY <1>1, <2>1 DEF Operation
  <2>5. OutcomeFits(op')
    BY <1>1, <2>2, <2>4 DEF OutcomeFits, Polled
  <2> QED BY <1>1, <2>3, <2>4, <2>5
          DEF OperationFits, OutcomeInv, OutcomeTypeOK, Environment, EntitledStep
<1>4. CASE ~op.cancelled /\ Access
  <2>1. op' = [op EXCEPT !.phase = "done"]
    BY <1>4 DEF Project, Fence
  <2> QED BY <1>1, <1>2, <1>4, <2>1
          DEF Operation, OperationFits, OutcomeFits, OutcomeInv, OutcomeTypeOK, Environment,
              EntitledStep
<1> QED BY <1>1, <1>2, <1>3, <1>4 DEF Operation

LEMMA ReleaseKeeps ==
  ASSUME OutcomeInv, Release
  PROVE  OutcomeInv' /\ EntitledStep
<1>1. op' = NoOperation
  BY DEF Release
<1>2. op' \in Operation /\ OperationFits(op)' /\ EntitledStep
  BY <1>1, OutcomeAssumption DEF NoOperation, Operation, OperationFits, EntitledStep
<1> QED BY <1>2 DEF Release, OutcomeInv, OutcomeTypeOK

LEMMA OutcomeStepKeeps ==
  OutcomeInv /\ [OutcomeNext]_outcomeVars => OutcomeInv' /\ [EntitledStep]_outcomeVars
<1> SUFFICES ASSUME OutcomeInv, [OutcomeNext]_outcomeVars
             PROVE  OutcomeInv' /\ [EntitledStep]_outcomeVars
  OBVIOUS
<1>1. CASE UNCHANGED outcomeVars
  BY <1>1 DEF outcomeVars, OutcomeInv, OutcomeTypeOK, OperationFits, SubmitFits, OutcomeFits
<1>2. CASE OutcomeNext
  BY <1>2, EnvironmentKeeps, BeginKeeps, SubmitKeeps, OutcomeKeeps, ProjectKeeps, ReleaseKeeps
     DEF OutcomeNext, OutcomeStep
<1> QED BY <1>1, <1>2

\* Every reachable state: an operation has come exactly as far as its phase says, and a
\* finished outcome is what was executed and verified.
THEOREM OutcomeInvariant == OutcomeSpec => []OutcomeInv
<1> QED BY OutcomeInitial, OutcomeStepKeeps, PTL DEF OutcomeSpec

LEMMA OutcomeInvHonest == OutcomeInv => OutcomeTypeOK /\ FinishedIsHonest
  BY DEF OutcomeInv, OperationFits, OutcomeFits, FinishedIsHonest, OutcomeTypeOK, Operation

\* A result is handed out only for the state that was verified, and an application acts
\* only while it is entitled to (submit, awaitOutcome, assertDispatch).
THEOREM OutcomeHonest == OutcomeSpec => OutcomeIsHonest
<1>1. OutcomeSpec => []OutcomeInv
  BY OutcomeInvariant
<1>2. OutcomeInv => OutcomeTypeOK /\ FinishedIsHonest
  BY OutcomeInvHonest
<1>3. OutcomeInv /\ [OutcomeNext]_outcomeVars => [EntitledStep]_outcomeVars
  BY OutcomeStepKeeps
<1> QED BY <1>1, <1>2, <1>3, PTL DEF OutcomeSpec, OutcomeIsHonest, ActsWhileEntitled

-----------------------------------------------------------------------------
(* A plan of actions on one page.                                          *)

\* A plan that is in one of its steps.
InStep == plan.at \in {"act", "approve", "dispatch", "followup", "failed", "done"}

\* References are handed out once for one element, and the latest are those of the
\* latest observation, which the engine's bindings are of too.
HandedInv ==
  /\ engine.revision = page.last.engineRevision /\ engine.bound = page.last.shown
  /\ page.last.revision <= page.revision
  /\ \A m \in handed :
       /\ m.ref.revision <= page.last.revision
       /\ m.ref.revision = page.last.revision =>
            /\ m.ref.ordinal \in DOMAIN page.last.shown
            /\ m.node = page.last.shown[m.ref.ordinal]
  /\ \A m, n \in handed : m.ref = n.ref => m.node = n.node
  /\ \A i \in DOMAIN page.last.shown :
       [ref |-> Ref(page.last.revision, i), node |-> page.last.shown[i]] \in handed

\* The snapshots kept show what the references of their revision were handed out for.
HistoryInv ==
  \A r \in DOMAIN page.history : \A i \in DOMAIN page.history[r] :
    [ref |-> Ref(r, i), node |-> page.history[r][i]] \in handed

\* The reference of a step was handed out, as was the one the step named, and is like it.
StepInv ==
  InStep =>
    /\ Meant(plan.asked) # {} /\ Meant(plan.ref) # {}
    /\ (plan.healed => plan.mode = "verified")
         => LabelsMeant(plan.ref) \subseteq LabelsMeant(plan.asked)
    /\ plan.at \in {"approve", "dispatch"} /\ Unwatched =>
         plan.ref.revision = page.last.revision
    /\ plan.at = "failed" => /\ plan.failure \in Failures
                             /\ ~(plan.failure.after /\ plan.failure.eligible)

\* The engine has not answered for an effect of the step.
BeforeAnswer == \/ plan.at \in {"act", "approve", "dispatch"}
                \/ plan.at = "failed" /\ ~plan.failure.after

\* What the steps have done so far.
EffectsInv ==
  /\ plan.at = "idle" /\ report = None => hits = <<>>
  /\ plan.at = "step" => \A i \in DOMAIN hits : hits[i].step < plan.index
  /\ InStep => \A i \in DOMAIN hits : hits[i].step <= plan.index
  /\ BeforeAnswer => \A i \in DOMAIN hits : hits[i].step = plan.index => ~hits[i].answered

PlanInv == PlanKeepsItsWord /\ HandedInv /\ HistoryInv /\ StepInv /\ EffectsInv

-----------------------------------------------------------------------------
LEMMA LeastExists ==
  ASSUME NEW S \in SUBSET Nat, S # {}
  PROVE  \E x \in S : \A y \in S : x =< y
<1> DEFINE T == {0 .. x : x \in S}
<1>0. \A x \in S : 0 .. x \in FiniteSubsetsOf(Nat)
  <2> SUFFICES ASSUME NEW x \in S PROVE 0 .. x \in FiniteSubsetsOf(Nat)
    OBVIOUS
  <2>1. x \in Int /\ 0 .. x \subseteq Nat
    OBVIOUS
  <2>2. IsFiniteSet(0 .. x)
    BY <2>1, FS_Interval
  <2> QED BY <2>1, <2>2 DEF FiniteSubsetsOf
<1>1. T \subseteq FiniteSubsetsOf(Nat) /\ T # {}
  BY <1>0
<1>2. PICK I \in T : \A J \in T : ~(<<J, I>> \in StrictSubsetOrdering(Nat))
  BY <1>1, FS_StrictSubsetOrderingWellFounded, WFMin
<1>3. PICK x \in S : I = 0 .. x
  BY <1>2
<1>4. \A y \in S : x =< y
  <2> SUFFICES ASSUME NEW y \in S, y < x PROVE FALSE
    OBVIOUS
  <2>1. 0 .. y \in T /\ 0 .. y \subseteq 0 .. x /\ x \in 0 .. x /\ x \notin 0 .. y
    OBVIOUS
  <2>2. <<0 .. y, 0 .. x>> \in StrictSubsetOrdering(Nat)
    BY <2>1 DEF StrictSubsetOrdering
  <2> QED BY <1>2, <1>3, <2>1, <2>2
<1> QED BY <1>4

-----------------------------------------------------------------------------
(* What references mean.                                                   *)

MeantIn(known, ref) == {m.node : m \in {n \in known : n.ref = ref}}
LabelsIn(known, ref) == {LabelOf[n] : n \in MeantIn(known, ref)}
OneNodeEach(known) == \A m, n \in known : m.ref = n.ref => m.node = n.node

\* What a reference means is settled when it is handed out.
LEMMA MeaningKept ==
  ASSUME NEW known, NEW more, known \subseteq more, OneNodeEach(more),
         NEW ref, MeantIn(known, ref) # {}
  PROVE  MeantIn(more, ref) = MeantIn(known, ref) /\ LabelsIn(more, ref) = LabelsIn(known, ref)
<1>1. PICK m \in known : m.ref = ref
  BY DEF MeantIn
<1>2. MeantIn(more, ref) = {m.node} /\ MeantIn(known, ref) = {m.node}
  BY <1>1 DEF MeantIn, OneNodeEach
<1> QED BY <1>2 DEF LabelsIn

LEMMA MeantOne ==
  ASSUME NEW known, OneNodeEach(known), NEW m \in known
  PROVE  MeantIn(known, m.ref) = {m.node} /\ LabelsIn(known, m.ref) = {LabelOf[m.node]}
<1>1. MeantIn(known, m.ref) = {m.node}
  BY DEF MeantIn, OneNodeEach
<1> QED BY <1>1 DEF LabelsIn

\* A record of an observation is not the sign that there was none.
LEMMA WasObserved ==
  ASSUME NEW last \in [revision : Nat, engineRevision : Nat, shown : Seq(Nodes)]
  PROVE  last # None
<1>1. DOMAIN last = {"revision", "engineRevision", "shown"}
  OBVIOUS
<1>2. DOMAIN None = {"none"}
  BY DEF None
<1>3. "none" \notin {"revision", "engineRevision", "shown"}
  OBVIOUS
<1> QED BY <1>1, <1>2, <1>3

LEMMA RefIs == ASSUME NEW ref \in Refs PROVE ref = Ref(ref.revision, ref.ordinal)
BY DEF Refs, Ref

\* The baseline of a stale reference is what the reference was handed out for.
LEMMA BaselineMeant ==
  ASSUME PlanInv, NEW ref \in Refs, Baseline(ref) # Nobody
  PROVE  Baseline(ref) \in MeantIn(handed, ref)
<1>1. ref = Ref(ref.revision, ref.ordinal)
  BY RefIs
<1>2. CASE /\ ref.revision \in DOMAIN page.history
           /\ ref.ordinal \in DOMAIN page.history[ref.revision]
  <2>1. Baseline(ref) = page.history[ref.revision][ref.ordinal]
    BY <1>2 DEF Baseline
  <2>2. [ref |-> Ref(ref.revision, ref.ordinal), node |-> page.history[ref.revision][ref.ordinal]]
          \in handed
    BY <1>2 DEF PlanInv, HistoryInv
  <2> QED BY <1>1, <2>1, <2>2 DEF MeantIn
<1>3. CASE /\ ~(/\ ref.revision \in DOMAIN page.history
                /\ ref.ordinal \in DOMAIN page.history[ref.revision])
           /\ page.last # None /\ ref.revision = page.last.revision
           /\ ref.ordinal \in DOMAIN page.last.shown
  <2>1. Baseline(ref) = page.last.shown[ref.ordinal]
    BY <1>3 DEF Baseline
  <2>2. [ref |-> Ref(page.last.revision, ref.ordinal), node |-> page.last.shown[ref.ordinal]]
          \in handed
    BY <1>3 DEF PlanInv, HandedInv
  <2> QED BY <1>1, <1>3, <2>1, <2>2 DEF MeantIn
<1>4. CASE /\ ~(/\ ref.revision \in DOMAIN page.history
                /\ ref.ordinal \in DOMAIN page.history[ref.revision])
           /\ ~(page.last # None /\ ref.revision = page.last.revision
                /\ ref.ordinal \in DOMAIN page.last.shown)
  BY <1>4 DEF Baseline
<1> QED BY <1>2, <1>3, <1>4

-----------------------------------------------------------------------------
(* Observation.                                                            *)

\* The history is cut by its oldest entry.
LEMMA RetainedFits ==
  ASSUME NEW H, IsFiniteSet(DOMAIN H), DOMAIN H \subseteq Nat,
         Cardinality(DOMAIN H) <= HistoryLimit + 1
  PROVE  /\ IsFiniteSet(DOMAIN Retained(H)) /\ DOMAIN Retained(H) \subseteq DOMAIN H
         /\ Cardinality(DOMAIN Retained(H)) <= HistoryLimit
         /\ \A r \in DOMAIN Retained(H) : Retained(H)[r] = H[r]
<1>1. CASE Cardinality(DOMAIN H) <= HistoryLimit
  BY <1>1 DEF Retained
<1>2. CASE ~(Cardinality(DOMAIN H) <= HistoryLimit)
  <2>1. Cardinality(DOMAIN H) \in Nat /\ HistoryLimit \in Nat
    BY FS_CardinalityType, PlanAssumption
  <2>2. DOMAIN H # {}
    BY <1>2, <2>1, FS_EmptySet
  <2>3. OldestRevision(H) \in DOMAIN H
    BY <2>2, LeastExists DEF OldestRevision
  <2>4. Retained(H) = [r \in DOMAIN H \ {OldestRevision(H)} |-> H[r]]
    BY <1>2 DEF Retained
  <2>5. DOMAIN Retained(H) = DOMAIN H \ {OldestRevision(H)}
    BY <2>4
  <2>6. IsFiniteSet(DOMAIN H \ {OldestRevision(H)})
        /\ Cardinality(DOMAIN H \ {OldestRevision(H)}) = Cardinality(DOMAIN H) - 1
    BY <2>3, FS_RemoveElement
  <2> QED BY <2>1, <2>4, <2>5, <2>6
<1> QED BY <1>1, <1>2

\* An observation hands out references for what the page shows, and changes what no
\* earlier reference means.
LEMMA ObservesKeeps ==
  ASSUME PlanInv, Observes
  PROVE  /\ engine' \in [revision : Nat, bound : Seq(Nodes)] /\ page'.revision \in Nat
         /\ page'.last \in [revision : Nat, engineRevision : Nat, shown : Seq(Nodes)]
         /\ IsFiniteSet(DOMAIN page'.history)
         /\ Cardinality(DOMAIN page'.history) <= HistoryLimit
         /\ \A r \in DOMAIN page'.history : r \in Nat /\ page'.history[r] \in Seq(Nodes)
         /\ handed' \subseteq [ref : Refs, node : Nodes]
         /\ handed \subseteq handed'
         /\ HandedInv' /\ HistoryInv'
         /\ page'.last.revision = ObservedRevision /\ page'.last.shown = dom
         /\ ObservedRevision \in Nat
         /\ \A i \in DOMAIN dom :
              [ref |-> Ref(ObservedRevision, i), node |-> dom[i]] \in handed'
<1> DEFINE rev == ObservedRevision
           eng == EngineObserves
           old == page.last.revision
           kept == [r \in DOMAIN page.history \cup {rev} |->
                      IF r = rev THEN dom ELSE page.history[r]]
           new == {[ref |-> Ref(rev, i), node |-> dom[i]] : i \in DOMAIN dom}
<1>1. page.last # None
  BY WasObserved DEF PlanInv, PlanKeepsItsWord, PlanTypeOK
<1>2. dom \in Seq(Nodes)
  BY PlanAssumption DEF PlanInv, PlanKeepsItsWord, PlanTypeOK
<1>3. /\ old \in Nat /\ page.revision \in Nat /\ old <= page.revision
      /\ engine.revision \in Nat /\ engine.revision = page.last.engineRevision
      /\ engine.bound = page.last.shown /\ page.last.shown \in Seq(Nodes)
  BY DEF PlanInv, PlanKeepsItsWord, PlanTypeOK, HandedInv
<1>4. /\ eng.bound = dom /\ eng.revision \in Nat
      /\ eng \in [revision : Nat, bound : Seq(Nodes)]
      /\ eng.revision = engine.revision => engine.bound = <<>> \/ engine.bound = dom
  BY <1>2, <1>3 DEF EngineObserves
<1>5. /\ rev \in Nat /\ rev >= old /\ rev >= page.revision
      /\ rev = old => page.last.shown = <<>> \/ page.last.shown = dom
  <2> HIDE DEF eng, old
  <2>1. rev = IF eng.revision # page.last.engineRevision /\ page.revision = old
              THEN page.revision + 1 ELSE page.revision
    BY <1>1 DEF ObservedRevision, eng, old
  <2> HIDE DEF rev
  <2> QED BY <1>3, <1>4, <2>1
<1>6. /\ engine' = eng
      /\ page' = [revision |-> rev,
                  last |-> [revision |-> rev, engineRevision |-> eng.revision, shown |-> dom],
                  history |-> Retained(kept)]
      /\ handed' = handed \cup new
  BY DEF Observes
<1> HIDE DEF eng
<1>7. /\ page'.revision = rev /\ page'.history = Retained(kept)
      /\ page'.last = [revision |-> rev, engineRevision |-> eng.revision, shown |-> dom]
  BY <1>6
<1>8. /\ page'.last.revision = rev /\ page'.last.engineRevision = eng.revision
      /\ page'.last.shown = dom
      /\ page'.last \in [revision : Nat, engineRevision : Nat, shown : Seq(Nodes)]
  BY <1>2, <1>4, <1>5, <1>7
<1> HIDE DEF rev
<1>9. new \subseteq [ref : Refs, node : Nodes]
  <2> SUFFICES ASSUME NEW i \in DOMAIN dom
               PROVE  [ref |-> Ref(rev, i), node |-> dom[i]] \in [ref : Refs, node : Nodes]
    OBVIOUS
  <2>1. i \in Nat \ {0} /\ dom[i] \in Nodes
    BY <1>2
  <2> QED BY <1>5, <2>1 DEF Refs, Ref
<1>10. handed \subseteq [ref : Refs, node : Nodes] /\ HandedInv /\ HistoryInv
  BY DEF PlanInv, PlanKeepsItsWord, PlanTypeOK
<1>11. \A m \in new : /\ m.ref.revision = rev /\ m.ref.ordinal \in DOMAIN dom
                      /\ m.node = dom[m.ref.ordinal]
  BY DEF Ref
<1>12. \A i \in DOMAIN dom : [ref |-> Ref(rev, i), node |-> dom[i]] \in new
  OBVIOUS
<1> HIDE DEF new
<1>13. \A m \in handed' : /\ m.ref.revision <= rev
                          /\ m.ref.revision = rev => /\ m.ref.ordinal \in DOMAIN dom
                                                     /\ m.node = dom[m.ref.ordinal]
  <2> SUFFICES ASSUME NEW m \in handed
               PROVE  /\ m.ref.revision <= rev
                      /\ m.ref.revision = rev => /\ m.ref.ordinal \in DOMAIN dom
                                                 /\ m.node = dom[m.ref.ordinal]
    BY <1>5, <1>6, <1>11
  <2>1. m.ref.revision \in Nat /\ m.ref.revision <= old
    BY <1>10 DEF HandedInv, Refs
  <2>2. CASE m.ref.revision = rev
    <3>1. rev = old
      BY <1>3, <1>5, <2>1, <2>2
    <3>2. /\ m.ref.ordinal \in DOMAIN page.last.shown
          /\ m.node = page.last.shown[m.ref.ordinal]
      BY <1>10, <2>2, <3>1 DEF HandedInv
    <3>3. page.last.shown = dom
      BY <1>5, <3>1, <3>2
    <3> QED BY <1>5, <2>2, <3>2, <3>3
  <2>3. CASE m.ref.revision # rev
    BY <1>3, <1>5, <2>1, <2>3
  <2> QED BY <2>2, <2>3
<1>14. \A m, n \in handed' : m.ref = n.ref => m.node = n.node
  <2> SUFFICES ASSUME NEW m \in handed', NEW n \in handed', m.ref = n.ref
               PROVE  m.node = n.node
    OBVIOUS
  <2>1. CASE m.ref.revision = rev
    BY <1>13, <2>1
  <2>2. CASE m.ref.revision # rev
    <3>1. m \in handed /\ n \in handed
      BY <1>6, <1>11, <2>2
    <3> QED BY <1>10, <3>1 DEF HandedInv
  <2> QED BY <2>1, <2>2
<1>15. HandedInv'
  <2>1. \A i \in DOMAIN dom : [ref |-> Ref(rev, i), node |-> dom[i]] \in handed'
    BY <1>6, <1>12
  <2>2. engine'.revision = eng.revision /\ engine'.bound = dom
    BY <1>4, <1>6
  <2> QED BY <1>5, <1>7, <1>8, <1>13, <1>14, <2>1, <2>2 DEF HandedInv
<1>16. /\ IsFiniteSet(DOMAIN kept) /\ DOMAIN kept \subseteq Nat
       /\ Cardinality(DOMAIN kept) <= HistoryLimit + 1
  <2>1. /\ IsFiniteSet(DOMAIN page.history) /\ Cardinality(DOMAIN page.history) <= HistoryLimit
        /\ DOMAIN page.history \subseteq Nat
    BY DEF PlanInv, PlanKeepsItsWord, PlanTypeOK
  <2>2. /\ IsFiniteSet(DOMAIN page.history \cup {rev})
        /\ \/ Cardinality(DOMAIN page.history \cup {rev}) = Cardinality(DOMAIN page.history)
           \/ Cardinality(DOMAIN page.history \cup {rev}) = Cardinality(DOMAIN page.history) + 1
    BY <2>1, FS_AddElement
  <2>3. DOMAIN kept = DOMAIN page.history \cup {rev}
    OBVIOUS
  <2>4. Cardinality(DOMAIN page.history) \in Nat /\ HistoryLimit \in Nat
    BY <2>1, FS_CardinalityType, PlanAssumption
  <2> HIDE DEF kept
  <2> QED BY <1>5, <2>1, <2>2, <2>3, <2>4
<1>17. \A r \in DOMAIN kept : /\ kept[r] \in Seq(Nodes)
                              /\ \A i \in DOMAIN kept[r] :
                                   [ref |-> Ref(r, i), node |-> kept[r][i]] \in handed'
  <2> SUFFICES ASSUME NEW r \in DOMAIN kept
               PROVE  /\ kept[r] \in Seq(Nodes)
                      /\ \A i \in DOMAIN kept[r] :
                           [ref |-> Ref(r, i), node |-> kept[r][i]] \in handed'
    OBVIOUS
  <2>1. CASE r = rev
    <3>1. kept[r] = dom
      BY <2>1
    <3> QED BY <1>2, <1>6, <1>12, <2>1, <3>1
  <2>2. CASE r # rev
    <3>1. kept[r] = page.history[r] /\ r \in DOMAIN page.history
      BY <2>2
    <3>2. page.history[r] \in Seq(Nodes)
      BY <3>1 DEF PlanInv, PlanKeepsItsWord, PlanTypeOK
    <3> QED BY <1>6, <1>10, <3>1, <3>2 DEF HistoryInv
  <2> QED BY <2>1, <2>2
<1> HIDE DEF kept
<1>18. /\ IsFiniteSet(DOMAIN page'.history) /\ DOMAIN page'.history \subseteq DOMAIN kept
       /\ Cardinality(DOMAIN page'.history) <= HistoryLimit
       /\ \A r \in DOMAIN page'.history : page'.history[r] = kept[r]
  BY <1>7, <1>16, RetainedFits
<1>19. HistoryInv'
  BY <1>17, <1>18 DEF HistoryInv
<1>20. \A r \in DOMAIN page'.history : r \in Nat /\ page'.history[r] \in Seq(Nodes)
  BY <1>16, <1>17, <1>18
<1> QED BY <1>4, <1>5, <1>6, <1>7, <1>8, <1>9, <1>10, <1>12, <1>15, <1>18, <1>19, <1>20 DEF rev


\* What the references are known to mean, and what they still mean a step later.
PageTypeOK ==
  /\ engine \in [revision : Nat, bound : Seq(Nodes)]
  /\ page.revision \in Nat
  /\ page.last \in [revision : Nat, engineRevision : Nat, shown : Seq(Nodes)]
  /\ IsFiniteSet(DOMAIN page.history) /\ Cardinality(DOMAIN page.history) <= HistoryLimit
  /\ \A r \in DOMAIN page.history : r \in Nat /\ page.history[r] \in Seq(Nodes)
  /\ handed \subseteq [ref : Refs, node : Nodes]

PageKnown == PageTypeOK /\ HandedInv /\ HistoryInv
KnownStill == PageKnown' /\ handed \subseteq handed'

LEMMA LookKeeps == ASSUME PlanInv, Observes PROVE KnownStill
<1>1. PageTypeOK' /\ HandedInv' /\ HistoryInv' /\ handed \subseteq handed'
  BY ObservesKeeps DEF PageTypeOK
<1> QED BY <1>1 DEF KnownStill, PageKnown

LEMMA NoLookKeeps == ASSUME PlanInv, UNCHANGED <<engine, page, handed>> PROVE KnownStill
<1>1. PageTypeOK /\ HandedInv /\ HistoryInv
  BY DEF PlanInv, PlanKeepsItsWord, PlanTypeOK, PageTypeOK
<1>2. PageTypeOK'
  BY <1>1 DEF PageTypeOK
<1>3. HandedInv'
  BY <1>1 DEF HandedInv
<1>4. HistoryInv'
  BY <1>1 DEF HistoryInv
<1> QED BY <1>2, <1>3, <1>4 DEF KnownStill, PageKnown

LEMMA RevisionMovesOn ==
  ASSUME PlanInv, UNCHANGED <<engine, handed>>, page' = [page EXCEPT !.revision = @ + 1]
  PROVE  KnownStill
<1>1. PageTypeOK /\ HandedInv /\ HistoryInv
  BY DEF PlanInv, PlanKeepsItsWord, PlanTypeOK, PageTypeOK
<1>2. /\ page'.last = page.last /\ page'.history = page.history
      /\ page.revision \in Nat /\ page'.revision = page.revision + 1
  BY <1>1 DEF PageTypeOK
<1>3. PageTypeOK'
  BY <1>1, <1>2 DEF PageTypeOK
<1>4. HandedInv'
  <2>1. page.last.revision \in Nat /\ page.last.revision <= page.revision
    BY <1>1 DEF HandedInv, PageTypeOK
  <2>2. page'.last.revision <= page'.revision
    BY <1>2, <2>1
  <2> QED BY <1>1, <1>2, <2>2 DEF HandedInv
<1>5. HistoryInv'
  BY <1>1, <1>2 DEF HistoryInv
<1> QED BY <1>3, <1>4, <1>5 DEF KnownStill, PageKnown

LEMMA MeaningStays ==
  ASSUME KnownStill, NEW ref, Meant(ref) # {}
  PROVE  Meant(ref)' = Meant(ref) /\ LabelsMeant(ref)' = LabelsMeant(ref)
<1>1. handed \subseteq handed' /\ OneNodeEach(handed')
  BY DEF KnownStill, PageKnown, HandedInv, OneNodeEach
<1>2. MeantIn(handed, ref) # {}
  BY DEF Meant, MeantIn
<1>3. /\ MeantIn(handed', ref) = MeantIn(handed, ref)
      /\ LabelsIn(handed', ref) = LabelsIn(handed, ref)
  BY <1>1, <1>2, MeaningKept
<1> QED BY <1>3 DEF Meant, MeantIn, LabelsMeant, LabelsIn

\* A reference handed out means the one element it was handed out for.
LEMMA HandedOutFor ==
  ASSUME PageKnown', NEW m \in handed'
  PROVE  Meant(m.ref)' = {m.node} /\ LabelsMeant(m.ref)' = {LabelOf[m.node]}
<1>1. OneNodeEach(handed')
  BY DEF PageKnown, HandedInv, OneNodeEach
<1>2. MeantIn(handed', m.ref) = {m.node} /\ LabelsIn(handed', m.ref) = {LabelOf[m.node]}
  BY <1>1, MeantOne
<1> QED BY <1>2 DEF Meant, MeantIn, LabelsMeant, LabelsIn

-----------------------------------------------------------------------------
(* What has been promised of the effects so far still holds.               *)

WordKept ==
  /\ AnsweredEffectIsLast
  /\ Unwatched => ReferencesHold /\ HealsToTheSameLabel

LEMMA PromiseStays ==
  ASSUME PlanInv, KnownStill, hits' = hits, Unwatched' => Unwatched
  PROVE  WordKept'
<1>1. AnsweredEffectIsLast'
  BY DEF PlanInv, PlanKeepsItsWord, AnsweredEffectIsLast
<1>2. ASSUME Unwatched' PROVE ReferencesHold' /\ HealsToTheSameLabel'
  <2>1. ReferencesHold /\ HealsToTheSameLabel
    BY <1>2 DEF PlanInv, PlanKeepsItsWord
  <2>2. \A i \in DOMAIN hits : Meant(hits[i].via)' = Meant(hits[i].via)
    <3> SUFFICES ASSUME NEW i \in DOMAIN hits PROVE Meant(hits[i].via)' = Meant(hits[i].via)
      OBVIOUS
    <3>1. Meant(hits[i].via) # {}
      BY <2>1 DEF ReferencesHold
    <3>2. PICK via : via = hits[i].via
      OBVIOUS
    <3>3. Meant(via)' = Meant(via)
      BY <3>1, <3>2, MeaningStays
    <3> QED BY <3>2, <3>3 DEF Meant
  <2>3. \A i \in DOMAIN hits : LabelOf[hits[i].node] \in LabelsMeant(hits[i].asked)
                                 => LabelOf[hits[i].node] \in LabelsMeant(hits[i].asked)'
    BY DEF KnownStill, LabelsMeant, Meant
  <2>4. ReferencesHold'
    BY <2>1, <2>2 DEF ReferencesHold, Meant
  <2>5. HealsToTheSameLabel'
    BY <2>1, <2>3 DEF HealsToTheSameLabel, LabelsMeant, Meant
  <2> QED BY <2>4, <2>5
<1> QED BY <1>1, <1>2 DEF WordKept

LEMMA StepIsTyped == ASSUME PlanInv, InStep PROVE plan \in StepStates
BY DEF PlanInv, PlanKeepsItsWord, PlanTypeOK, InStep, NoPlan

LEMMA FailuresAreTyped ==
  /\ StaleRevision \in Failures /\ Gone \in Failures /\ Refused \in Failures
  /\ \A text \in BOOLEAN : Uncertain(text) \in Failures /\ AfterEffect(text) \in Failures
BY DEF StaleRevision, Gone, Refused, Uncertain, AfterEffect, Failure, Failures

\* Everything but the plan's own state.
Around == /\ dom' \in Documents /\ churn' \in Nat
          /\ budget' \in [others : 0 .. Others, changes : 0 .. Changes]
          /\ Unwatched' => Unwatched

LEMMA AroundStays ==
  ASSUME PlanInv, UNCHANGED <<dom, churn, budget>> PROVE Around
BY DEF PlanInv, PlanKeepsItsWord, PlanTypeOK, Around, Unwatched

\* The parts of the invariant, put together.
LEMMA InvariantStays ==
  ASSUME PlanInv, KnownStill, Around, hits' = hits, StepInv', EffectsInv',
         plan' \in {NoPlan} \cup [at : {"step"}, index : Nat \ {0}, count : Nat]
                     \cup StepStates
  PROVE  PlanInv'
<1>1. WordKept'
  BY PromiseStays DEF Around
<1>2. PlanTypeOK'
  BY DEF PlanInv, PlanKeepsItsWord, PlanTypeOK, KnownStill, PageKnown, PageTypeOK, Around
<1> QED BY <1>1, <1>2 DEF PlanInv, PlanKeepsItsWord, WordKept, KnownStill, PageKnown

\* A step that goes on, with the same reference.
LEMMA StepInvStays ==
  ASSUME PlanInv, InStep, KnownStill,
         plan'.asked = plan.asked, plan'.ref = plan.ref,
         plan'.healed = plan.healed, plan'.mode = plan.mode,
         plan'.at \in {"approve", "dispatch"} /\ Unwatched'
           => plan'.ref.revision = page'.last.revision,
         plan'.at = "failed" => /\ plan'.failure \in Failures
                                /\ ~(plan'.failure.after /\ plan'.failure.eligible)
  PROVE  StepInv'
<1>1. /\ Meant(plan.asked) # {} /\ Meant(plan.ref) # {}
      /\ (plan.healed => plan.mode = "verified")
           => LabelsMeant(plan.ref) \subseteq LabelsMeant(plan.asked)
  BY DEF PlanInv, StepInv
<1>2. PICK asked, ref : asked = plan.asked /\ ref = plan.ref
  OBVIOUS
<1>3. /\ Meant(asked)' # {} /\ Meant(ref)' # {}
      /\ LabelsMeant(asked)' = LabelsMeant(asked) /\ LabelsMeant(ref)' = LabelsMeant(ref)
  BY <1>1, <1>2, MeaningStays
<1>4. /\ Meant(plan.asked)' # {} /\ Meant(plan.ref)' # {}
      /\ (plan'.healed => plan'.mode = "verified")
           => LabelsMeant(plan.ref)' \subseteq LabelsMeant(plan.asked)'
  BY <1>1, <1>2, <1>3 DEF Meant, LabelsMeant
<1> QED BY <1>4 DEF StepInv

LEMMA EffectsInvStays ==
  ASSUME PlanInv, InStep, plan' \in StepStates, hits' = hits, plan'.index = plan.index,
         BeforeAnswer' => BeforeAnswer
  PROVE  EffectsInv'
<1>1. plan'.at \in {"act", "approve", "dispatch", "followup", "failed", "done"}
  BY DEF StepStates
<1>2. plan'.at # "idle" /\ plan'.at # "step"
  BY <1>1
<1>3. \A i \in DOMAIN hits : hits[i].step <= plan.index
  BY DEF PlanInv, EffectsInv
<1>4. BeforeAnswer => \A i \in DOMAIN hits : hits[i].step = plan.index => ~hits[i].answered
  BY DEF PlanInv, EffectsInv
<1>5. \A i \in DOMAIN hits' : hits'[i].step <= plan'.index
  BY <1>3
<1>6. BeforeAnswer' => \A i \in DOMAIN hits' : hits'[i].step = plan'.index => ~hits'[i].answered
  BY <1>4
<1> QED BY <1>2, <1>5, <1>6 DEF EffectsInv

LEMMA StepGoesOn ==
  ASSUME PlanInv, InStep, KnownStill, plan' \in StepStates, hits' = hits,
         Around, plan'.index = plan.index, plan'.asked = plan.asked, plan'.ref = plan.ref,
         plan'.healed = plan.healed, plan'.mode = plan.mode,
         plan'.at \in {"approve", "dispatch"} /\ Unwatched'
           => plan'.ref.revision = page'.last.revision,
         plan'.at = "failed" => /\ plan'.failure \in Failures
                                /\ ~(plan'.failure.after /\ plan'.failure.eligible),
         BeforeAnswer' => BeforeAnswer
  PROVE  PlanInv'
<1>1. StepInv'
  BY StepInvStays
<1>2. EffectsInv'
  BY EffectsInvStays
<1>3. plan' \in {NoPlan} \cup [at : {"step"}, index : Nat \ {0}, count : Nat] \cup StepStates
  OBVIOUS
<1> QED BY <1>1, <1>2, <1>3, InvariantStays

\* A step that goes on with another reference, that is like the one it named where the
\* code says so.
LEMMA StepIsRenamed ==
  ASSUME PlanInv, InStep, KnownStill, Around, hits' = hits, BeforeAnswer,
         plan' \in StepStates, plan'.at = "act", plan'.index = plan.index,
         plan'.asked = plan.asked, NEW ref, plan'.ref = ref, Meant(ref)' # {},
         (plan'.healed => plan'.mode = "verified")
           => LabelsMeant(ref)' \subseteq LabelsMeant(plan.asked)
  PROVE  PlanInv'
<1>1. PICK asked : asked = plan.asked
  OBVIOUS
<1>2. Meant(asked) # {}
  BY <1>1 DEF PlanInv, StepInv
<1>3. Meant(asked)' # {} /\ LabelsMeant(asked)' = LabelsMeant(asked)
  BY <1>2, MeaningStays
<1>4. LabelsMeant(asked) = LabelsMeant(plan.asked)
  BY <1>1
<1>5. /\ Meant(plan.asked)' # {} /\ Meant(plan.ref)' # {}
      /\ (plan'.healed => plan'.mode = "verified")
           => LabelsMeant(plan.ref)' \subseteq LabelsMeant(plan.asked)'
  BY <1>1, <1>3, <1>4 DEF Meant, LabelsMeant
<1>6. StepInv'
  BY <1>5 DEF StepInv
<1>7. EffectsInv'
  BY EffectsInvStays
<1>8. plan' \in {NoPlan} \cup [at : {"step"}, index : Nat \ {0}, count : Nat] \cup StepStates
  OBVIOUS
<1> QED BY <1>6, <1>7, <1>8, InvariantStays

\* A step begins with a reference that was handed out.
LEMMA StepBegins ==
  ASSUME PlanInv, plan.at = "step", plan.index <= PlanSteps, KnownStill, Around, hits' = hits,
         NEW ref \in Refs, NEW remap \in BOOLEAN, Meant(ref)' # {}, plan' = StepOf(ref, remap)
  PROVE  PlanInv'
<1>1. plan.index \in Nat \ {0} /\ plan.count \in Nat /\ PlanSteps \in Nat
  BY SMTT(30), PlanAssumption DEF PlanInv, PlanKeepsItsWord, PlanTypeOK, StepStates, NoPlan
<1>2. Mode \in {"stable", "verified"}
  BY DEF Mode
<1>3. /\ plan' \in StepStates /\ plan'.at = "act" /\ plan'.index = plan.index
      /\ plan'.asked = ref /\ plan'.ref = ref
  BY <1>1, <1>2 DEF StepOf, StepStates
<1>4. StepInv'
  <2>1. Meant(plan.asked)' # {} /\ Meant(plan.ref)' # {}
    BY <1>3 DEF Meant
  <2>2. LabelsMeant(plan.ref)' \subseteq LabelsMeant(plan.asked)'
    BY <1>3
  <2>3. plan'.at \notin {"approve", "dispatch"} /\ plan'.at # "failed"
    BY <1>3
  <2> QED BY <2>1, <2>2, <2>3 DEF StepInv
<1>5. EffectsInv'
  <2>1. \A i \in DOMAIN hits : hits[i].step < plan.index
    BY DEF PlanInv, EffectsInv
  <2>4. \A i \in DOMAIN hits : hits[i].step \in Nat
    <3>1. hits \in Seq(Effects)
      BY DEF PlanInv, PlanKeepsItsWord, PlanTypeOK
    <3>2. \A i \in DOMAIN hits : hits[i] \in Effects
      BY <3>1
    <3> QED BY <3>2 DEF Effects
  <2>2. plan'.at # "idle" /\ plan'.at # "step"
    BY <1>3
  <2>3. \A i \in DOMAIN hits' : hits'[i].step <= plan'.index /\ hits'[i].step # plan'.index
    BY <1>1, <1>3, <2>1, <2>4
  <2> QED BY <2>2, <2>3 DEF EffectsInv
<1>6. plan' \in {NoPlan} \cup [at : {"step"}, index : Nat \ {0}, count : Nat] \cup StepStates
  BY <1>3
<1> QED BY <1>4, <1>5, <1>6, InvariantStays

LEMMA ReportIsGiven ==
  ASSUME NEW ok, NEW completed, NEW unknown, NEW mode
  PROVE  [ok |-> ok, completed |-> completed, unknown |-> unknown, mode |-> mode] # None
<1> DEFINE given == [ok |-> ok, completed |-> completed, unknown |-> unknown, mode |-> mode]
<1>1. DOMAIN given = {"ok", "completed", "unknown", "mode"}
  OBVIOUS
<1>2. DOMAIN None = {"none"}
  BY DEF None
<1>3. "none" \notin {"ok", "completed", "unknown", "mode"}
  OBVIOUS
<1> QED BY <1>1, <1>2, <1>3

\* The plan ends with its answer.
LEMMA PlanEnds ==
  ASSUME PlanInv, KnownStill, Around, hits' = hits, plan' = NoPlan, report' # None
  PROVE  PlanInv'
<1>1. plan'.at = "idle"
  BY DEF NoPlan
<1>2. StepInv'
  BY <1>1 DEF StepInv, InStep
<1>3. EffectsInv'
  BY <1>1 DEF EffectsInv, InStep, BeforeAnswer
<1>4. plan' \in {NoPlan} \cup [at : {"step"}, index : Nat \ {0}, count : Nat] \cup StepStates
  OBVIOUS
<1> QED BY <1>2, <1>3, <1>4, InvariantStays

LEMMA StopEnds ==
  ASSUME PlanInv, KnownStill, Around, hits' = hits,
         NEW ok, NEW unknown, Stop(ok, unknown)
  PROVE  PlanInv'
<1>1. plan' = NoPlan /\ report' # None
  BY ReportIsGiven DEF Stop
<1> QED BY <1>1, PlanEnds

-----------------------------------------------------------------------------
(* The actions.                                                            *)

LEMMA BeginPlanKeeps == ASSUME PlanInv, BeginPlan PROVE PlanInv'
<1>1. KnownStill /\ Around
  BY NoLookKeeps, AroundStays DEF BeginPlan
<1>2. hits = <<>> /\ hits' = hits
  BY DEF BeginPlan, PlanInv, EffectsInv, NoPlan
<1>3. plan' = [at |-> "step", index |-> 1, count |-> 0]
  BY DEF BeginPlan
<1>4. StepInv'
  BY <1>3 DEF StepInv, InStep
<1>5. EffectsInv'
  BY <1>2, <1>3 DEF EffectsInv, InStep, BeforeAnswer
<1>6. plan' \in {NoPlan} \cup [at : {"step"}, index : Nat \ {0}, count : Nat] \cup StepStates
  BY <1>3
<1> QED BY <1>1, <1>2, <1>4, <1>5, <1>6, InvariantStays

LEMMA StepBoundaryKeeps == ASSUME PlanInv, StepBoundary PROVE PlanInv'
<1>1. plan.at = "step" /\ plan.index <= PlanSteps /\ hits' = hits /\ Around
  BY AroundStays DEF StepBoundary
<1>2. ASSUME NEW m \in handed, NEW remap \in BOOLEAN,
             plan' = StepOf(m.ref, remap), UNCHANGED <<engine, page, handed, report>>
      PROVE  PlanInv'
  <2>1. KnownStill
    BY <1>2, NoLookKeeps
  <2>2. m \in handed' /\ PageKnown'
    BY <2>1 DEF KnownStill
  <2>3. Meant(m.ref)' # {}
    BY <2>2, HandedOutFor
  <2>4. m.ref \in Refs
    BY DEF PlanInv, PlanKeepsItsWord, PlanTypeOK
  <2> QED BY <1>1, <1>2, <2>1, <2>3, <2>4, StepBegins
<1>3. ASSUME NEW label, Labelled(label) # {}, Observes,
             plan' = StepOf(Ref(ObservedRevision,
                                CHOOSE i \in Labelled(label) : \A j \in Labelled(label) : i <= j),
                            FALSE)
      PROVE  PlanInv'
  <2> DEFINE least == CHOOSE i \in Labelled(label) : \A j \in Labelled(label) : i <= j
  <2>1. KnownStill
    BY <1>3, LookKeeps
  <2>2. dom \in Seq(Nodes)
    BY PlanAssumption DEF PlanInv, PlanKeepsItsWord, PlanTypeOK
  <2>3. Labelled(label) \in SUBSET Nat /\ Labelled(label) \subseteq DOMAIN dom
    BY <2>2 DEF Labelled
  <2>4. least \in DOMAIN dom
    <3>1. \E i \in Labelled(label) : \A j \in Labelled(label) : i <= j
      BY <1>3, <2>3, LeastExists
    <3> QED BY <2>3, <3>1
  <2> HIDE DEF least
  <2>5. PICK m : m = [ref |-> Ref(ObservedRevision, least), node |-> dom[least]]
    OBVIOUS
  <2>6. m \in handed'
    BY <1>3, <2>4, <2>5, ObservesKeeps
  <2>7. m.ref \in Refs
    BY <2>1, <2>6 DEF KnownStill, PageKnown, PageTypeOK
  <2>8. Meant(m.ref)' # {}
    BY <2>1, <2>6, HandedOutFor DEF KnownStill
  <2>9. plan' = StepOf(m.ref, FALSE)
    BY <1>3, <2>5 DEF least
  <2> QED BY <1>1, <2>1, <2>7, <2>8, <2>9, StepBegins
<1>4. ASSUME Stop(FALSE, FALSE), UNCHANGED <<engine, page, handed>> PROVE PlanInv'
  BY <1>1, <1>4, NoLookKeeps, StopEnds
<1> QED BY <1>2, <1>3, <1>4 DEF StepBoundary

\* Where nothing but the plan's step changes.
LEMMA StepOnly ==
  ASSUME PlanInv, InStep, UNCHANGED <<dom, engine, page, churn, handed, hits, budget>>,
         plan' \in StepStates, plan'.index = plan.index, plan'.asked = plan.asked,
         plan'.ref = plan.ref, plan'.healed = plan.healed, plan'.mode = plan.mode,
         plan'.at \in {"approve", "dispatch"} /\ Unwatched
           => plan.ref.revision = page.last.revision,
         plan'.at = "failed" => /\ plan'.failure \in Failures
                                /\ ~(plan'.failure.after /\ plan'.failure.eligible),
         BeforeAnswer' => BeforeAnswer
  PROVE  PlanInv'
<1>1. KnownStill /\ Around
  BY NoLookKeeps, AroundStays
<1>2. plan'.at \in {"approve", "dispatch"} /\ Unwatched'
        => plan'.ref.revision = page'.last.revision
  BY DEF Unwatched
<1> QED BY <1>1, <1>2, StepGoesOn

LEMMA StepFailsWith ==
  ASSUME PlanInv, InStep, UNCHANGED <<dom, engine, page, churn, handed, hits, budget>>,
         NEW failure \in Failures, ~(failure.after /\ failure.eligible),
         BeforeAnswer \/ failure.after,
         plan' = [plan EXCEPT !.at = "failed", !.failure = failure]
  PROVE  PlanInv'
<1>1. plan \in StepStates
  BY StepIsTyped
<1>2. /\ plan' \in StepStates /\ plan'.at = "failed" /\ plan'.failure = failure
      /\ plan'.index = plan.index /\ plan'.asked = plan.asked /\ plan'.ref = plan.ref
      /\ plan'.healed = plan.healed /\ plan'.mode = plan.mode
  BY <1>1 DEF StepStates
<1>3. BeforeAnswer' => BeforeAnswer
  BY <1>2 DEF BeforeAnswer
<1> QED BY <1>2, <1>3, StepOnly

LEMMA BeginActKeeps == ASSUME PlanInv, BeginAct PROVE PlanInv'
<1>1. /\ plan.at = "act" /\ InStep /\ BeforeAnswer
      /\ UNCHANGED <<dom, engine, page, churn, handed, hits, budget>>
  BY DEF BeginAct, InStep, BeforeAnswer
<1>2. ASSUME NEW failure \in {Refused, StaleRevision, Gone},
             plan' = [plan EXCEPT !.at = "failed", !.failure = failure]
      PROVE  PlanInv'
  <2>1. failure \in Failures /\ ~failure.after
    <3>1. ~Refused.after /\ ~StaleRevision.after /\ ~Gone.after
      BY DEF Refused, StaleRevision, Gone, Failure
    <3> QED BY <3>1, FailuresAreTyped
  <2> QED BY <1>1, <1>2, <2>1, StepFailsWith
<1>3. ASSUME page.last # None, plan.ref.revision = page.revision,
             plan' = [plan EXCEPT !.at = "approve"]
      PROVE  PlanInv'
  <2>1. plan \in StepStates
    BY <1>1, StepIsTyped
  <2>2. /\ plan' \in StepStates /\ plan'.at = "approve"
        /\ plan'.index = plan.index /\ plan'.asked = plan.asked /\ plan'.ref = plan.ref
        /\ plan'.healed = plan.healed /\ plan'.mode = plan.mode
    BY <1>3, <2>1 DEF StepStates
  <2>3. PICK m \in handed : m.ref = plan.ref
    BY <1>1 DEF PlanInv, StepInv, Meant
  <2>4. /\ m.ref.revision <= page.last.revision /\ page.last.revision <= page.revision
        /\ m.ref.revision \in Nat /\ page.last.revision \in Nat /\ page.revision \in Nat
    BY DEF PlanInv, HandedInv, PlanKeepsItsWord, PlanTypeOK, Refs
  <2>5. plan.ref.revision = page.last.revision
    BY <1>3, <2>3, <2>4
  <2> QED BY <1>1, <2>2, <2>5, StepOnly
<1> QED BY <1>1, <1>2, <1>3 DEF BeginAct

LEMMA ApprovedKeeps == ASSUME PlanInv, Approved PROVE PlanInv'
<1>1. /\ plan.at = "approve" /\ InStep /\ BeforeAnswer
      /\ UNCHANGED <<dom, engine, page, churn, handed, hits, budget>>
  BY DEF Approved, InStep, BeforeAnswer
<1>2. CASE plan' = [plan EXCEPT !.at = "dispatch"]
  <2>1. plan \in StepStates
    BY <1>1, StepIsTyped
  <2>2. /\ plan' \in StepStates /\ plan'.at = "dispatch"
        /\ plan'.index = plan.index /\ plan'.asked = plan.asked /\ plan'.ref = plan.ref
        /\ plan'.healed = plan.healed /\ plan'.mode = plan.mode
    BY <1>2, <2>1 DEF StepStates
  <2>3. Unwatched => plan.ref.revision = page.last.revision
    BY <1>1 DEF PlanInv, StepInv
  <2> QED BY <1>1, <2>2, <2>3, StepOnly
<1>3. CASE plan' = [plan EXCEPT !.at = "failed", !.failure = Refused]
  <2>1. Refused \in Failures /\ ~Refused.after
    BY FailuresAreTyped DEF Refused, Failure
  <2> QED BY <1>1, <1>3, <2>1, StepFailsWith
<1> QED BY <1>2, <1>3 DEF Approved

\* Unwatched, a reference resolves to what it was handed out for.
LEMMA ResolvedNode ==
  ASSUME PlanInv, plan.at = "dispatch", EngineNode(Translated(plan.ref)) # Nobody
  PROVE  /\ EngineNode(Translated(plan.ref)) \in Nodes
         /\ Unwatched => Meant(plan.ref) = {EngineNode(Translated(plan.ref))}
<1>1. engine.bound \in Seq(Nodes) /\ engine.revision \in Nat
  BY DEF PlanInv, PlanKeepsItsWord, PlanTypeOK
<1>2. PICK eref : eref = Translated(plan.ref)
  OBVIOUS
<1>3. /\ eref.ordinal \in DOMAIN engine.bound
      /\ EngineNode(eref) = engine.bound[eref.ordinal]
  BY <1>2 DEF EngineNode
<1>4. EngineNode(eref) \in Nodes
  BY <1>1, <1>3
<1>5. ASSUME Unwatched PROVE Meant(plan.ref) = {EngineNode(eref)}
  <2>1. InStep
    BY DEF InStep
  <2>2. plan.ref.revision = page.last.revision /\ Meant(plan.ref) # {}
    BY <1>5, <2>1 DEF PlanInv, StepInv
  <2>3. PICK m \in handed : m.ref = plan.ref
    BY <2>2 DEF Meant
  <2>4. /\ m.ref.ordinal \in DOMAIN page.last.shown
        /\ m.node = page.last.shown[m.ref.ordinal]
    BY <2>2, <2>3 DEF PlanInv, HandedInv
  <2>5. page.last # None
    BY WasObserved DEF PlanInv, PlanKeepsItsWord, PlanTypeOK
  <2>6. eref = Ref(page.last.engineRevision, plan.ref.ordinal)
    BY <1>2, <2>2, <2>3, <2>4, <2>5 DEF Translated
  <2>7. eref.ordinal = m.ref.ordinal
    BY <2>3, <2>6 DEF Ref
  <2>8. EngineNode(eref) = m.node
    BY <1>3, <2>4, <2>7 DEF PlanInv, HandedInv
  <2>9. OneNodeEach(handed)
    BY DEF PlanInv, HandedInv, OneNodeEach
  <2>10. MeantIn(handed, m.ref) = {m.node}
    BY <2>9, MeantOne
  <2> QED BY <2>3, <2>8, <2>10 DEF Meant, MeantIn
<1> QED BY <1>2, <1>4, <1>5

\* An effect through a reference that resolves.
LEMMA HitKeepsTheWord ==
  ASSUME PlanInv, plan.at = "dispatch", EngineNode(Translated(plan.ref)) # Nobody,
         NEW answered \in BOOLEAN, hits' = Append(hits, Hit(answered)),
         UNCHANGED <<handed, budget>>
  PROVE  /\ WordKept' /\ hits' \in Seq(Effects)
         /\ \A i \in DOMAIN hits' : hits'[i].step <= plan.index
         /\ ~answered => \A i \in DOMAIN hits' : hits'[i].step = plan.index => ~hits'[i].answered
<1> DEFINE node == EngineNode(Translated(plan.ref))
           hit == Hit(answered)
<1>1. InStep /\ BeforeAnswer
  BY DEF InStep, BeforeAnswer
<1>2. plan \in StepStates
  BY <1>1, StepIsTyped
<1>3. node \in Nodes /\ (Unwatched => Meant(plan.ref) = {node})
  BY ResolvedNode
<1>4. /\ hit.answered = answered /\ hit.asked = plan.asked /\ hit.via = plan.ref
      /\ hit.node = node /\ hit.step = plan.index /\ hit.mode = plan.mode
      /\ hit.healed = plan.healed /\ hit.remapped = plan.remapped
  BY DEF Hit
<1>5. hit \in Effects
  <2>1. plan.index \in Nat
    BY <1>2 DEF StepStates
  <2> QED BY <1>2, <1>3, <2>1 DEF Hit, Effects, StepStates
<1> HIDE DEF hit, node
<1>6. hits \in Seq(Effects) /\ hits' = Append(hits, hit)
  BY DEF PlanInv, PlanKeepsItsWord, PlanTypeOK, hit
<1>7. /\ hits' \in Seq(Effects) /\ Len(hits) \in Nat
      /\ DOMAIN hits = 1 .. Len(hits) /\ DOMAIN hits' = 1 .. Len(hits) + 1
      /\ \A i \in 1 .. Len(hits) : hits'[i] = hits[i]
      /\ hits'[Len(hits) + 1] = hit
  BY <1>5, <1>6
<1>8. \A i \in DOMAIN hits' : (i \in DOMAIN hits /\ hits'[i] = hits[i])
                              \/ (i = Len(hits) + 1 /\ hits'[i] = hit)
  BY <1>7
<1>9. /\ \A i \in DOMAIN hits : hits[i].step <= plan.index
      /\ \A i \in DOMAIN hits : hits[i].step = plan.index => ~hits[i].answered
  BY <1>1 DEF PlanInv, EffectsInv
<1>10. plan.index \in Nat
  BY <1>2 DEF StepStates
<1>11. \A i \in DOMAIN hits' : hits'[i].step <= plan.index
  BY <1>4, <1>8, <1>9, <1>10
<1>12. ~answered => \A i \in DOMAIN hits' : hits'[i].step = plan.index => ~hits'[i].answered
  BY <1>4, <1>8, <1>9
<1>13. AnsweredEffectIsLast'
  <2> SUFFICES ASSUME NEW i \in DOMAIN hits', NEW j \in DOMAIN hits', i < j,
                      hits'[i].step = hits'[j].step
               PROVE  ~hits'[i].answered
    BY DEF AnsweredEffectIsLast
  <2>1. i \in DOMAIN hits /\ hits'[i] = hits[i]
    BY <1>7, <1>8
  <2>2. CASE j \in DOMAIN hits /\ hits'[j] = hits[j]
    <3>1. AnsweredEffectIsLast
      BY DEF PlanInv, PlanKeepsItsWord
    <3> QED BY <2>1, <2>2, <3>1 DEF AnsweredEffectIsLast
  <2>3. CASE hits'[j] = hit
    BY <1>4, <1>9, <2>1, <2>3
  <2> QED BY <1>8, <2>2, <2>3
<1>14. ASSUME Unwatched' PROVE ReferencesHold' /\ HealsToTheSameLabel'
  <2>1. Unwatched /\ handed' = handed
    BY <1>14 DEF Unwatched
  <2>2. ReferencesHold /\ HealsToTheSameLabel
    BY <2>1 DEF PlanInv, PlanKeepsItsWord
  <2>3. Meant(plan.ref) = {node} /\ Cardinality({node}) = 1
    BY <1>3, <2>1, FS_Singleton
  <2>4. ReferencesHold'
    <3> SUFFICES ASSUME NEW i \in DOMAIN hits'
                 PROVE  /\ hits'[i].node \in {m.node : m \in {n \in handed : n.ref = hits'[i].via}}
                        /\ Cardinality({m.node : m \in {n \in handed : n.ref = hits'[i].via}}) = 1
      BY <2>1 DEF ReferencesHold, Meant
    <3>1. CASE i \in DOMAIN hits /\ hits'[i] = hits[i]
      BY <2>2, <3>1 DEF ReferencesHold, Meant
    <3>2. CASE hits'[i] = hit
      BY <1>4, <2>3, <3>2 DEF Meant
    <3> QED BY <1>8, <3>1, <3>2
  <2>5. node \in Meant(plan.ref)
    BY <2>3
  <2>6. LabelOf[node] \in LabelsMeant(plan.ref)
    BY <2>5 DEF LabelsMeant
  <2>7. (plan.healed => plan.mode = "verified") => LabelOf[node] \in LabelsMeant(plan.asked)
    BY <1>1, <2>6 DEF PlanInv, StepInv
  <2>8. HealsToTheSameLabel'
    <3> SUFFICES ASSUME NEW i \in DOMAIN hits', hits'[i].healed \/ hits'[i].remapped,
                        hits'[i].healed => hits'[i].mode = "verified"
                 PROVE  LabelOf[hits'[i].node] \in
                          {LabelOf[n] : n \in {m.node : m \in {n \in handed :
                                                                 n.ref = hits'[i].asked}}}
      BY <2>1 DEF HealsToTheSameLabel, LabelsMeant, Meant
    <3>1. CASE i \in DOMAIN hits /\ hits'[i] = hits[i]
      BY <2>2, <3>1 DEF HealsToTheSameLabel, LabelsMeant, Meant
    <3>2. CASE hits'[i] = hit
      BY <1>4, <2>7, <3>2 DEF LabelsMeant, Meant
    <3> QED BY <1>8, <3>1, <3>2
  <2> QED BY <2>4, <2>8
<1> QED BY <1>7, <1>11, <1>12, <1>13, <1>14 DEF WordKept

LEMMA DispatchActKeeps == ASSUME PlanInv, DispatchAct PROVE PlanInv'
<1> DEFINE node == EngineNode(Translated(plan.ref))
<1>1. /\ plan.at = "dispatch" /\ InStep /\ BeforeAnswer
      /\ UNCHANGED <<dom, engine, churn, report, handed, budget>>
  BY DEF DispatchAct, InStep, BeforeAnswer
<1>2. plan \in StepStates
  BY <1>1, StepIsTyped
<1>3. Around
  BY <1>1, AroundStays
<1>4. CASE /\ node = Nobody /\ UNCHANGED <<page, hits>>
           /\ plan' = [plan EXCEPT !.at = "failed", !.failure = Gone]
  <2>1. Gone \in Failures /\ ~Gone.after
    BY FailuresAreTyped DEF Gone, Failure
  <2> QED BY <1>1, <1>4, <2>1, StepFailsWith
<1>5. CASE /\ node # Nobody /\ hits' = Append(hits, Hit(TRUE))
           /\ page' = [page EXCEPT !.revision = @ + 1]
           /\ plan' = [plan EXCEPT !.at = "followup"]
  <2>1. /\ WordKept' /\ hits' \in Seq(Effects)
        /\ \A i \in DOMAIN hits' : hits'[i].step <= plan.index
    BY <1>1, <1>5, HitKeepsTheWord
  <2>2. /\ plan' \in StepStates /\ plan'.at = "followup" /\ plan'.index = plan.index
        /\ plan'.asked = plan.asked /\ plan'.ref = plan.ref
        /\ plan'.healed = plan.healed /\ plan'.mode = plan.mode
    BY <1>2, <1>5 DEF StepStates
  <2>3. KnownStill
    BY <1>1, <1>5, RevisionMovesOn
  <2>4. StepInv'
    BY <1>1, <2>2, <2>3, StepInvStays
  <2>5. EffectsInv'
    BY <2>1, <2>2 DEF EffectsInv, BeforeAnswer
  <2>6. PlanTypeOK'
    BY <1>3, <2>1, <2>2, <2>3
       DEF PlanTypeOK, KnownStill, PageKnown, PageTypeOK, Around
  <2> QED BY <2>1, <2>3, <2>4, <2>5, <2>6
          DEF PlanInv, PlanKeepsItsWord, WordKept, KnownStill, PageKnown
<1>6. ASSUME node # Nobody, hits' \in {hits, Append(hits, Hit(FALSE))}, UNCHANGED page,
             NEW text \in BOOLEAN,
             plan' = [plan EXCEPT !.at = "failed", !.failure = Uncertain(text)]
      PROVE  PlanInv'
  <2>1. PICK failure \in Failures : failure = Uncertain(text)
    BY FailuresAreTyped
  <2>2. ~failure.after
    BY <2>1 DEF Uncertain, Failure
  <2>3. CASE hits' = hits
    BY <1>1, <1>6, <2>1, <2>2, <2>3, StepFailsWith
  <2>4. CASE hits' = Append(hits, Hit(FALSE))
    <3>1. /\ WordKept' /\ hits' \in Seq(Effects)
          /\ \A i \in DOMAIN hits' : hits'[i].step <= plan.index
          /\ \A i \in DOMAIN hits' : hits'[i].step = plan.index => ~hits'[i].answered
      BY <1>1, <1>6, <2>4, HitKeepsTheWord
    <3>2. /\ plan' \in StepStates /\ plan'.at = "failed" /\ plan'.index = plan.index
          /\ plan'.asked = plan.asked /\ plan'.ref = plan.ref /\ plan'.failure = failure
          /\ plan'.healed = plan.healed /\ plan'.mode = plan.mode
      BY <1>2, <1>6, <2>1 DEF StepStates
    <3>3. KnownStill
      BY <1>1, <1>6, NoLookKeeps
    <3>4. StepInv'
      BY <1>1, <2>2, <3>2, <3>3, StepInvStays
    <3>5. EffectsInv'
      BY <3>1, <3>2 DEF EffectsInv
    <3>6. PlanTypeOK'
      BY <1>3, <3>1, <3>2, <3>3
         DEF PlanTypeOK, KnownStill, PageKnown, PageTypeOK, Around
    <3> QED BY <3>1, <3>3, <3>4, <3>5, <3>6
            DEF PlanInv, PlanKeepsItsWord, WordKept, KnownStill, PageKnown
  <2> QED BY <1>6, <2>3, <2>4
<1> QED BY <1>4, <1>5, <1>6 DEF DispatchAct

LEMMA FollowUpKeeps == ASSUME PlanInv, FollowUp PROVE PlanInv'
<1>1. /\ plan.at = "followup" /\ InStep /\ UNCHANGED <<dom, churn, report, hits, budget>>
  BY DEF FollowUp, InStep
<1>2. plan \in StepStates
  BY <1>1, StepIsTyped
<1>3. Around
  BY <1>1, AroundStays
<1>4. ASSUME plan' = [plan EXCEPT !.at = "done"], KnownStill PROVE PlanInv'
  <2>1. /\ plan' \in StepStates /\ plan'.at = "done"
        /\ plan'.index = plan.index /\ plan'.asked = plan.asked /\ plan'.ref = plan.ref
        /\ plan'.healed = plan.healed /\ plan'.mode = plan.mode
    BY <1>2, <1>4 DEF StepStates
  <2>2. ~BeforeAnswer'
    BY <2>1 DEF BeforeAnswer
  <2> QED BY <1>1, <1>3, <1>4, <2>1, <2>2, StepGoesOn
<1>5. ASSUME NEW text \in BOOLEAN,
             plan' = [plan EXCEPT !.at = "failed", !.failure = AfterEffect(text)],
             UNCHANGED <<engine, page, handed>>
      PROVE  PlanInv'
  <2>1. PICK failure \in Failures : failure = AfterEffect(text)
    BY FailuresAreTyped
  <2>2. failure.after /\ ~failure.eligible
    BY <2>1 DEF AfterEffect, Failure
  <2> QED BY <1>1, <1>5, <2>1, <2>2, StepFailsWith
<1> QED BY <1>4, <1>5, LookKeeps, NoLookKeeps DEF FollowUp

LEMMA RemapActKeeps == ASSUME PlanInv, RemapAct PROVE PlanInv'
<1> DEFINE like == Labelled(LabelOf[Baseline(plan.ref)])
           found == CHOOSE i \in like : TRUE
<1>1. /\ plan.at = "failed" /\ InStep /\ plan.failure.eligible /\ Baseline(plan.ref) # Nobody
      /\ Observes /\ UNCHANGED <<dom, churn, report, hits, budget>>
  BY DEF RemapAct, MayRemap, InStep
<1>2. plan \in StepStates /\ plan.ref \in Refs
  BY <1>1, StepIsTyped DEF StepStates
<1>3. Around /\ KnownStill
  BY <1>1, AroundStays, LookKeeps
<1>4. BeforeAnswer
  BY <1>1 DEF BeforeAnswer, PlanInv, StepInv
<1>5. CASE Cardinality(like) = 1 /\ plan' = [plan EXCEPT !.at = "act", !.remapped = TRUE,
                                                         !.ref = Ref(ObservedRevision, found)]
  <2>1. like # {}
    <3>1. Cardinality({}) = 0
      BY FS_EmptySet
    <3> QED BY <1>5, <3>1
  <2>2. found \in DOMAIN dom /\ LabelOf[dom[found]] = LabelOf[Baseline(plan.ref)]
    <3>1. found \in like
      BY <2>1
    <3> QED BY <3>1 DEF Labelled
  <2> HIDE DEF like, found
  <2>3. PICK m : m = [ref |-> Ref(ObservedRevision, found), node |-> dom[found]]
    OBVIOUS
  <2>4. m \in handed'
    BY <1>1, <2>2, <2>3, ObservesKeeps
  <2>5. Meant(m.ref)' # {} /\ LabelsMeant(m.ref)' = {LabelOf[m.node]}
    BY <1>3, <2>4, HandedOutFor DEF KnownStill
  <2>6. m.ref \in Refs
    BY <1>3, <2>4 DEF KnownStill, PageKnown, PageTypeOK
  <2>7. /\ plan' \in StepStates /\ plan'.at = "act" /\ plan'.index = plan.index
        /\ plan'.asked = plan.asked /\ plan'.ref = m.ref
        /\ plan'.healed = plan.healed /\ plan'.mode = plan.mode
    BY <1>2, <1>5, <2>3, <2>6 DEF StepStates
  <2>8. Baseline(plan.ref) \in MeantIn(handed, plan.ref)
    BY <1>1, <1>2, BaselineMeant
  <2>9. LabelOf[m.node] \in LabelsMeant(plan.ref)
    BY <2>2, <2>3, <2>8 DEF LabelsMeant, Meant, MeantIn
  <2>10. (plan'.healed => plan'.mode = "verified")
           => LabelsMeant(m.ref)' \subseteq LabelsMeant(plan.asked)
    BY <1>1, <2>5, <2>7, <2>9 DEF PlanInv, StepInv
  <2> QED BY <1>1, <1>3, <1>4, <2>5, <2>7, <2>10, StepIsRenamed
<1>6. CASE plan' = [plan EXCEPT !.remapped = TRUE, !.failure = Refused]
  <2>1. Refused \in Failures /\ ~Refused.after
    BY FailuresAreTyped DEF Refused, Failure
  <2>2. /\ plan' \in StepStates /\ plan'.at = "failed" /\ plan'.failure = Refused
        /\ plan'.index = plan.index /\ plan'.asked = plan.asked /\ plan'.ref = plan.ref
        /\ plan'.healed = plan.healed /\ plan'.mode = plan.mode
    BY <1>1, <1>2, <1>6, <2>1 DEF StepStates
  <2> QED BY <1>1, <1>3, <1>4, <2>1, <2>2, StepGoesOn
<1> QED BY <1>5, <1>6 DEF RemapAct

LEMMA StepDoneKeeps == ASSUME PlanInv, StepDone PROVE PlanInv'
<1>1. /\ plan.at = "done" /\ InStep /\ hits' = hits
      /\ UNCHANGED <<dom, engine, page, handed, budget>>
      /\ churn' = IF churn = 0 THEN 0 ELSE churn - 1
  BY DEF StepDone, InStep
<1>2. plan.index \in Nat \ {0} /\ plan.count \in Nat /\ plan.index \in 1 .. PlanSteps
  <2>1. plan \in StepStates
    BY <1>1, StepIsTyped
  <2> QED BY <2>1, PlanAssumption DEF StepStates
<1>3. KnownStill
  BY <1>1, NoLookKeeps
<1>4. Around
  BY <1>1 DEF Around, PlanInv, PlanKeepsItsWord, PlanTypeOK, Unwatched
<1>5. CASE plan' = [at |-> "step", index |-> plan.index + 1, count |-> plan.count + 1]
  <2>1. plan'.at = "step" /\ plan'.index = plan.index + 1
    BY <1>5
  <2>2. StepInv'
    BY <2>1 DEF StepInv, InStep
  <2>3. \A i \in DOMAIN hits : hits[i].step <= plan.index /\ hits[i].step \in Nat
    <3>1. hits \in Seq(Effects)
      BY DEF PlanInv, PlanKeepsItsWord, PlanTypeOK
    <3>2. \A i \in DOMAIN hits : hits[i] \in Effects
      BY <3>1
    <3>3. \A i \in DOMAIN hits : hits[i].step <= plan.index
      BY <1>1 DEF PlanInv, EffectsInv
    <3> QED BY <3>2, <3>3 DEF Effects
  <2>4. \A i \in DOMAIN hits' : hits'[i].step < plan'.index
    BY <1>1, <1>2, <2>1, <2>3
  <2>5. EffectsInv'
    BY <2>1, <2>4 DEF EffectsInv, InStep, BeforeAnswer
  <2>6. plan' \in {NoPlan} \cup [at : {"step"}, index : Nat \ {0}, count : Nat] \cup StepStates
    BY <1>2, <1>5
  <2> QED BY <1>1, <1>3, <1>4, <2>2, <2>5, <2>6, InvariantStays
<1>6. CASE /\ report' = [ok |-> FALSE, completed |-> plan.count + 1, unknown |-> FALSE,
                         mode |-> Mode]
           /\ plan' = NoPlan
  BY <1>1, <1>3, <1>4, <1>6, ReportIsGiven, PlanEnds
<1> QED BY <1>5, <1>6 DEF StepDone

LEMMA PlanDoneKeeps == ASSUME PlanInv, PlanDone PROVE PlanInv'
BY NoLookKeeps, AroundStays, StopEnds DEF PlanDone

LEMMA StepFailsKeeps == ASSUME PlanInv, StepFails PROVE PlanInv'
BY NoLookKeeps, AroundStays, StopEnds DEF StepFails

LEMMA HealKeeps == ASSUME PlanInv, Heal PROVE PlanInv'
<1>1. /\ plan.at = "failed" /\ InStep /\ ~plan.failure.after
      /\ Observes /\ churn' = churn + 1 /\ UNCHANGED <<dom, hits, budget>>
  BY DEF Heal, Healable, InStep
<1>2. plan \in StepStates /\ plan.asked \in Refs
  BY <1>1, StepIsTyped DEF StepStates
<1>3. Around
  BY <1>1 DEF Around, PlanInv, PlanKeepsItsWord, PlanTypeOK, Unwatched
<1>4. KnownStill /\ BeforeAnswer
  BY <1>1, LookKeeps DEF BeforeAnswer
<1>5. ASSUME NEW mode \in {"stable", "verified"}, Candidate(plan.asked, mode),
             plan' = [plan EXCEPT !.at = "act", !.healed = TRUE, !.remapped = FALSE,
                                  !.mode = mode,
                                  !.ref = Ref(ObservedRevision, plan.asked.ordinal)]
      PROVE  PlanInv'
  <2>1. plan.asked.ordinal \in DOMAIN dom
    BY <1>5 DEF Candidate
  <2>2. PICK m : m = [ref |-> Ref(ObservedRevision, plan.asked.ordinal),
                      node |-> dom[plan.asked.ordinal]]
    OBVIOUS
  <2>3. m \in handed'
    BY <1>1, <2>1, <2>2, ObservesKeeps
  <2>4. Meant(m.ref)' # {} /\ LabelsMeant(m.ref)' = {LabelOf[m.node]}
    BY <1>4, <2>3, HandedOutFor DEF KnownStill
  <2>5. m.ref \in Refs
    BY <1>4, <2>3 DEF KnownStill, PageKnown, PageTypeOK
  <2>6. /\ plan' \in StepStates /\ plan'.at = "act" /\ plan'.index = plan.index
        /\ plan'.asked = plan.asked /\ plan'.ref = m.ref
        /\ plan'.healed = TRUE /\ plan'.mode = mode
    BY <1>2, <1>5, <2>2, <2>5 DEF StepStates
  <2>7. mode = "verified" => LabelOf[m.node] \in LabelsMeant(plan.asked)
    <3>1. SUFFICES ASSUME mode = "verified" PROVE LabelOf[m.node] \in LabelsMeant(plan.asked)
      OBVIOUS
    <3>2. /\ Baseline(plan.asked) # Nobody
          /\ LabelOf[dom[plan.asked.ordinal]] = LabelOf[Baseline(plan.asked)]
      BY <1>5, <3>1 DEF Candidate
    <3>3. Baseline(plan.asked) \in MeantIn(handed, plan.asked)
      BY <1>2, <3>2, BaselineMeant
    <3> QED BY <2>2, <3>2, <3>3 DEF LabelsMeant, Meant, MeantIn
  <2>8. (plan'.healed => plan'.mode = "verified")
          => LabelsMeant(m.ref)' \subseteq LabelsMeant(plan.asked)
    BY <2>4, <2>6, <2>7
  <2> QED BY <1>1, <1>3, <1>4, <2>4, <2>6, <2>8, StepIsRenamed
<1>6. ASSUME NEW mode, NEW unknown,
             report' = [ok |-> FALSE, completed |-> plan.count, mode |-> mode,
                        unknown |-> unknown],
             plan' = NoPlan
      PROVE  PlanInv'
  <2>1. report' = [ok |-> FALSE, completed |-> plan.count, unknown |-> unknown,
                   mode |-> mode]
    BY <1>6
  <2>2. report' # None
    BY <2>1, ReportIsGiven
  <2> QED BY <1>1, <1>3, <1>4, <1>6, <2>2, PlanEnds
<1>7. PICK mode \in {"stable", "verified"} :
         mode = IF churn' >= ChurnLimit THEN "verified" ELSE "stable"
  OBVIOUS
<1>8. \/ /\ Candidate(plan.asked, mode)
         /\ plan' = [plan EXCEPT !.at = "act", !.healed = TRUE, !.remapped = FALSE,
                                 !.mode = mode,
                                 !.ref = Ref(ObservedRevision, plan.asked.ordinal)]
      \/ /\ report' = [ok |-> FALSE, completed |-> plan.count, mode |-> mode,
                       unknown |-> /\ plan.failure.unknown
                                   /\ plan.asked.ordinal \notin DOMAIN dom]
         /\ plan' = NoPlan
  BY <1>7 DEF Heal
<1> QED BY <1>5, <1>6, <1>8

\* The plan stays where it is.
LEMMA PlanWaits ==
  ASSUME PlanInv, KnownStill, Around, UNCHANGED <<plan, report, hits>>,
         Unwatched' => page' = page
  PROVE  PlanInv'
<1>1. CASE InStep
  <2>1. plan \in StepStates
    BY <1>1, StepIsTyped
  <2>2. plan.at \in {"approve", "dispatch"} /\ Unwatched'
          => plan.ref.revision = page'.last.revision
    BY <1>1 DEF PlanInv, StepInv, Around
  <2>3. plan.at = "failed" => /\ plan.failure \in Failures
                              /\ ~(plan.failure.after /\ plan.failure.eligible)
    BY <1>1 DEF PlanInv, StepInv
  <2>4. BeforeAnswer' => BeforeAnswer
    BY DEF BeforeAnswer
  <2> QED BY <1>1, <2>1, <2>2, <2>3, <2>4, StepGoesOn
<1>2. CASE ~InStep
  <2>1. ~InStep'
    BY <1>2 DEF InStep
  <2>2. StepInv'
    BY <2>1 DEF StepInv
  <2>3. EffectsInv'
    BY <1>2, <2>1 DEF PlanInv, EffectsInv, BeforeAnswer
  <2>4. plan' \in {NoPlan} \cup [at : {"step"}, index : Nat \ {0}, count : Nat] \cup StepStates
    BY DEF PlanInv, PlanKeepsItsWord, PlanTypeOK
  <2> QED BY <2>2, <2>3, <2>4, InvariantStays
<1> QED BY <1>1, <1>2

LEMMA DocumentChangesKeeps == ASSUME PlanInv, DocumentChanges PROVE PlanInv'
<1>1. /\ KnownStill /\ UNCHANGED <<plan, report, hits>> /\ page' = page
      /\ dom' \in Documents /\ churn' = churn
      /\ budget.changes > 0 /\ budget' = [budget EXCEPT !.changes = @ - 1]
  BY NoLookKeeps DEF DocumentChanges
<1>2. budget \in [others : 0 .. Others, changes : 0 .. Changes] /\ churn \in Nat
  BY DEF PlanInv, PlanKeepsItsWord, PlanTypeOK
<1>3. /\ budget' \in [others : 0 .. Others, changes : 0 .. Changes]
      /\ budget'.others = budget.others
  BY <1>1, <1>2, PlanAssumption
<1>4. Around
  BY <1>1, <1>2, <1>3 DEF Around, Unwatched
<1> QED BY <1>1, <1>4, PlanWaits

LEMMA OtherObservesKeeps == ASSUME PlanInv, OtherObserves PROVE PlanInv'
<1>1. /\ KnownStill /\ UNCHANGED <<plan, report, hits>> /\ dom' = dom /\ churn' = churn
      /\ budget.others > 0 /\ budget.changes > 0
      /\ budget' = [others |-> budget.others - 1, changes |-> budget.changes - 1]
  BY LookKeeps DEF OtherObserves
<1>2. /\ budget \in [others : 0 .. Others, changes : 0 .. Changes] /\ churn \in Nat
      /\ dom \in Documents
  BY DEF PlanInv, PlanKeepsItsWord, PlanTypeOK
<1>3. /\ budget.others \in 0 .. Others /\ budget.changes \in 0 .. Changes
      /\ Others \in Nat /\ Changes \in Nat
  BY <1>2, PlanAssumption
<1>4. /\ budget'.others = budget.others - 1
      /\ budget' \in [others : 0 .. Others, changes : 0 .. Changes]
  BY <1>1, <1>3
<1>5. ~Unwatched'
  BY <1>3, <1>4 DEF Unwatched
<1>6. Around
  BY <1>1, <1>2, <1>4, <1>5 DEF Around
<1> QED BY <1>1, <1>5, <1>6, PlanWaits

-----------------------------------------------------------------------------
LEMMA PlanInitOK == ASSUME PlanInit PROVE PlanInv
<1>1. dom \in Seq(Nodes)
  BY PlanAssumption DEF PlanInit
<1>2. /\ page.revision = 1 /\ page.history = [r \in {1} |-> dom]
      /\ page.last = [revision |-> 1, engineRevision |-> 1, shown |-> dom]
      /\ engine = [revision |-> 1, bound |-> dom]
      /\ handed = {[ref |-> Ref(1, i), node |-> dom[i]] : i \in DOMAIN dom}
      /\ plan = NoPlan /\ hits = <<>> /\ dom \in Documents
      /\ budget = [others |-> Others, changes |-> Changes]
  BY DEF PlanInit
<1>3. /\ page.last.revision = 1 /\ page.last.engineRevision = 1 /\ page.last.shown = dom
      /\ engine.revision = 1 /\ engine.bound = dom
  BY <1>2
<1>4. DOMAIN page.history = {1} /\ \A r \in DOMAIN page.history : page.history[r] = dom
  BY <1>2
<1>5. IsFiniteSet(DOMAIN page.history) /\ Cardinality(DOMAIN page.history) <= HistoryLimit
  <2>1. IsFiniteSet({1}) /\ Cardinality({1}) = 1
    BY FS_Singleton
  <2>2. 1 <= HistoryLimit
    BY PlanAssumption
  <2> QED BY <1>4, <2>1, <2>2
<1>6. \A m \in handed : /\ m.ref.revision = 1 /\ m.ref.ordinal \in DOMAIN dom
                        /\ m.node = dom[m.ref.ordinal]
  BY <1>2 DEF Ref
<1>7. \A i \in DOMAIN dom : [ref |-> Ref(1, i), node |-> dom[i]] \in handed
  BY <1>2
<1>8. handed \subseteq [ref : Refs, node : Nodes]
  <2> SUFFICES ASSUME NEW i \in DOMAIN dom
               PROVE  [ref |-> Ref(1, i), node |-> dom[i]] \in [ref : Refs, node : Nodes]
    BY <1>2
  <2>1. i \in Nat \ {0} /\ dom[i] \in Nodes
    BY <1>1
  <2> QED BY <2>1 DEF Refs, Ref
<1>9. HandedInv
  <2>1. \A m, n \in handed : m.ref = n.ref => m.node = n.node
    BY <1>6
  <2>2. \A m \in handed : m.ref.revision <= 1
    BY <1>6
  <2>3. page.last.revision <= page.revision
    BY <1>2, <1>3
  <2> QED BY <1>2, <1>3, <1>6, <1>7, <2>1, <2>2, <2>3 DEF HandedInv
<1>10. HistoryInv
  BY <1>4, <1>7 DEF HistoryInv
<1>11. plan.at = "idle" /\ StepInv /\ EffectsInv
  BY <1>2 DEF NoPlan, StepInv, EffectsInv, InStep, BeforeAnswer
<1>12. PlanTypeOK
  <2>1. churn \in Nat
    BY PlanAssumption DEF PlanInit
  <2>2. page.last \in [revision : Nat, engineRevision : Nat, shown : Seq(Nodes)]
    BY <1>1, <1>2
  <2>3. engine \in [revision : Nat, bound : Seq(Nodes)]
    BY <1>1, <1>2
  <2>4. hits \in Seq(Effects)
    BY <1>2
  <2>5. budget \in [others : 0 .. Others, changes : 0 .. Changes]
    BY <1>2, PlanAssumption
  <2> QED BY <1>1, <1>2, <1>4, <1>5, <1>8, <2>1, <2>2, <2>3, <2>4, <2>5 DEF PlanTypeOK
<1>13. AnsweredEffectIsLast /\ ReferencesHold /\ HealsToTheSameLabel
  BY <1>2 DEF AnsweredEffectIsLast, ReferencesHold, HealsToTheSameLabel
<1> QED BY <1>9, <1>10, <1>11, <1>12, <1>13 DEF PlanInv, PlanKeepsItsWord

LEMMA PlanStepOK == ASSUME PlanInv, [PlanNext]_planVars PROVE PlanInv'
<1>1. CASE PlanNext
  BY <1>1, BeginPlanKeeps, StepBoundaryKeeps, BeginActKeeps, ApprovedKeeps, DispatchActKeeps,
     FollowUpKeeps, RemapActKeeps, StepDoneKeeps, PlanDoneKeeps, HealKeeps, StepFailsKeeps,
     DocumentChangesKeeps, OtherObservesKeeps DEF PlanNext
<1>2. CASE UNCHANGED planVars
  <2>1. KnownStill /\ Around
    BY <1>2, NoLookKeeps, AroundStays DEF planVars
  <2> QED BY <1>2, <2>1, PlanWaits DEF planVars
<1> QED BY <1>1, <1>2

\* The inductive invariant of a plan: a reference is handed out once, for one element,
\* and the latest are the engine's; the reference a step acts through was handed out, and
\* is like the one the step named wherever the code promises it (service.ts act,
\* executePlan, observeInternal).
THEOREM PlanInvariant == PlanSpec => []PlanInv
BY PlanInitOK, PlanStepOK, PTL DEF PlanSpec

\* A plan never repeats an effect that was answered, and acts on the element it named or,
\* where it heals, on one like it (service.ts executePlan, act, remapAct).
THEOREM PlansKeepTheirWord == PlanSpec => []PlanKeepsItsWord
<1>1. PlanInv => PlanKeepsItsWord
  BY DEF PlanInv
<1> QED BY <1>1, PlanInvariant, PTL

-----------------------------------------------------------------------------
(* Autofill: what the receipts say, and what is stageKnown of the stage.        *)

AtField == {"find", "write", "between", "caught", "wrote", "verify"}
AfterFields == {"final", "artifact", "done"}

FillTypeOK ==
  /\ options \in [scope : BOOLEAN, onVerifyFail : {"fail", "retry", "skip"},
              skipsAmbiguous : BOOLEAN, widget : BOOLEAN, verify : BOOLEAN]
  /\ runAt \in AtField \cup AfterFields \cup {"preflight", "values", "thrown"}
  /\ at \in Fields
  /\ fieldWrite \in {"not_started", "dispatched", "completed"}
  /\ scopeValid \in BOOLEAN /\ stageKnown \in BOOLEAN /\ artifact \in BOOLEAN
  /\ DOMAIN receipts = Fields
  /\ written \in [Fields -> BOOLEAN]

Unattempted(f) == receipts[f].status = "not_attempted" /\ ~written[f]

\* What UnwrittenIsUntouched promises of one field.
ToldTruly(f) ==
  (receipts[f].status \in {"not_attempted", "skipped", "failed"}
     /\ receipts[f].code # "mismatch") => ~written[f]

\* Fields before the present one have their receipts, those after it are as they were, and
\* a write that was not started wrote nothing.
ReceiptInv ==
  /\ runAt \in {"preflight", "values"} =>
       /\ \A f \in Fields : Unattempted(f)
       /\ at = 1 /\ fieldWrite = "not_started"
  /\ runAt \in AtField =>
       /\ \A f \in Fields : (f < at => ToldTruly(f)) /\ (f > at => Unattempted(f))
       /\ receipts[at].status = "not_attempted"
       /\ fieldWrite = "not_started" => ~written[at]
       /\ runAt = "find" => fieldWrite = "not_started"
  /\ runAt \in AfterFields => \A f \in Fields : ToldTruly(f)
  /\ runAt \in {"artifact", "done"} => Verified \subseteq held

\* Where the run takes the stage for valid, a complete observation came after its last action.
StageInv ==
  /\ options.scope \/ stageKnown
  /\ scopeValid => stageKnown
  /\ artifact => runAt = "done" /\ stageKnown

FillInv == FillTypeOK /\ ReceiptInv /\ StageInv

LEMMA FillInitHolds == FillInit => FillInv
<1>. SUFFICES ASSUME FillInit PROVE FillInv
  OBVIOUS
<1>1. FillTypeOK
  <2>1. scopeValid \in BOOLEAN /\ stageKnown \in BOOLEAN
    BY DEF FillInit
  <2>2. /\ runAt \in {"preflight", "values"} /\ at = 1 /\ fieldWrite = "not_started"
        /\ artifact \in BOOLEAN
    BY DEF FillInit
  <2>3. DOMAIN receipts = Fields /\ written \in [Fields -> BOOLEAN]
    BY DEF FillInit
  <2>4. options \in [scope : BOOLEAN, onVerifyFail : {"fail", "retry", "skip"},
                 skipsAmbiguous : BOOLEAN, widget : BOOLEAN, verify : BOOLEAN]
    BY DEF FillInit
  <2>5. 1 \in Fields
    BY AutofillAssumption DEF Fields
  <2>. QED BY <2>1, <2>2, <2>3, <2>4, <2>5 DEF FillTypeOK
<1>2. ReceiptInv
  BY DEF FillInit, ReceiptInv, AtField, AfterFields, Unattempted
<1>3. StageInv
  BY DEF FillInit, StageInv
<1>. QED BY <1>1, <1>2, <1>3 DEF FillInv

\* What an observation leaves of the stage, whether it came back complete or not.
LEMMA ObservationKeepsStage ==
  ASSUME FillInv, observe \/ observeFails, options' = options, artifact' = artifact, runAt # "done"
  PROVE  StageInv' /\ scopeValid' \in BOOLEAN /\ stageKnown' \in BOOLEAN
<1>1. options.scope \in BOOLEAN
  BY DEF FillInv, FillTypeOK
<1>. QED BY <1>1 DEF FillInv, FillTypeOK, StageInv, observe, observeFails

\* The stage is as it was, or not known to be valid any more.
LEMMA StageStays ==
  ASSUME FillInv, options' = options, artifact' = artifact, runAt # "done",
         \/ scopeValid' = scopeValid /\ stageKnown' = stageKnown
         \/ scopeValid' = ~options.scope /\ stageKnown' = ~options.scope
  PROVE  StageInv' /\ scopeValid' \in BOOLEAN /\ stageKnown' \in BOOLEAN
<1>1. options.scope \in BOOLEAN
  BY DEF FillInv, FillTypeOK
<1>. QED BY <1>1 DEF FillInv, FillTypeOK, StageInv

\* The field gets its receipt, and the run goes to the next field or to the end of them.
LEMMA FieldSettles ==
  ASSUME FillInv, runAt \in AtField, NEW status, NEW code, Records(at, status, code),
         (status \in {"not_attempted", "skipped", "failed"} /\ code # "mismatch") => ~written'[at],
         written' \in [Fields -> BOOLEAN],
         \A f \in Fields \ {at} : written'[f] = written[f],
         \/ NextField
         \/ /\ runAt' = "final" /\ at' = at
            /\ fieldWrite' \in {"not_started", "dispatched", "completed"},
         options' = options, StageInv', artifact' = artifact,
         scopeValid' \in BOOLEAN /\ stageKnown' \in BOOLEAN
  PROVE  FillInv'
<1>0. PICK i \in Fields : i = at
  BY DEF FillInv, FillTypeOK
<1>1. /\ i = at /\ i \in Fields /\ DOMAIN receipts = Fields /\ DOMAIN receipts' = Fields
      /\ receipts'[i] = [status |-> status, code |-> code]
      /\ \A f \in Fields \ {i} : receipts'[f] = receipts[f] /\ written'[f] = written[f]
      /\ (status \in {"not_attempted", "skipped", "failed"} /\ code # "mismatch") => ~written'[i]
  BY <1>0 DEF FillInv, FillTypeOK, Records
<1>2. \A f \in Fields : f <= i => ToldTruly(f)'
  <2>1. ToldTruly(i)'
    BY <1>1 DEF ToldTruly
  <2>2. ASSUME NEW f \in Fields, f < i PROVE ToldTruly(f)'
    <3>1. ToldTruly(f) /\ f # i
      BY <1>1, <2>2 DEF FillInv, ReceiptInv, Fields
    <3>. QED BY <1>1, <3>1 DEF ToldTruly
  <2>. QED BY <1>1, <2>1, <2>2 DEF Fields
<1>3. \A f \in Fields : f > i => Unattempted(f)'
  <2>1. \A f \in Fields : f > i => f # i /\ Unattempted(f)
    BY <1>1 DEF FillInv, ReceiptInv, Fields
  <2>. QED BY <1>1, <2>1 DEF Unattempted
<1>5. CASE runAt' = "final" /\ at' = at
                 /\ fieldWrite' \in {"not_started", "dispatched", "completed"}
  <2>1. \A f \in Fields : f > i => ToldTruly(f)'
    BY <1>3 DEF Unattempted, ToldTruly
  <2>2. \A f \in Fields : ToldTruly(f)'
    BY <1>1, <1>2, <2>1 DEF Fields
  <2>3. ReceiptInv'
    BY <1>5, <2>2 DEF ReceiptInv, AtField, AfterFields
  <2>4. FillTypeOK'
    BY <1>1, <1>5 DEF FillInv, FillTypeOK, AfterFields
  <2>. QED BY <2>3, <2>4 DEF FillInv
<1>6. CASE NextField
  <2>1. CASE at < FieldCount
    <3>1. PICK n \in Fields : n = i + 1
      BY <1>1, <2>1, AutofillAssumption DEF Fields
    <3>2. at' = n /\ runAt' = "find" /\ fieldWrite' = "not_started"
      BY <1>1, <1>6, <2>1, <3>1 DEF NextField, To
    <3>3. receipts'[n].status = "not_attempted" /\ ~written'[n]
      BY <1>1, <1>3, <3>1 DEF Fields, Unattempted
    <3>4. \A f \in Fields : (f < n => ToldTruly(f)') /\ (f > n => Unattempted(f)')
      BY <1>1, <1>2, <1>3, <3>1 DEF Fields
    <3>5. ReceiptInv'
      BY <3>2, <3>3, <3>4 DEF ReceiptInv, AtField, AfterFields
    <3>6. FillTypeOK'
      BY <1>1, <3>1, <3>2 DEF FillInv, FillTypeOK, AtField
    <3>. QED BY <3>5, <3>6 DEF FillInv
  <2>2. CASE ~(at < FieldCount)
    <3>1. at' = at /\ runAt' = "final" /\ fieldWrite' = "not_started"
      BY <1>6, <2>2 DEF NextField, To
    <3>. QED BY <1>5, <3>1
  <2>. QED BY <2>1, <2>2
<1>. QED BY <1>5, <1>6

\* A failure of the present field is told of, or the run throws.
LEMMA CatchKeeps ==
  ASSUME FillInv, runAt \in AtField, NEW code, code # "mismatch", Catch(code),
         written' = written, options' = options, artifact' = artifact, StageInv',
         scopeValid' \in BOOLEAN /\ stageKnown' \in BOOLEAN
  PROVE  FillInv'
<1>1. /\ at \in Fields /\ written' \in [Fields -> BOOLEAN]
      /\ fieldWrite \in {"not_started", "dispatched", "completed"}
      /\ fieldWrite = "not_started" => ~written[at]
  BY DEF FillInv, FillTypeOK, ReceiptInv
<1>2. CASE runAt' = "thrown" /\ UNCHANGED <<receipts, at, fieldWrite>>
  <2>1. ReceiptInv'
    BY <1>2 DEF ReceiptInv, AtField, AfterFields
  <2>2. FillTypeOK'
    BY <1>1, <1>2 DEF FillInv, FillTypeOK
  <2>. QED BY <2>1, <2>2 DEF FillInv
<1>3. CASE ~authorityGone
  <2> DEFINE skipped == options.skipsAmbiguous /\ fieldWrite = "not_started" /\ code = "ambiguous"
  <2>1. Failed(code) /\ IF skipped THEN NextField
                        ELSE runAt' = "final" /\ UNCHANGED <<at, tries, fieldWrite>>
    BY <1>3 DEF Catch, To
  <2>2. CASE skipped
    <3>1. Records(at, "skipped", code) /\ NextField /\ ~written'[at]
      BY <1>1, <2>1, <2>2 DEF Failed
    <3>. QED BY <1>1, <3>1, FieldSettles
  <2>3. CASE ~skipped
    <3>1. PICK status : status = IF fieldWrite = "not_started" THEN "failed" ELSE "uncertain"
      OBVIOUS
    <3>2. Records(at, status, code) /\ runAt' = "final" /\ at' = at /\ fieldWrite' = fieldWrite
      BY <2>1, <2>3, <3>1 DEF Failed
    <3>3. status \in {"not_attempted", "skipped", "failed"} => ~written'[at]
      BY <1>1, <3>1
    <3>. QED BY <1>1, <3>2, <3>3, FieldSettles
  <2>. QED BY <2>2, <2>3
<1>. QED BY <1>2, <1>3 DEF Catch, To

\* The run is at the same field as before, and its receipts are as they were.
LEMMA StaysAtField ==
  ASSUME FillInv, runAt \in AtField, runAt' \in AtField, at' = at, receipts' = receipts,
         written' \in [Fields -> BOOLEAN],
         \A f \in Fields \ {at} : written'[f] = written[f],
         fieldWrite' \in {"not_started", "dispatched", "completed"},
         fieldWrite' = "not_started" => ~written'[at],
         runAt' = "find" => fieldWrite' = "not_started",
         options' = options, artifact' = artifact, StageInv',
         scopeValid' \in BOOLEAN /\ stageKnown' \in BOOLEAN
  PROVE  FillInv'
<1>1. at \in Fields
  BY DEF FillInv, FillTypeOK
<1>2. \A f \in Fields : (f < at => ToldTruly(f)') /\ (f > at => Unattempted(f)')
  <2>. SUFFICES ASSUME NEW f \in Fields
                PROVE  (f < at => ToldTruly(f)') /\ (f > at => Unattempted(f)')
    OBVIOUS
  <2>1. (f < at => ToldTruly(f)) /\ (f > at => Unattempted(f))
    BY DEF FillInv, ReceiptInv
  <2>2. f < at \/ f > at => f # at
    BY <1>1 DEF Fields
  <2>. QED BY <2>1, <2>2 DEF ToldTruly, Unattempted
<1>3. ReceiptInv'
  <2>1. receipts'[at'].status = "not_attempted"
    BY DEF FillInv, ReceiptInv
  <2>. QED BY <1>2, <2>1 DEF ReceiptInv, AtField, AfterFields
<1>4. FillTypeOK'
  BY DEF FillInv, FillTypeOK
<1>. QED BY <1>3, <1>4 DEF FillInv

\* Something the receipts do not depend on.
LEMMA ReceiptsStay ==
  ASSUME FillInv, UNCHANGED <<options, runAt, at, fieldWrite, receipts, written, held, artifact,
                              scopeValid, stageKnown>>
  PROVE  FillInv'
<1>1. FillTypeOK'
  BY DEF FillInv, FillTypeOK
<1>2. ReceiptInv'
  BY DEF FillInv, ReceiptInv, ToldTruly, Unattempted, Verified
<1>3. StageInv'
  BY DEF FillInv, StageInv
<1>. QED BY <1>1, <1>2, <1>3 DEF FillInv

LEMMA PreflightKeeps == ASSUME FillInv, Preflight PROVE FillInv'
<1>1. /\ runAt = "preflight" /\ UNCHANGED <<options, at, fieldWrite, written, held, artifact>>
      /\ \A f \in Fields : Unattempted(f)
      /\ at = 1 /\ fieldWrite = "not_started"
  BY DEF Preflight, world, progress, FillInv, ReceiptInv
<1>2. StageInv' /\ scopeValid' \in BOOLEAN /\ stageKnown' \in BOOLEAN
  BY <1>1, ObservationKeepsStage, StageStays DEF Preflight
<1>3. CASE runAt' = "values" /\ UNCHANGED receipts
  <2>1. ReceiptInv'
    BY <1>1, <1>3 DEF ReceiptInv, AtField, AfterFields, Unattempted
  <2>2. FillTypeOK'
    BY <1>1, <1>2, <1>3 DEF FillInv, FillTypeOK
  <2>. QED BY <1>2, <2>1, <2>2 DEF FillInv
<1>4. ASSUME NEW f \in Fields, Records(f, "failed", "preflight"), runAt' = "artifact"
      PROVE  FillInv'
  <2>1. /\ DOMAIN receipts' = Fields
        /\ \A g \in Fields : receipts'[g].status \in {"failed", "not_attempted"}
    BY <1>1, <1>4 DEF Records, FillInv, FillTypeOK, Unattempted
  <2>2. \A g \in Fields : ToldTruly(g)'
    BY <1>1 DEF ToldTruly, Unattempted
  <2>3. Verified' = {}
    BY <2>1 DEF Verified
  <2>4. ReceiptInv'
    BY <1>4, <2>2, <2>3 DEF ReceiptInv, AtField, AfterFields
  <2>5. FillTypeOK'
    BY <1>1, <1>2, <1>4, <2>1 DEF FillInv, FillTypeOK, AfterFields
  <2>. QED BY <1>2, <2>4, <2>5 DEF FillInv
<1>5. CASE runAt' = "thrown" /\ UNCHANGED receipts
  <2>1. ReceiptInv'
    BY <1>5 DEF ReceiptInv, AtField, AfterFields
  <2>2. FillTypeOK'
    BY <1>1, <1>2, <1>5 DEF FillInv, FillTypeOK
  <2>. QED BY <1>2, <2>1, <2>2 DEF FillInv
<1>. QED BY <1>3, <1>4, <1>5 DEF Preflight, To

LEMMA ResolveValuesKeeps == ASSUME FillInv, ResolveValues PROVE FillInv'
<1>1. /\ runAt = "values"
      /\ UNCHANGED <<options, at, fieldWrite, scopeValid, stageKnown, receipts, written,
                                      held, artifact>>
      /\ \A f \in Fields : Unattempted(f)
      /\ at = 1 /\ fieldWrite = "not_started" /\ at \in Fields
  BY DEF ResolveValues, world, progress, outcome, FillInv, ReceiptInv, FillTypeOK
<1>2. runAt' \in {"find", "thrown"}
  BY DEF ResolveValues, To
<1>3. StageInv' /\ scopeValid' \in BOOLEAN /\ stageKnown' \in BOOLEAN
  BY <1>1, StageStays
<1>4. ReceiptInv'
  <2>1. \A f \in Fields : Unattempted(f)' /\ ~(f < at')
    BY <1>1 DEF Unattempted, Fields
  <2>2. receipts'[at'].status = "not_attempted"
    BY <1>1 DEF Unattempted
  <2>3. ~written'[at']
    BY <1>1 DEF Unattempted
  <2>. QED BY <1>1, <1>2, <2>1, <2>2, <2>3 DEF ReceiptInv, AtField, AfterFields
<1>5. FillTypeOK'
  BY <1>1, <1>2, <1>3 DEF FillInv, FillTypeOK, AtField
<1>. QED BY <1>3, <1>4, <1>5 DEF FillInv

LEMMA FindKeeps == ASSUME FillInv, Find PROVE FillInv'
<1>1. /\ runAt = "find" /\ runAt \in AtField /\ written' = written /\ options' = options
      /\ artifact' = artifact
      /\ written \in [Fields -> BOOLEAN]
      /\ fieldWrite \in {"not_started", "dispatched", "completed"}
      /\ fieldWrite = "not_started" /\ ~written[at]
  BY DEF Find, world, AtField, FillInv, ReceiptInv, FillTypeOK
<1>2. StageInv' /\ scopeValid' \in BOOLEAN /\ stageKnown' \in BOOLEAN
  BY <1>1, ObservationKeepsStage DEF Find
<1>3. CASE Catch("ambiguous") \/ Catch("not_found") \/ Catch("unobserved")
  BY <1>1, <1>2, <1>3, CatchKeeps
<1>4. CASE runAt' \in {"write", "find"} /\ UNCHANGED <<receipts, at, fieldWrite>>
  <2>1. runAt' \in AtField
    BY <1>4 DEF AtField
  <2>. QED BY <1>1, <1>2, <1>4, <2>1, StaysAtField
<1>5. CASE Records(at, "skipped", "hidden") /\ NextField
  BY <1>1, <1>2, <1>5, FieldSettles
<1>. QED BY <1>1, <1>3, <1>4, <1>5 DEF Find, To

LEMMA WriteActionKeeps == ASSUME FillInv, WriteAction PROVE FillInv'
<1>1. /\ runAt = "write" /\ runAt \in AtField /\ UNCHANGED <<options, at, receipts, artifact>>
      /\ at \in Fields /\ written \in [Fields -> BOOLEAN]
      /\ fieldWrite \in {"not_started", "dispatched", "completed"}
      /\ fieldWrite = "not_started" => ~written[at]
  BY DEF WriteAction, AtField, FillInv, ReceiptInv, FillTypeOK
<1>2. StageInv' /\ scopeValid' \in BOOLEAN /\ stageKnown' \in BOOLEAN
  BY <1>1, StageStays DEF WriteAction, RevokedScope
<1>3. PICK effect \in BOOLEAN, fine \in BOOLEAN :
        /\ fine => effect
        /\ written' = [written EXCEPT ![at] = @ \/ effect]
        /\ fieldWrite' = IF fine /\ LastStep THEN "completed"
                        ELSE IF effect THEN "dispatched" ELSE fieldWrite
        /\ runAt' \in {"caught", "wrote", "between"}
  BY DEF WriteAction, To
<1>4. written' \in [Fields -> BOOLEAN] /\ \A f \in Fields \ {at} : written'[f] = written[f]
  BY <1>1, <1>3
<1>5. CASE effect
  <2>1. fieldWrite' \in {"dispatched", "completed"}
    BY <1>3, <1>5
  <2>2. runAt' \in AtField /\ runAt' # "find"
    BY <1>3 DEF AtField
  <2>. QED BY <1>1, <1>2, <1>4, <2>1, <2>2, StaysAtField
<1>6. CASE ~effect
  <2>1. fieldWrite' = fieldWrite
    BY <1>3, <1>6
  <2>2. written'[at] = written[at]
    BY <1>1, <1>3, <1>6
  <2>3. runAt' \in AtField /\ runAt' # "find"
    BY <1>3 DEF AtField
  <2>. QED BY <1>1, <1>2, <1>4, <2>1, <2>2, <2>3, StaysAtField
<1>. QED BY <1>5, <1>6

LEMMA NavigationBlockedKeeps == ASSUME FillInv, NavigationBlocked PROVE FillInv'
<1>1. /\ runAt = "write" /\ runAt \in AtField /\ UNCHANGED <<options, at, artifact>>
      /\ at \in Fields /\ written \in [Fields -> BOOLEAN]
      /\ written' = [written EXCEPT ![at] = TRUE]
      /\ runAt' = "final"
  BY DEF NavigationBlocked, AtField, FillInv, FillTypeOK, To
<1>2. StageInv' /\ scopeValid' \in BOOLEAN /\ stageKnown' \in BOOLEAN
  BY <1>1, StageStays DEF NavigationBlocked, RevokedScope
<1>3. PICK status \in {"unverified", "uncertain"} : Records(at, status, "navigation")
  BY DEF NavigationBlocked
<1>4. fieldWrite' \in {"not_started", "dispatched", "completed"}
  BY DEF NavigationBlocked
<1>5. written' \in [Fields -> BOOLEAN] /\ \A f \in Fields \ {at} : written'[f] = written[f]
  BY <1>1
<1>. QED BY <1>1, <1>2, <1>3, <1>4, <1>5, FieldSettles

LEMMA BetweenKeeps == ASSUME FillInv, Between PROVE FillInv'
<1>1. /\ runAt = "between" /\ runAt \in AtField /\ UNCHANGED <<options, written, artifact>>
      /\ written \in [Fields -> BOOLEAN]
      /\ fieldWrite \in {"not_started", "dispatched", "completed"}
      /\ fieldWrite = "not_started" => ~written[at]
  BY DEF Between, world, AtField, FillInv, ReceiptInv, FillTypeOK
<1>2. StageInv' /\ scopeValid' \in BOOLEAN /\ stageKnown' \in BOOLEAN
  BY <1>1, ObservationKeepsStage DEF Between
<1>3. CASE Catch("stale") \/ Catch("unobserved")
  BY <1>1, <1>2, <1>3, CatchKeeps
<1>4. CASE runAt' = "write" /\ UNCHANGED <<receipts, at, fieldWrite>>
  <2>1. runAt' \in AtField
    BY <1>4 DEF AtField
  <2>. QED BY <1>1, <1>2, <1>4, <2>1, StaysAtField
<1>. QED BY <1>3, <1>4 DEF Between, To

LEMMA CaughtKeeps == ASSUME FillInv, Caught PROVE FillInv'
<1>1. /\ runAt \in AtField /\ runAt # "done"
      /\ UNCHANGED <<options, written, artifact, scopeValid, stageKnown>>
      /\ Catch("action")
  BY DEF Caught, world, AtField
<1>2. StageInv' /\ scopeValid' \in BOOLEAN /\ stageKnown' \in BOOLEAN
  BY <1>1, StageStays
<1>. QED BY <1>1, <1>2, CatchKeeps

\* The field was written, and it is told of now or looked at first.
LEMMA WroteKeeps == ASSUME FillInv, Unverified \/ Wrote PROVE FillInv'
<1>1. /\ runAt = "wrote" /\ runAt \in AtField
      /\ UNCHANGED <<options, written, artifact, scopeValid, stageKnown>>
      /\ written \in [Fields -> BOOLEAN]
      /\ fieldWrite \in {"not_started", "dispatched", "completed"}
      /\ fieldWrite = "not_started" => ~written[at]
  BY DEF Unverified, Wrote, world, outcome, AtField, FillInv, ReceiptInv, FillTypeOK
<1>2. StageInv' /\ scopeValid' \in BOOLEAN /\ stageKnown' \in BOOLEAN
  BY <1>1, StageStays
<1>3. CASE Unverified
  <2>1. Records(at, "unverified", "none") /\ NextField
    BY <1>3 DEF Unverified
  <2>. QED BY <1>1, <1>2, <2>1, FieldSettles
<1>4. CASE Wrote
  <2>1. runAt' = "verify" /\ runAt' \in AtField /\ UNCHANGED <<receipts, at, fieldWrite>>
    BY <1>4 DEF Wrote, outcome, To, AtField
  <2>. QED BY <1>1, <1>2, <2>1, StaysAtField
<1>. QED BY <1>3, <1>4

LEMMA VerifyKeeps == ASSUME FillInv, Verify PROVE FillInv'
<1>1. /\ runAt = "verify" /\ runAt \in AtField /\ UNCHANGED <<options, written, artifact>>
      /\ written \in [Fields -> BOOLEAN]
      /\ fieldWrite \in {"not_started", "dispatched", "completed"}
      /\ fieldWrite = "not_started" => ~written[at]
  BY DEF Verify, world, AtField, FillInv, ReceiptInv, FillTypeOK
<1>2. StageInv' /\ scopeValid' \in BOOLEAN /\ stageKnown' \in BOOLEAN
  BY <1>1, ObservationKeepsStage DEF Verify
<1>3. CASE Catch("stale") \/ Catch("unobserved")
  BY <1>1, <1>2, <1>3, CatchKeeps
<1>4. CASE runAt' = runAt /\ UNCHANGED <<receipts, at, fieldWrite>>
  BY <1>1, <1>2, <1>4, StaysAtField
<1>5. ASSUME NEW status, NEW code, Records(at, status, code),
             \/ <<status, code>> \in {<<"unverified", "withheld">>, <<"verified", "none">>}
             \/ <<status, code>> = <<"failed", "mismatch">>,
             NextField \/ (runAt' = "final" /\ UNCHANGED <<at, fieldWrite>>)
      PROVE  FillInv'
  <2>1. status \notin {"not_attempted", "skipped", "failed"} \/ code = "mismatch"
    BY <1>5
  <2>. QED BY <1>1, <1>2, <1>5, <2>1, FieldSettles
<1>6. \/ Catch("stale") \/ Catch("unobserved")
      \/ runAt' = runAt /\ UNCHANGED <<receipts, at, fieldWrite>>
      \/ Records(at, "unverified", "withheld") /\ NextField
      \/ Records(at, "verified", "none") /\ NextField
      \/ /\ Records(at, "failed", "mismatch")
         /\ NextField \/ (runAt' = "final" /\ UNCHANGED <<at, fieldWrite>>)
  BY DEF Verify, To
<1>. QED BY <1>3, <1>4, <1>5, <1>6

\* After the fields: receipts change for what was verified only, and what stays verified
\* was held.
LEMMA EndsWell ==
  ASSUME FillInv, runAt \in {"final", "artifact"}, runAt' \in AfterFields \cup {"thrown"},
         UNCHANGED <<options, at, fieldWrite, written>>,
         DOMAIN receipts' = Fields,
         \A f \in Fields : receipts'[f] = receipts[f]
            \/ receipts'[f].status \in {"uncertain", "unverified"}
            \/ receipts'[f].code = "mismatch",
         runAt' \in {"artifact", "done"} => Verified' \subseteq held',
         StageInv', scopeValid' \in BOOLEAN /\ stageKnown' \in BOOLEAN, artifact' \in BOOLEAN
  PROVE  FillInv'
<1>1. \A f \in Fields : ToldTruly(f)'
  <2>1. \A f \in Fields : ToldTruly(f)
    BY DEF FillInv, ReceiptInv, AfterFields
  <2>. QED BY <2>1 DEF ToldTruly
<1>2. ReceiptInv'
  BY <1>1 DEF ReceiptInv, AtField, AfterFields
<1>3. FillTypeOK'
  BY DEF FillInv, FillTypeOK
<1>. QED BY <1>2, <1>3 DEF FillInv

LEMMA NothingVerifiedKeeps == ASSUME FillInv, NothingVerified PROVE FillInv'
<1>1. /\ runAt = "final" /\ Verified = {} /\ runAt' = "artifact" /\ runAt' \in AfterFields
      /\ UNCHANGED <<options, at, fieldWrite, scopeValid, stageKnown, receipts, written, artifact>>
      /\ DOMAIN receipts = Fields /\ artifact \in BOOLEAN
  BY DEF NothingVerified, To, world, progress, outcome, AfterFields, FillInv, FillTypeOK
<1>2. StageInv' /\ scopeValid' \in BOOLEAN /\ stageKnown' \in BOOLEAN
  BY <1>1, StageStays
<1>3. Verified' = {}
  BY <1>1 DEF Verified
<1>. QED BY <1>1, <1>2, <1>3, EndsWell

LEMMA FinalReceiptTells ==
  ASSUME NEW f \in Fields
  PROVE  \/ FinalReceipt(f) = receipts[f] /\ controls[f].right
              /\ controls[f].node = identities[f]
         \/ FinalReceipt(f).status \in {"uncertain", "unverified"}
         \/ FinalReceipt(f).code = "mismatch" /\ FinalReceipt(f).status = "failed"
  BY DEF FinalReceipt, Misses

LEMMA FinalVerificationKeeps == ASSUME FillInv, FinalVerification PROVE FillInv'
<1>1. /\ runAt = "final" /\ UNCHANGED <<options, at, fieldWrite, written, artifact>>
      /\ DOMAIN receipts = Fields /\ artifact \in BOOLEAN
  BY DEF FinalVerification, world, progress, FillInv, FillTypeOK
<1>2. StageInv' /\ scopeValid' \in BOOLEAN /\ stageKnown' \in BOOLEAN
  BY <1>1, ObservationKeepsStage, StageStays DEF FinalVerification
<1>3. CASE /\ receipts' = [f \in Fields |-> IF f \in Verified THEN FinalReceipt(f) ELSE receipts[f]]
           /\ held' = {f \in Fields : controls[f].right /\ controls[f].node = identities[f]}
           /\ runAt' = "artifact"
  <2>1. /\ DOMAIN receipts' = Fields
        /\ \A f \in Fields :
             receipts'[f] = IF f \in Verified THEN FinalReceipt(f) ELSE receipts[f]
    BY <1>3
  <2>2. \A f \in Fields : receipts'[f] = receipts[f]
          \/ receipts'[f].status \in {"uncertain", "unverified"}
          \/ receipts'[f].code = "mismatch"
    BY <2>1, FinalReceiptTells
  <2>3. ASSUME NEW f \in Verified' PROVE f \in held'
    <3>1. f \in Fields /\ receipts'[f].status = "verified"
      BY <2>3 DEF Verified
    <3>2. f \in Verified
      BY <2>1, <3>1 DEF Verified
    <3>3. FinalReceipt(f).status = "verified"
      BY <2>1, <3>1, <3>2
    <3>4. controls[f].right /\ controls[f].node = identities[f]
      BY <3>1, <3>3, FinalReceiptTells
    <3>. QED BY <1>3, <3>1, <3>4
  <2>. QED BY <1>1, <1>2, <1>3, <2>1, <2>2, <2>3, EndsWell DEF AfterFields
<1>4. CASE /\ receipts' = [f \in Fields |-> IF f \in Verified
                             THEN [status |-> "uncertain", code |-> "unavailable"]
                             ELSE receipts[f]]
           /\ runAt' = "artifact"
  <2>1. /\ DOMAIN receipts' = Fields
        /\ \A f \in Fields : IF f \in Verified THEN receipts'[f].status = "uncertain"
                             ELSE receipts'[f] = receipts[f]
    BY <1>4
  <2>2. Verified' = {}
    BY <2>1 DEF Verified
  <2>. QED BY <1>1, <1>2, <1>4, <2>1, <2>2, EndsWell DEF AfterFields
<1>5. CASE runAt' = "thrown" /\ UNCHANGED <<receipts, held>>
  BY <1>1, <1>2, <1>5, EndsWell
<1>. QED BY <1>3, <1>4, <1>5 DEF FinalVerification, To

LEMMA ReportKeeps == ASSUME FillInv, Report PROVE FillInv'
<1>1. /\ runAt = "artifact"
      /\ UNCHANGED <<options, at, fieldWrite, written, scopeValid, stageKnown, receipts, held>>
      /\ DOMAIN receipts = Fields /\ artifact = FALSE
      /\ scopeValid \in BOOLEAN /\ stageKnown \in BOOLEAN /\ Verified \subseteq held
      /\ scopeValid => stageKnown
  BY DEF Report, world, progress, FillInv, FillTypeOK, StageInv, ReceiptInv
<1>2. \/ runAt' = "thrown" /\ artifact' = FALSE
      \/ runAt' = "done" /\ artifact' \in BOOLEAN /\ (artifact' => scopeValid)
  BY <1>1 DEF Report, To, guard
<1>3. StageInv'
  BY <1>1, <1>2 DEF FillInv, StageInv
<1>4. Verified' \subseteq held'
  BY <1>1 DEF Verified
<1>5. runAt' \in AfterFields \cup {"thrown"} /\ artifact' \in BOOLEAN
  BY <1>2 DEF AfterFields
<1>. QED BY <1>1, <1>3, <1>4, <1>5, EndsWell

LEMMA FillStepKeeps == ASSUME FillInv, [FillNext]_fillVars PROVE FillInv'
<1>1. CASE FillStep
  BY <1>1, PreflightKeeps, ResolveValuesKeeps, FindKeeps, WriteActionKeeps,
     NavigationBlockedKeeps, BetweenKeeps, CaughtKeeps, WroteKeeps, VerifyKeeps,
     NothingVerifiedKeeps, FinalVerificationKeeps, ReportKeeps DEF FillStep
<1>2. CASE (\E f \in Fields : PageChanges(f)) \/ DeadlinePasses \/ AuthorityLost
  BY <1>2, ReceiptsStay DEF PageChanges, DeadlinePasses, AuthorityLost, run, progress, outcome
<1>3. CASE UNCHANGED fillVars
  BY <1>3, ReceiptsStay DEF fillVars
<1>. QED BY <1>1, <1>2, <1>3 DEF FillNext

\* An autofill keeps its inductive invariant, for any number of fields, steps and tries.
THEOREM FillInvariant == FillSpec => []FillInv
<1>1. FillInit => FillInv
  BY FillInitHolds
<1>2. FillInv /\ [FillNext]_fillVars => FillInv'
  BY FillStepKeeps
<1>. QED BY <1>1, <1>2, PTL DEF FillSpec

\* A report is of what the run did, however the page, the clock and the authority change
\* under it (autofill.ts, runAutofill).
THEOREM ReportsHold == FillSpec => []VerifiedTogether
<1>1. FillInv => VerifiedTogether
  BY DEF FillInv, ReceiptInv, StageInv, AfterFields, ToldTruly, VerifiedTogether, VerifiedWereHeld,
         UnwrittenIsUntouched, ArtifactIsOfTheStage
<1>. QED BY <1>1, FillInvariant, PTL
=============================================================================
