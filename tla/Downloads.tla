------------------------------ MODULE Downloads ------------------------------
(***************************************************************************)
(* Downloads over policy-checked connections: packages/api                 *)
(* connection-authority.ts (one attempt per connection: policy, DNS,       *)
(* address policy, socket, lease) and download-transport.ts (one transfer  *)
(* over a chain of leases), under the budgets that every generation of     *)
(* every session shares.                                                   *)
(*                                                                         *)
(* External: the policy and DNS callbacks and the sockets, which settle    *)
(* when they like.  Left out: parsing of destinations, TLS, headers and    *)
(* decoding (each is one await that succeeds or fails), and the local      *)
(* limits, which have the form of the shared ones.                         *)
(***************************************************************************)
EXTENDS Naturals, FiniteSets

CONSTANTS
  Transfers,    \* download calls, each made once
  Generations,  \* session generations, each with its transport and authority
  Limit,        \* the shared limit of connections and of transfers
  MaxRedirects

ASSUME DownloadsAssumption ==
  IsFiniteSet(Transfers) /\ Limit \in Nat \ {0} /\ MaxRedirects \in Nat

VARIABLES
  revoked,      \* generations revoked
  transfer,     \* transfer -> [at, of, hop, result, cancelled, answer]
  attempt,      \* transfer -> the connection attempt of its current hop
  connections,  \* ConnectionBudget.count
  transfers     \* DownloadBudget.transfers.count

vars == <<revoked, transfer, attempt, connections, transfers>>

Callbacks == {"policy", "dns", "addresses"}
AttemptRecord ==
  [stage : Callbacks \cup {"none", "tcp", "lease"}, terminal : BOOLEAN, settled : BOOLEAN,
   socket : {"none", "connecting", "open", "closing", "closed"}, drained : BOOLEAN]
TransferRecord ==
  [at : {"idle", "hop", "connecting", "response", "closing", "done"},
   of : Generations \cup {"none"}, hop : Nat,
   result : {"none", "ok", "again", "error"}, cancelled : BOOLEAN,
   answer : {"none", "ok", "again", "error"}]
NoAttempt == [stage |-> "none", terminal |-> FALSE, settled |-> FALSE,
              socket |-> "none", drained |-> FALSE]
Admitted(a) == a.stage # "none" /\ ~a.drained
Pending(a) == a.stage \in Callbacks /\ ~a.settled

-----------------------------------------------------------------------------
(* ConnectionAttempt.                                                      *)

\* Slip: a callback that has not settled does not count.
DrainedBySocket(a) ==
  IF a.terminal /\ a.socket \in {"none", "closed"} THEN [a EXCEPT !.drained = TRUE] ELSE a
\* checkDrained: terminal, its work settled, its socket closed.
CheckDrained(a) ==
  IF a.terminal /\ a.settled /\ a.socket \in {"none", "closed"}
  THEN [a EXCEPT !.drained = TRUE] ELSE a

\* stop: destroys the socket; what is under way goes on to its end.
Stopped(a) ==
  IF Admitted(a)
  THEN CheckDrained([a EXCEPT !.terminal = TRUE,
                         !.socket = IF @ \in {"connecting", "open"} THEN "closing" ELSE @])
  ELSE a

\* The slot goes back when the attempt drains, once.
Attempts(new) ==
  /\ attempt' = new
  /\ connections' = connections -
       Cardinality({t \in Transfers : Admitted(attempt[t]) /\ new[t].drained})

\* assertActive after every await: a stopped attempt goes no further.
After(a, stage) ==
  IF a.terminal THEN CheckDrained([a EXCEPT !.settled = TRUE])
  ELSE IF stage = "tcp" THEN [a EXCEPT !.stage = stage, !.settled = TRUE, !.socket = "connecting"]
  ELSE [a EXCEPT !.stage = stage]

\* A callback answers; a literal address needs no DNS.
CallbackAnswers(t, stage) ==
  /\ Pending(attempt[t])
  /\ <<attempt[t].stage, stage>> \in
       {<<"policy", "dns">>, <<"policy", "addresses">>, <<"dns", "addresses">>, <<"addresses", "tcp">>}
  /\ Attempts([attempt EXCEPT ![t] = After(@, stage)])
  /\ UNCHANGED <<revoked, transfer, transfers>>

CallbackFails(t) ==
  /\ Pending(attempt[t])
  /\ Attempts([attempt EXCEPT ![t] = Stopped([@ EXCEPT !.settled = TRUE])])
  /\ UNCHANGED <<revoked, transfer, transfers>>

\* onConnect: the peer must be the endpoint that was judged.
Connected(t, peerMatches) ==
  /\ attempt[t].socket = "connecting"
  /\ Attempts([attempt EXCEPT ![t] =
       IF peerMatches THEN [@ EXCEPT !.stage = "lease", !.socket = "open"] ELSE Stopped(@)])
  /\ UNCHANGED <<revoked, transfer, transfers>>

\* onError and onClose: destroyed here, or closed by the peer.
SocketCloses(t) ==
  /\ attempt[t].socket \in {"connecting", "open", "closing"}
  /\ Attempts([attempt EXCEPT ![t] = Stopped([@ EXCEPT !.socket = "closed"])])
  /\ UNCHANGED <<revoked, transfer, transfers>>

-----------------------------------------------------------------------------
(* DownloadTransport.                                                      *)

\* The work is over: its slot goes back; an aborted call is answered already.
End(t, answer) ==
  /\ transfer' = [transfer EXCEPT ![t].at = "done",
                                  ![t].answer = IF @ = "none" THEN answer ELSE @]
  /\ transfers' = transfers - 1

\* download: admission.
Download(t, g) ==
  /\ transfer[t].at = "idle"
  /\ IF g \in revoked \/ transfers >= Limit
     THEN /\ transfer' = [transfer EXCEPT ![t].at = "done", ![t].of = g, ![t].answer = "error"]
          /\ UNCHANGED transfers
     ELSE /\ transfer' = [transfer EXCEPT ![t].at = "hop", ![t].of = g]
          /\ transfers' = transfers + 1
  /\ UNCHANGED <<revoked, attempt, connections>>

\* authority.connect: refused, or an attempt of its own that holds a slot.
Connect(t) ==
  /\ transfer[t].at = "hop"
  /\ IF transfer[t].cancelled \/ transfer[t].of \in revoked \/ connections >= Limit
     THEN End(t, "error") /\ UNCHANGED <<attempt, connections>>
     ELSE /\ transfer' = [transfer EXCEPT ![t].at = "connecting"]
          /\ attempt' = [attempt EXCEPT ![t] = [NoAttempt EXCEPT !.stage = "policy"]]
          /\ connections' = connections + 1
          /\ UNCHANGED transfers
  /\ UNCHANGED revoked

\* The continuation of connect: assertActive once more, then the lease is the caller's.
HandOver(t) ==
  /\ transfer[t].at = "connecting"
  /\ attempt[t].terminal \/ attempt[t].stage = "lease"
  /\ IF attempt[t].terminal
     THEN End(t, "error")
     ELSE transfer' = [transfer EXCEPT ![t].at = "response"] /\ UNCHANGED transfers
  /\ UNCHANGED <<revoked, attempt, connections>>

\* The exchange on a lease ends: body read, redirect, or any failure; the lease is
\* closed and its end awaited.
Exchanged(t, result) ==
  /\ transfer[t].at = "response"
  /\ result = "ok" => ~transfer[t].cancelled
  /\ result = "again" => ~transfer[t].cancelled /\ transfer[t].hop < MaxRedirects
  /\ transfer' = [transfer EXCEPT ![t].at = "closing", ![t].result = result]
  /\ Attempts([attempt EXCEPT ![t] = Stopped(@)])
  /\ UNCHANGED <<revoked, transfers>>

LeaseClosed(t) ==
  /\ transfer[t].at = "closing" /\ attempt[t].drained
  /\ IF transfer[t].result = "again"
     THEN /\ transfer' = [transfer EXCEPT ![t].at = "hop", ![t].hop = @ + 1]
          /\ attempt' = [attempt EXCEPT ![t] = NoAttempt]
          /\ UNCHANGED transfers
     ELSE End(t, transfer[t].result) /\ UNCHANGED attempt
  /\ UNCHANGED <<revoked, connections>>

Running(t) == transfer[t].at \notin {"idle", "done"}
Aborts(ts) ==
  transfer' = [t \in Transfers |->
    IF t \in ts /\ Running(t)
    THEN [transfer[t] EXCEPT !.cancelled = TRUE, !.answer = IF @ = "none" THEN "error" ELSE @]
    ELSE transfer[t]]

\* The caller's signal, the deadline, or a body over the limit.
Abort(t) ==
  /\ Running(t) /\ ~transfer[t].cancelled
  /\ Aborts({t})
  /\ Attempts([attempt EXCEPT ![t] = Stopped(@)])
  /\ UNCHANGED <<revoked, transfers>>

\* revoke: every transfer of the generation, and every attempt, those included whose
\* transfer is over.
Revoke(g) ==
  /\ g \notin revoked
  /\ revoked' = revoked \cup {g}
  /\ Aborts({t \in Transfers : transfer[t].of = g})
  /\ Attempts([t \in Transfers |-> IF transfer[t].of = g THEN Stopped(attempt[t]) ELSE attempt[t]])
  /\ UNCHANGED transfers

-----------------------------------------------------------------------------
DownloadsInit ==
  /\ revoked = {}
  /\ transfer = [t \in Transfers |-> [at |-> "idle", of |-> "none", hop |-> 0, result |-> "none",
                                      cancelled |-> FALSE, answer |-> "none"]]
  /\ attempt = [t \in Transfers |-> NoAttempt]
  /\ connections = 0 /\ transfers = 0

Settles(t) == (\E s \in Callbacks \cup {"tcp"} : CallbackAnswers(t, s)) \/ CallbackFails(t)
Next ==
  \/ \E t \in Transfers :
       \/ Settles(t) \/ SocketCloses(t) \/ Connect(t) \/ HandOver(t) \/ LeaseClosed(t) \/ Abort(t)
       \/ \E b \in BOOLEAN : Connected(t, b)
       \/ \E r \in {"ok", "again", "error"} : Exchanged(t, r)
       \/ \E g \in Generations : Download(t, g)
  \/ \E g \in Generations : Revoke(g)

Spec == DownloadsInit /\ [][Next]_vars

-----------------------------------------------------------------------------
(* Properties.                                                             *)

TypeOK ==
  /\ revoked \subseteq Generations
  /\ transfer \in [Transfers -> TransferRecord] /\ attempt \in [Transfers -> AttemptRecord]
  /\ connections \in Nat /\ transfers \in Nat

Sockets(a) == a.socket \in {"connecting", "open", "closing"}

\* What still runs or is still open holds a slot of the shared budget, whoever gave up on it,
\* and the budget is never overdrawn.
SlotsCoverWork ==
  /\ connections = Cardinality({t \in Transfers : Pending(attempt[t]) \/ Sockets(attempt[t])})
  /\ connections <= Limit /\ transfers <= Limit

\* Once a generation is revoked none of its sockets connects or stays open, not even one
\* whose address was still being looked up.
RevokedIsDark ==
  \A t \in Transfers : transfer[t].of \in revoked => attempt[t].socket \notin {"connecting", "open"}

\* A budget that covers what runs, and sockets that die with their generation.
TransfersAreBounded == SlotsCoverWork /\ RevokedIsDark
=============================================================================
