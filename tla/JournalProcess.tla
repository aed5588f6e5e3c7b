---------------------------- MODULE JournalProcess ----------------------------
(***************************************************************************)
(* The storage process of the journal (packages/control): the manager of   *)
(* journal-sqlite-adapter.ts in the service, the child of                  *)
(* journal-sqlite-child.ts, and the two ordered channels between them.     *)
(*                                                                         *)
(* A store transaction is one step: refused, applied, or thrown with its   *)
(* effect unknown (JournalStore and JournalRecords say why).  The channels *)
(* are external.  Left out: the readiness handshake, malformed frames and  *)
(* the two bounds of 1024; reads count as writes that change nothing.      *)
(***************************************************************************)
EXTENDS Naturals, Sequences, FiniteSets

CONSTANTS
  ProcessCalls,       \* requests the service makes; each is made once
  Spaces,
  NoFence      \* no owner: a prototype of undefined

\* A fence is a number.
ASSUME ProcessAssumption == NoFence \notin Nat

VARIABLES
  call,      \* call -> what was asked, what was answered, whether it took effect
  manager,   \* dead, live (liveNamespaces: namespace -> fence)
  child,     \* state, live (liveByNamespace: namespace -> fence)
  toChild,   \* requests on their way
  toParent,  \* replies on their way: [call, answer]
  active,    \* the store: active_fence of each namespace
  fences     \* fences issued

processVars == <<call, manager, child, toChild, toParent, active, fences>>

NotAsked == [op |-> "none", ns |-> NoFence, fence |-> NoFence, answer |-> "none",
             applied |-> FALSE]

Pending(c) == call[c].answer = "pending"
Ask(c, op, ns, fence, answer) ==
  call' = [call EXCEPT ![c] = [op |-> op, ns |-> ns, fence |-> fence, answer |-> answer,
                               applied |-> FALSE]]

-----------------------------------------------------------------------------
(* The manager.                                                            *)

\* sendRequest: a dead manager throws, which the caller sees as uncertain.
Send(c) == toChild' = IF manager.dead THEN toChild ELSE Append(toChild, c)

OpenCall(c, ns) ==
  LET refused == ~manager.dead /\ manager.live[ns] # NoFence
  IN  /\ call[c].op = "none"
      /\ Ask(c, "open", ns, NoFence,
             IF manager.dead THEN "uncertain" ELSE IF refused THEN "not_opened" ELSE "pending")
      /\ IF refused THEN UNCHANGED toChild ELSE Send(c)
      /\ UNCHANGED <<manager, child, toParent, active, fences>>

\* A handle's call: any handle the manager gave out, also one it closed.
Use(c, op, opener) ==
  /\ call[c].op = "none" /\ op \in {"write", "close"}
  /\ call[opener].op = "open" /\ call[opener].answer = "opened"
  /\ Ask(c, op, call[opener].ns, call[opener].fence,
         IF manager.dead THEN "uncertain" ELSE "pending")
  /\ Send(c)
  /\ UNCHANGED <<manager, child, toParent, active, fences>>

\* A reply answers its own call; close forgets the namespace whatever it says.
Reply ==
  /\ toParent # <<>> /\ ~manager.dead
  /\ LET m == Head(toParent)
     IN  /\ call' = [call EXCEPT ![m.call].answer = m.answer]
         /\ manager' = [manager EXCEPT !.live[call[m.call].ns] =
                          IF call[m.call].op = "close" THEN NoFence
                          ELSE IF m.answer = "opened" THEN call[m.call].fence ELSE @]
  /\ toParent' = Tail(toParent)
  /\ UNCHANGED <<child, toChild, active, fences>>

\* failDead and settleAll: every call that waits is uncertain, no later reply counts.
ManagerDies ==
  /\ manager' = [dead |-> TRUE, live |-> [ns \in Spaces |-> NoFence]]
  /\ call' = [c \in ProcessCalls |-> IF Pending(c) THEN [call[c] EXCEPT !.answer = "uncertain"]
                              ELSE call[c]]

\* The exit event may overtake the replies that are still in the channel.
HearExit ==
  /\ child.state = "gone" /\ ~manager.dead
  /\ ManagerDies
  /\ UNCHANGED <<child, toChild, toParent, active, fences>>

\* A send fails later, or the channel reports an error, with the child still there.
ChannelFails ==
  /\ ~manager.dead
  /\ ManagerDies
  /\ UNCHANGED <<child, toChild, toParent, active, fences>>

-----------------------------------------------------------------------------
(* The child: one message at a time, to its end.                           *)

Replies(c, answer) == toParent' = Append(toParent, [call |-> c, answer |-> answer])

\* Slip: a child without work leaves, whatever handles are live.
LeavesIdle(live) == TRUE
\* maybeShutdown: after the last live handle is closed.
Leaves(live) == \A ns \in Spaces : live[ns] = NoFence

After(live) == child' = [state |-> IF Leaves(live) THEN "left" ELSE "up", live |-> live]

TakesOpen(c, throws, kept) ==
  LET ns == call[c].ns
      refused == child.live[ns] # NoFence \/ (active[ns] # NoFence /\ ~throws)
      opened == ~refused /\ ~throws
      effect == ~refused /\ (opened \/ kept) /\ active[ns] = NoFence
  IN  /\ call[c].op = "open"
      /\ fences' = IF effect THEN fences + 1 ELSE fences
      /\ active' = IF effect THEN [active EXCEPT ![ns] = fences + 1] ELSE active
      /\ call' = IF effect
                 THEN [call EXCEPT ![c] = [call[c] EXCEPT !.applied = TRUE, !.fence = fences + 1]]
                 ELSE call
      /\ child' = IF opened THEN [child EXCEPT !.live[ns] = fences + 1] ELSE child
      /\ Replies(c, IF refused THEN "not_opened" ELSE IF opened THEN "opened" ELSE "uncertain")

Holder(c) == child.live[call[c].ns] = call[c].fence

\* A call of a handle that is not live: closed already, or nothing written.
TakesStale(c) ==
  /\ call[c].op # "open" /\ ~Holder(c)
  /\ Replies(c, IF call[c].op = "close" THEN "closed" ELSE "not_written")
  /\ IF call[c].op = "close" THEN After(child.live) ELSE UNCHANGED child
  /\ UNCHANGED <<call, active, fences>>

\* The handle is forgotten before the transaction: a throw leaves the fence active.
TakesCall(c, throws, kept) ==
  LET ns == call[c].ns
      close == call[c].op = "close"
      effect == ~throws \/ kept
  IN  /\ call[c].op # "open" /\ Holder(c)
      /\ active' = IF close /\ effect THEN [active EXCEPT ![ns] = NoFence] ELSE active
      /\ call' = IF effect THEN [call EXCEPT ![c] = [call[c] EXCEPT !.applied = TRUE]] ELSE call
      /\ Replies(c, IF throws THEN "uncertain" ELSE IF close THEN "closed" ELSE "written")
      /\ After(IF close THEN [child.live EXCEPT ![ns] = NoFence] ELSE child.live)
      /\ UNCHANGED fences

ChildTakes ==
  /\ child.state = "up" /\ toChild # <<>>
  /\ toChild' = Tail(toChild)
  /\ LET c == Head(toChild)
     IN  \/ \E throws, kept \in BOOLEAN : TakesOpen(c, throws, kept) \/ TakesCall(c, throws, kept)
         \/ TakesStale(c)
  /\ UNCHANGED manager

\* The process ends: by itself once it left, or killed at any moment.
ChildEnds ==
  /\ child.state = "left"
  /\ child' = [child EXCEPT !.state = "gone"]
  /\ UNCHANGED <<call, manager, toChild, toParent, active, fences>>

ChildDies ==
  /\ child.state = "up"
  /\ child' = [child EXCEPT !.state = "gone"]
  /\ UNCHANGED <<call, manager, toChild, toParent, active, fences>>

-----------------------------------------------------------------------------
NoneLive == [ns \in Spaces |-> NoFence]

\* After the readiness handshake: fences of a dead predecessor are cleared.
ProcessInit ==
  /\ call = [c \in ProcessCalls |-> NotAsked]
  /\ manager = [dead |-> FALSE, live |-> NoneLive]
  /\ child = [state |-> "up", live |-> NoneLive]
  /\ toChild = <<>> /\ toParent = <<>>
  /\ active = NoneLive
  /\ fences = 0

ProcessNext ==
  \/ \E c \in ProcessCalls, ns \in Spaces : OpenCall(c, ns)
  \/ \E c, opener \in ProcessCalls, op \in {"write", "close"} : Use(c, op, opener)
  \/ Reply \/ HearExit \/ ChannelFails \/ ChildTakes \/ ChildEnds \/ ChildDies

\* The channels deliver, the child takes what it gets, an exit is heard: the
\* event loops of two live processes.  Nobody has to kill the child.
ProcessFairness ==
  /\ WF_processVars(Reply) /\ WF_processVars(HearExit)
  /\ WF_processVars(ChildTakes) /\ WF_processVars(ChildEnds)

ProcessSpec == ProcessInit /\ [][ProcessNext]_processVars /\ ProcessFairness

-----------------------------------------------------------------------------
(* Properties.                                                             *)

\* Every call is answered, also when the child leaves or dies with the call in
\* its channel, or its answer in the other one.
EveryCallSettles == \A c \in ProcessCalls : Pending(c) ~> ~Pending(c)

\* A definite answer is true: what was refused had no effect, what was granted
\* had one.
AnswersAreTrue ==
  \A c \in ProcessCalls :
    /\ call[c].answer \in {"not_opened", "not_written"} => ~call[c].applied
    /\ call[c].answer \in {"opened", "written"} => call[c].applied

\* A handle the child serves owns its namespace in the store, and the child does
\* not leave while a handle that nobody asked to close is open.
HandleIsServed ==
  /\ \A ns \in Spaces : child.live[ns] # NoFence => active[ns] = child.live[ns]
  /\ child.state = "left" =>
       \A c \in ProcessCalls : call[c].op = "open" /\ call[c].answer = "opened" =>
         \E d \in ProcessCalls : call[d].op = "close" /\ call[d].fence = call[c].fence

\* Whatever order requests, replies, an exit and a failing channel come in, what the
\* service is told of the store is so, and a handle it was given is served.
RepliesAreTrue == AnswersAreTrue /\ HandleIsServed
=============================================================================
