---------------------------- MODULE LoginBrowser ----------------------------
(***************************************************************************)
(* The operator's login browser: one Chrome over one profile directory,    *)
(* driven by api/src/login-browser-service.ts and                          *)
(* engine-playwright/src/login-browser.ts.                                 *)
(*                                                                         *)
(* Two things on disk outlive every server: the pin (which binary last     *)
(* wrote the profile) and the lock file.  Each server runs its operations  *)
(* one at a time, but the lock releases started by a browser's close event *)
(* run beside them, a browser may die before its close event arrives, a    *)
(* server may be killed, and the binary may be updated or replaced at its  *)
(* path.  Chrome's own singleton is external: a launch fails while another *)
(* Chrome has the profile.  A version is a number, 0 one that is missing;  *)
(* a build stands for the size and time of the file.                       *)
(***************************************************************************)
EXTENDS Naturals, FiniteSets

CONSTANTS
  Servers,      \* server processes sharing the profile directory
  Paths,        \* where a Chrome may be installed
  Managed,      \* those Playwright itself manages
  MaxVersion,   \* bound: versions of Chrome
  MaxBuilds,    \* bound: files ever put at a path
  MaxLaunches,  \* bound: lock tokens, hence launches
  MaxKills      \* bound: times a server is killed

ASSUME LoginAssumption == MaxVersion \in Nat /\ MaxBuilds \in Nat

None == [server |-> "none", life |-> 0, n |-> 0]
NoPin == [path |-> "none", build |-> 0, version |-> 0]

VARIABLES
  disk,       \* path -> the build and version of the binary there
  chosen,     \* the path the preference resolves to now
  replaced,   \* whether any binary was ever put there but by an update
  pin,        \* the profile's record of its binary
  lock,       \* the token in the lock file
  life,       \* server -> its process, numbered
  step,       \* server -> where its current operation stands
  lockToken,  \* server -> the token its last launch wrote, None once released
  saw,        \* server -> what the open in progress has read
  context,    \* server -> the token of the context it holds
  browsers,   \* Chromes with the profile open or whose close is untold
  releases,   \* lock releases in progress
  launches    \* tokens handed out

loginVars == <<disk, chosen, replaced, pin, lock, life, step, lockToken, saw,
          context, browsers, releases, launches>>

files == <<disk, chosen, replaced>>

Nothing == [pin |-> NoPin, path |-> "none", build |-> 0, probed |-> 0]

LoginInit ==
  /\ disk = [p \in Paths |-> [build |-> 1, version |-> 1]]
  /\ chosen \in Paths
  /\ replaced = FALSE
  /\ pin = NoPin
  /\ lock = None
  /\ life = [s \in Servers |-> 0]
  /\ step = [s \in Servers |-> "idle"]
  /\ lockToken = [s \in Servers |-> None]
  /\ saw = [s \in Servers |-> Nothing]
  /\ context = [s \in Servers |-> None]
  /\ browsers = {}
  /\ releases = {}
  /\ launches = 0

(***************************************************************************)
(* What is on disk and what runs.                                          *)
(***************************************************************************)

\* A file put at a path is none that ever was at one.
New(build) == \A p \in Paths : disk[p].build < build

Up(token) == \E b \in browsers : b.token = token /\ b.up

\* Only positive evidence of disconnection counts as dead.
Dead(s) == context[s] # None /\ ~Up(context[s])

isOpen(s) == context[s] # None /\ Up(context[s])

\* A holder whose process is gone.
Stale(token) == token # None /\ token.life # life[token.server]

Releasing(s) == \E r \in releases : r.server = s /\ r.awaited

Goes(s, to) == step' = [step EXCEPT ![s] = to]

\* The operation ends, and what it read is forgotten.
EndsOperation(s) == Goes(s, "idle") /\ saw' = [saw EXCEPT ![s] = Nothing]

StartRelease(s, token, awaited) ==
  releases' = IF token = None THEN releases
              ELSE releases \cup {[server |-> s, token |-> token,
                                   at |-> "read", awaited |-> awaited]}

(***************************************************************************)
(* The operations, one at a time on each server.  Every one but close      *)
(* begins by dropping a context whose browser is gone; close does the same *)
(* and then succeeds.                                                      *)
(***************************************************************************)

Ask(s, what) ==
  /\ step[s] = "idle" /\ ~Releasing(s)
  /\ what \in {"open", "close", "read", "reset"}
  /\ Goes(s, what)
  /\ UNCHANGED <<files, pin, lock, life, lockToken, saw, context, browsers, releases,
                 launches>>

Operations == {"open", "close", "read", "reset"}

reapDeadContext(s) ==
  /\ step[s] \in Operations
  /\ Dead(s)
  /\ context' = [context EXCEPT ![s] = None]
  /\ StartRelease(s, lockToken[s], TRUE)
  /\ Goes(s, IF step[s] = "close" THEN "idle" ELSE step[s])
  /\ UNCHANGED <<files, pin, lock, life, lockToken, saw, browsers, launches>>

\* A second open is a no-op, a close or a read of a closed browser and a
\* reset of an open one are refused.
Returns(s) ==
  /\ step[s] \in Operations /\ ~Dead(s) /\ ~Releasing(s)
  /\ (step[s] \in {"open", "reset"}) = (context[s] # None) \/ step[s] = "read"
  /\ EndsOperation(s)
  /\ UNCHANGED <<files, pin, lock, life, lockToken, context, browsers, releases,
                 launches>>

reset(s) ==
  /\ step[s] = "reset" /\ context[s] = None /\ ~Releasing(s)
  /\ pin' = NoPin
  /\ lock' = None
  /\ EndsOperation(s)
  /\ UNCHANGED <<files, life, lockToken, context, browsers, releases,
                 launches>>

(***************************************************************************)
(* open: nothing is locked until every refusal is past.                    *)
(***************************************************************************)

\* Chrome's own lock refuses while a live Chrome is on the profile; then the
\* pin and the identity of the binary now chosen are read.
resolvePinnedExecutable(s) ==
  /\ step[s] = "open" /\ context[s] = None /\ ~Releasing(s)
  /\ IF \E b \in browsers : b.up
     THEN EndsOperation(s)
     ELSE /\ saw' = [saw EXCEPT ![s] = [pin |-> pin, path |-> chosen,
                                        build |-> disk[chosen].build,
                                        probed |-> 0]]
          /\ Goes(s, "judge")
  /\ UNCHANGED <<files, pin, lock, life, lockToken, context, browsers, releases,
                 launches>>

NewPath(s) == saw[s].pin.path # saw[s].path

\* First launch, or the very file the pin names: nothing to adjudicate.
Matches(s) ==
  \/ saw[s].pin = NoPin
  \/ ~NewPath(s) /\ saw[s].build = saw[s].pin.build

\* A path change neither side of which is Playwright's own.
Foreign(s) ==
  saw[s].pin # NoPin /\ NewPath(s) /\ {saw[s].pin.path, saw[s].path} \cap Managed = {}

\* Nothing recorded to move backwards from.
Unrecorded(s) == ~Matches(s) /\ ~Foreign(s) /\ saw[s].pin.version = 0

\* Slip: the equal version allowed, an older one too when the path is new.
AdoptsAcrossPaths(s, v) == v > saw[s].pin.version \/ NewPath(s)

\* An older binary never opens the profile; on an unchanged path the same
\* version with other bytes is a replacement, not an update.
assertNotADowngrade(s, v) ==
  /\ v >= saw[s].pin.version
  /\ v = saw[s].pin.version => NewPath(s)

PassesJudgement(s) ==
  /\ step[s] = "judge"
  /\ Matches(s) \/ Unrecorded(s)
  /\ Goes(s, "lock")
  /\ UNCHANGED <<files, pin, lock, life, lockToken, saw, context, browsers, releases,
                 launches>>

ChangedOutright(s) ==
  /\ step[s] = "judge" /\ Foreign(s)
  /\ Goes(s, "changed")
  /\ UNCHANGED <<files, pin, lock, life, lockToken, saw, context, browsers, releases,
                 launches>>

\* The probe launches the candidate on a profile to be thrown away.  One
\* that reports nothing is refused.
probeChromeVersion(s) ==
  /\ step[s] = "judge" /\ ~Matches(s) /\ ~Foreign(s) /\ ~Unrecorded(s)
  /\ \E v \in {0, disk[saw[s].path].version} :
       /\ saw' = [saw EXCEPT ![s].probed = v]
       /\ Goes(s, IF v = 0 THEN "unread"
                  ELSE IF assertNotADowngrade(s, v) THEN "lock" ELSE "changed")
  /\ UNCHANGED <<files, pin, lock, life, lockToken, context, browsers, releases,
                 launches>>

\* The refusal reaches the operator.
Refused(s) ==
  /\ step[s] \in {"changed", "unread"}
  /\ EndsOperation(s)
  /\ UNCHANGED <<files, pin, lock, life, lockToken, context, browsers, releases,
                 launches>>

acquireProfileLock(s) ==
  /\ step[s] = "lock" /\ lock = None
  /\ launches < MaxLaunches
  /\ launches' = launches + 1
  /\ lock' = [server |-> s, life |-> life[s], n |-> launches']
  /\ lockToken' = [lockToken EXCEPT ![s] = lock']
  /\ Goes(s, "launch")
  /\ UNCHANGED <<files, pin, life, saw, context, browsers, releases>>

\* A lock whose process is gone is removed, in a step of its own.
SeesStale(s) ==
  /\ step[s] = "lock" /\ Stale(lock)
  /\ Goes(s, "adopt")
  /\ UNCHANGED <<files, pin, lock, life, lockToken, saw, context, browsers,
                 releases, launches>>

Adopts(s) ==
  /\ step[s] = "adopt"
  /\ lock' = None
  /\ Goes(s, "lock")
  /\ UNCHANGED <<files, pin, life, lockToken, saw, context, browsers, releases,
                 launches>>

\* A holder that lives outlasts the wait.
InUse(s) ==
  /\ step[s] = "lock" /\ lock # None /\ ~Stale(lock)
  /\ EndsOperation(s)
  /\ UNCHANGED <<files, pin, lock, life, lockToken, context, browsers,
                 releases, launches>>

launchPersistentContext(s) ==
  /\ step[s] = "launch"
  /\ ~\E b \in browsers : b.up
  /\ context' = [context EXCEPT ![s] = lockToken[s]]
  /\ browsers' = browsers \cup
       {[token |-> lockToken[s], up |-> TRUE, closing |-> FALSE,
         version |-> disk[saw[s].path].version]}
  /\ Goes(s, "record")
  /\ UNCHANGED <<files, pin, lock, life, lockToken, saw, releases, launches>>

\* The lock file goes whoever wrote it.
LaunchFails(s) ==
  /\ step[s] = "launch"
  /\ lock' = None
  /\ EndsOperation(s)
  /\ UNCHANGED <<files, pin, life, lockToken, context, browsers, releases,
                 launches>>

Reported(s) ==
  {b.version : b \in {x \in browsers : x.token = context[s]}} \cup {0}

\* The version the context reports, failing that the probe's, failing that
\* what the pin said of the same path.
Version(s, reported) ==
  IF reported > 0 THEN reported
  ELSE IF saw[s].probed > 0 THEN saw[s].probed
  ELSE IF NewPath(s) THEN 0 ELSE saw[s].pin.version

writePin(s) ==
  /\ step[s] = "record"
  /\ \E v \in Reported(s) :
       pin' = [path |-> saw[s].path, build |-> saw[s].build,
               version |-> Version(s, v)]
  /\ EndsOperation(s)
  /\ UNCHANGED <<files, lock, life, lockToken, context, browsers, releases,
                 launches>>

(***************************************************************************)
(* close: the context is let go first, and once Chrome has closed the lock *)
(* file is removed.                                                        *)
(***************************************************************************)

closeLocked(s) ==
  /\ step[s] = "close" /\ isOpen(s) /\ ~Releasing(s)
  /\ browsers' = {IF b.token = context[s] THEN [b EXCEPT !.closing = TRUE] ELSE b
                    : b \in browsers}
  /\ context' = [context EXCEPT ![s] = None]
  /\ Goes(s, "closing")
  /\ UNCHANGED <<files, pin, lock, life, lockToken, saw, releases, launches>>

\* The lock file goes whoever wrote it.
Closed(s) ==
  /\ step[s] = "closing"
  /\ ~Up(lockToken[s])
  /\ lock' = None
  /\ EndsOperation(s)
  /\ UNCHANGED <<files, pin, life, lockToken, context, browsers, releases,
                 launches>>

\* Chrome does not confirm: the call is rejected, the context stays let go and
\* the lock file stays, until a close event or a reset.
CloseFails(s) ==
  /\ step[s] = "closing"
  /\ EndsOperation(s)
  /\ UNCHANGED <<files, pin, lock, life, lockToken, context, browsers, releases,
                 launches>>

(***************************************************************************)
(* A Chrome goes, and some time later its close event is told.             *)
(***************************************************************************)

Exits(b) ==
  /\ b.up
  /\ browsers' = (browsers \ {b}) \cup {[b EXCEPT !.up = FALSE]}
  /\ UNCHANGED <<files, pin, lock, life, step, lockToken, saw, context,
                 releases, launches>>

\* Only the context the handler was registered for is forgotten.
Forgets(s, token) ==
  context' = [context EXCEPT ![s] = IF context[s] = token THEN None ELSE @]

\* The handler is the process's: none is left to run it once it is killed.
CloseEvent(b) ==
  /\ ~b.up
  /\ browsers' = browsers \ {b}
  /\ IF Stale(b.token)
     THEN UNCHANGED <<context, releases>>
     ELSE /\ step[b.token.server] # "record" \/ context[b.token.server] # b.token
          /\ Forgets(b.token.server, b.token)
          /\ StartRelease(b.token.server, b.token, FALSE)
  /\ UNCHANGED <<files, pin, lock, life, step, lockToken, saw, launches>>

\* releaseProfileLockIfToken: the holder is read, and the file then removed.
ReadsHolder(r) ==
  /\ r.at = "read"
  /\ IF lock \notin {None, r.token}
     THEN releases' = releases \ {r} /\ UNCHANGED lockToken
     ELSE /\ releases' = (releases \ {r}) \cup {[r EXCEPT !.at = "remove"]}
          /\ lockToken' = [lockToken EXCEPT
               ![r.server] = IF @ = r.token THEN None ELSE @]
  /\ UNCHANGED <<files, pin, lock, life, step, saw, context, browsers, launches>>

Removes(r) ==
  /\ r.at = "remove"
  /\ lock' = None
  /\ releases' = releases \ {r}
  /\ UNCHANGED <<files, pin, life, step, lockToken, saw, context, browsers,
                 launches>>

(***************************************************************************)
(* The machine: a server is killed, a binary updated or replaced.          *)
(***************************************************************************)

\* Its Chrome may outlive it for a while; its lock file stays.
Killed(s) ==
  /\ life[s] < MaxKills
  /\ life' = [life EXCEPT ![s] = @ + 1]
  /\ EndsOperation(s)
  /\ context' = [context EXCEPT ![s] = None]
  /\ lockToken' = [lockToken EXCEPT ![s] = None]
  /\ releases' = {r \in releases : r.server # s}
  /\ UNCHANGED <<files, pin, lock, browsers, launches>>

untouched == <<pin, lock, life, step, lockToken, saw, context, browsers,
               releases, launches>>

\* Chrome updates itself in place.
SelfUpdates(p) ==
  /\ disk[p].version < MaxVersion
  /\ \E build \in 1..MaxBuilds :
       /\ New(build)
       /\ disk' = [disk EXCEPT ![p] = [build |-> build, version |-> disk[p].version + 1]]
  /\ UNCHANGED <<chosen, replaced>> /\ UNCHANGED untouched

Opening == {"judge", "lock", "adopt", "launch", "record"}

\* Somebody puts another binary there, or prefers another.  Not while an
\* open is deciding: that the file judged is the file run is an assumption.
Replaced(p) ==
  /\ \A s \in Servers : step[s] \notin Opening
  /\ \E build \in 1..MaxBuilds, v \in 1..MaxVersion :
       /\ New(build)
       /\ disk' = [disk EXCEPT ![p] = [build |-> build, version |-> v]]
  /\ replaced' = TRUE
  /\ UNCHANGED chosen /\ UNCHANGED untouched

Prefers(p) ==
  /\ p # chosen
  /\ chosen' = p
  /\ replaced' = TRUE
  /\ UNCHANGED disk /\ UNCHANGED untouched

LoginNext ==
  \/ \E s \in Servers :
       \/ \E what \in Operations : Ask(s, what)
       \/ reapDeadContext(s) \/ Returns(s) \/ reset(s)
       \/ resolvePinnedExecutable(s) \/ PassesJudgement(s) \/ ChangedOutright(s)
       \/ probeChromeVersion(s) \/ Refused(s)
       \/ acquireProfileLock(s) \/ SeesStale(s) \/ Adopts(s) \/ InUse(s)
       \/ launchPersistentContext(s) \/ LaunchFails(s) \/ writePin(s)
       \/ closeLocked(s) \/ Closed(s) \/ CloseFails(s) \/ Killed(s)
  \/ \E b \in browsers : Exits(b) \/ CloseEvent(b)
  \/ \E r \in releases : ReadsHolder(r) \/ Removes(r)
  \/ \E p \in Paths : SelfUpdates(p) \/ Replaced(p) \/ Prefers(p)

LoginSpec == LoginInit /\ [][LoginNext]_loginVars

(***************************************************************************)
(* What the login browser promises.                                        *)
(***************************************************************************)

\* A window the operator did not close is never forgotten: while a Chrome
\* this server launched is up and no close has reached it, the server holds
\* its context, however late an earlier one's close event comes
\* (login-browser.ts:289-301).
OpenWindowIsKnown ==
  \A b \in browsers :
    b.up /\ ~b.closing /\ ~Stale(b.token) => context[b.token.server] = b.token

\* One server on the profile.  Of two, the second may have read the pin before the
\* first recorded a newer binary, and open the profile after it.
Alone == \A s, t \in Servers : s = t

\* The profile is never opened by a binary older than the version its pin
\* records (login-browser.ts:680-683), whatever was updated, replaced or
\* preferred, and however versions failed to be read.
NeverOlderStep ==
  Alone =>
    \A b \in browsers' :
      (b.up /\ \A x \in browsers : x.token # b.token) => b.version >= pin.version
NeverOlder == [][NeverOlderStep]_loginVars

\* "a forward update must be adopted, not refused" (login-browser.ts:619):
\* while nothing but updates has happened, no open finds its binary changed.
ForwardUpdateAdopted ==
  ~replaced => \A s \in Servers : step[s] # "changed"

\* While a Chrome its server launched is up, the lock file says so
\* (login-browser.ts:790-795).
LiveProfileIsLocked ==
  \A b \in browsers : b.up /\ ~b.closing /\ ~Stale(b.token) => lock = b.token

\* However servers are killed, binaries updated and close events late, a server knows
\* every window it opened, and a server alone never opens a profile with an older
\* browser than wrote it.
ProfilesAreSafe == []OpenWindowIsKnown /\ NeverOlder
=============================================================================
