# agentbrowser: verification project

TLA+ models, TLC runs and TLAPS proofs of the control, durability, approval,
session and engine logic of agentbrowser, a service that lets an agent and a
human share a browser session. Every definition is translated from the
TypeScript under `src/packages/`; `PROJECT.json` names the lines of each one.

Contents: [1 the system](#1-the-system), [2 modules and code](#2-modules-and-code),
[3 runs](#3-runs), [4 fairness](#4-fairness), [5 proofs](#5-proofs),
[6 where code and words disagree](#6-where-code-and-words-disagree),
[7 what is assumed and what is left out](#7-what-is-assumed-and-what-is-left-out),
[8 plan](#8-plan), [9 how to run](#9-how-to-run).

## 1. The system

A client (SDK, MCP server, CLI, operator panel) calls an HTTP API. The service
(`api/service.ts`) allocates an engine session (Playwright, Safari, Firefox,
Obscura) for each session id, lets one principal at a time act on it, asks for
human approval of risky actions, and may record every write in a journal that
survives a crash.

| Part | State | Operations | Meets | What is hard |
|---|---|---|---|---|
| **SessionControl** `core/session-control.ts` | control state, epoch, review version, the open ticket, every write identity used | takeover, prepareResume, delegate, begin, acknowledge, dispatched, finalize, finish, stop | called synchronously by SessionAuthority | callers keep tickets and tokens across transitions and present them in any order; retries |
| **SessionAuthority** `control/session-authority.ts` | registrations, grants by token digest, scopes of runs with their pending tasks | register, remove, takeover, delegate, run, trackRead, dispatch, publish | SessionControl, journal port, work callbacks | every await lets another call in; ids are registered again; work outlives its callback |
| **Journaled runs** (same file) | intent, dispatch marker, terminal; raw I/O still outstanding | admit, mark, effect, terminalize, release | journal port, SessionControl | a timeout of the caller is not an end of the I/O; a crash between any two steps |
| **Operation journal port** `control/operation-journal.ts` | opening, slots, quarantine and poison, closing | open, read, reserve, mark, commit, close | raw adapter | late handles and late answers; cancellation within microtasks |
| **Journal records** `journal-sqlite-records.ts`, `journal-clock.ts` | namespace rows, fences, records, clock high-water | open, close, reserve, mark, commit, retire | the store's transaction, the wall clock | clock set back, retirement at the ceiling, stale owners |
| **Journal store** `journal-sqlite-store.ts` | database witness, anchor file, owner | initialize, open, mutate, close | SQLite, file system | power loss between commit, sync and rename; a restored older database |
| **Journal process** `journal-sqlite-adapter.ts`, `-child.ts` | IPC correlation, last handle | open, call, close, shutdown | port, records | the child dies with calls outstanding |
| **Recovery** `api/journal-config.ts`, `service.ts` | opened and refused namespaces | close, settle, reconcile by operation id | records, live runs | several namespaces, one of which did not open; runs still going on |
| **Approval gate** `core/approval-gate.ts` | tokens, the session index | mint, decide, consume, burn with outcome, cleanup, invalidate, shutdown | service, operator panel | an await at the token limit; `Date.now()` set back; two maps |
| **Acts** `api/service.ts` act, prepareApproval, plans | leases, reviews, the plan's references | act, executePlan, reseed | gate, authority, engine | approval is prepared before and spent after awaits; references go stale |
| **Sessions** `core/session-coordinator.ts`, `api/service.ts` | sessions, pending ids, terminal records; ledgers, pages, events | create, close, terminate, sweep, recover, shutdown | engines | a slow close meets the reuse of its id; creation meets shutdown; a crash meets a close |
| **HTTP plane** `api/server.ts`, `http-publication.ts`, `sdk-typescript/client.ts` | calls in progress, the caller's knowledge | authenticate, admit, work, publish, retry | authority, service | control changes hands between authentication and publication; lost answers |
| **Applications** `control/application-authority.ts`, `outcome-runner.ts` | binding, permits, the operation | bind, submit, outcome, cancel | policy callbacks, authority | permission withdrawn while a verifier is asked |
| **Downloads** `connection-authority.ts`, `download-transport.ts` | attempts, leases, budgets | connect, redirect, revoke | policy, DNS, sockets | a socket that connects after its attempt was revoked |
| **Autofill**, **login browser**, **engagement scope** | receipts; the profile's pin and lock; rates and amendments | fill; launch; admit | page; disk; ledger | the page rewrites itself; servers are killed; requests wait while the scope changes |
| **Playwright engine** `engine-playwright/` | browsers, pages, references, form identities, input owner, requests | create, observe, act, navigate, capture, route, close | browser processes | callbacks of the browser come at any await |
| **Safari engine** `engine-safari/` | windows, a bounded queue | page operations, close | WebDriver | one selected window for all pages; a full queue at close |
| **Policy engine, observation, extraction, schemas, other clients, offline analysis** | none or sequential | decisions and transformations of data | service | data rather than protocol |

What makes each part correct is what the runs of section 3 check; every place
where the code is exposed to something a test would hardly reach is in
`PROJECT.json` under `hazards`, with the properties that watch it. All
components, the unmodelled ones too, are there under `components`.

## 2. Modules and code

### The control of a session

* **`SessionControl`** is the class of that name, all of it. A method that
  throws changes nothing, so a refused call is no step. `tickets` holds every
  ticket ever issued, since the caller may keep the object and present it again;
  `records` is the map that never evicts. The review version (a UUID) is a
  counter, compared for equality only.
* **`SessionAuthority`** adds, over one textual session id, the registrations
  (`inc` is the incarnation of the entry), the grants and the runs. A run of an
  earlier entry keeps that entry, whose stopped control only it can reach.
  Whatever runs without an `await` is one action.
* **`ApprovalGate`** models both token kinds. The two methods that await inside
  are split there. Reading a token expires it, as in the code.
* **`ReviewedAct`** EXTENDS the gate: admission, `prepareApproval`, the wait for
  the durable marker or the engine's dispatch boundary, revalidation, payment
  with a token or a leased action, dispatch; with takeover, lease grants and a
  reseed of the cookies between any two. The gate's own actions are its steps.
* **`PlanRun`** is `executePlan` over `act`: references of two revisions,
  healing by ordinal or by label, other observers.
* **`ApplicationOutcome`** is the application authority with the outcome runner,
  **`HttpPlane`** the server around a session with the SDK's `requestJson` as
  its caller; it EXTENDS `SessionControl` for the control object. Its table holds
  the routes that run under the server's own control envelope, the lifecycle
  routes, the status of an operation and `prepare-resume`, which opens a run of the
  operator's to collect the review and takes over again when that fails. The
  application calls, which admit themselves, and the streams are not in it.

### What is kept

* **`JournaledRun`** EXTENDS `SessionControl`: one run under a durable journal
  seen through its port, a bounded answer (`answer`) and the raw I/O behind it
  (`raw`), which may apply late or never settle. It implements
  **`DurableOperation`**, which says in six short actions what a reader of the
  journal, after a crash perhaps, and a reader of the live service may conclude.
  A crash needs no action there: what the store holds at any moment is what a
  restarted service finds.
* **`OperationJournal`** is the port itself: `open` with its late handle, the
  two microtasks between a request and the adapter call, health, `close`.
* **`JournalProcess`** is the manager and the child with the two ordered
  channels between them.
* **`JournalRecords`** models the commit units of the rows (fences,
  compare-and-set, clock high-water, retirement at the ceiling, a restart);
  **`JournalStore`** the six steps of a mutation and what a crash, a power loss
  or a restored backup leaves (`dataDisk`, `anchorDisk` are sets of contents).
* **`JournalRecovery`** is the operator's close, settle and reconcile across the
  configured namespaces, while runs go on.

### Sessions

* **`SessionCoordinator`** models allocations as objects that keep their
  identity when the id is reused, with the checks the service makes between
  registration and adoption, and the two halves of shutdown.
* **`ServiceSessions`** is what the service keeps around them (ledger, evidence
  session, crash recovery, sweep); **`ServicePages`** the page registry with its
  pumps; **`SessionEvents`** the bounded histories with their readers.
* **`Downloads`**, **`Autofill`**, **`LoginBrowser`**, **`EngagementScope`** are
  the services of those names. The scope's ledger holds an authorized and a
  completed record of each revision, so that a second top-up needs its own.

### Engines

* **`EngineLifecycle`**: pool, headed and attached browsers, engine close.
  **`SessionPages`**: pages, adopted popups, held downloads, session close.
* **`PageRefs`**: minting, binding and resolving of references.
  **`FormIdentity`**: identity states, popup ownership, native capture.
* **`PageInput`**: who owns a page's input (ordinary, gesture, probe), and how a
  probe ends: a read is lost (`ProbeLost`), its claim settles as denied, failed or
  admitted (`ClaimSettles`), and then the page's own promise ends (`ProbeEnds`).
  **`PageActs`**: blocked navigations as evidence, healing, dialogs.
  **`PageRead`**: bounded reads that outlive their timeout.
* **`ChokePoint`**: route handler, redirect walk, body guard, probe claims,
  cookie replacement. `hasGuard` says whether the context has a
  `BodyRedirectGuard`, which only an engagement scope gives it; without one a body
  goes to the browser, which follows its redirects with no verdict
  (`NativeRedirect`), the residual of ADR-006. **`SafariSession`**: windows and the
  operation queue.

### How they are put together

`SessionControl` is the ground of `SessionAuthority`, `JournaledRun` and
`HttpPlane`, `ApprovalGate` of `ReviewedAct`: those are the compositions in
which components really call each other, and they share variables. All others
meet through answers that each models as its environment may give them.

The modules `MC...` are for TLC. Each puts several models side by side: the
variable `part` says at the start which of them a behaviour is of, and the
others hold still, so the states are the sum of the parts' and not their
product. A module whose theorems speak of a property is brought in with EXTENDS,
so that the run and the theorem name the same definition; the rest come with
INSTANCE. `MCEnds` repeats the parts with a liveness property on smaller
instances, under their fairness.

A definition whose comment begins `Slip:` is not part of a model. It is the
definition it precedes as a plausible bug would have it (a dropped guard, a
missing reset, a swapped order), kept to confirm that a property can fail.

## 3. Runs

`CHECK_DEADLOCK FALSE` is set in every configuration: the identities a model
draws from (tickets, calls, allocations, tokens) run out, and a stopped session,
a closed journal and a finished shutdown really are the end.

| Run | Parts | States | Properties |
|---|---|---|---|
| `control` | SessionControl, ApprovalGate, ReviewedAct | 881 K | `TicketsAreAccounted`, `DispatchesOnlyAsOwner`, `NothingIsTakenBack`, `ApprovalsHold`, `ActIsReviewed` |
| `outer` | HttpPlane (two racing calls; one call of any route), LoginBrowser | 1.62 M | `CallersMayTrustAnswers`, `ProfilesAreSafe` |
| `sessions` | SessionCoordinator, SessionAuthority, SessionEvents, ServicePages | 2.98 M | `AllocationsHold`, `AuthorityHolds`, `EffectsByCurrentOwner`, `ReaderIsTold`, `RegistryIsBounded` |
| `journal` | OperationJournal, JournaledRun, JournalRecords, JournalStore, JournalRecovery, ServiceSessions | 1.32 M | `PortKeepsOrder`, `RunIsDurable`, `RowsHold`, `AcknowledgedSurvives`, `RecoveryIsTrue`, `SealedWhenAnswered` |
| `service` | PlanRun, ApplicationOutcome, Autofill, EngagementScope, Downloads | 2.23 M | `PlanKeepsItsWord`, `OutcomeIsHonest`, `VerifiedTogether`, `ScopeHolds`, `TransfersAreBounded` |
| `engine` | EngineLifecycle, SessionPages, PageRefs, FormIdentity, PageInput, PageActs, PageRead, ChokePoint, SafariSession | 2.01 M | `SessionsHaveTheirBrowser`, `OneIsAttached`, `PagesAreAccounted`, `BytesWithinHold`, `ReferencesStayBound`, `IdentityHolds`, `InputMeetsItsDocument`, `EvidenceStandsAlone`, `LateValueDisposedOnce`, `ContactsOnlyWhatWasJudged`, `WindowsAreOwn` |
| `ends` | SessionAuthority, SessionCoordinator, SafariSession, ServicePages, PageActs, OperationJournal, JournalProcess, JournaledRun | 108 K | `TakeoverDrains`, `SessionsEnd`, `CloseGetsThrough`, `JournalCallsAreAnswered`, `PageEventsAreServed`, and of JournalProcess `RepliesAreTrue` |

Five more runs (`close_records`, `rebound_reference`, `plan_reference`,
`probe_claim`, `handback_gap`) end in a violation: section 6.

A property is a conjunction of the promises of one model; the comment before
each in its module says what every part is about. `RunIsDurable` contains the
refinement of `DurableOperation`.

Why the bounds are enough for the questions asked:

* *Control.* Two tickets let an old ticket of one owner meet a new one of
  another; four review versions allow review, delegation, takeover and a second
  review: two epochs of agent control. Three tokens under a limit of one fill
  the gate and leave one to mint after the await; one tick expires a token, and
  time set back would make it live again. Two acts, two leases and one action a
  lease let two acts want the same authority, and let a lease follow a reseed.
* *Outer.* Two racing calls of three routes (a write, the read of its operation,
  the deletion) meet every change of control between two of their steps; every
  route of the table is run once by itself, the collection of a review among
  them. The profile has two paths, two versions, two builds, two launches and one
  server, which is killed once; what two servers may do is in section 6.
* *Sessions.* Two allocations over two ids let a late close of the first meet
  the second, under the same id or beside it. Two registrations give equal
  epochs in different registrations, the case the binding generation is there
  for. A stream of two entries with three events evicts.
  Two made pages that each announce a popup, over a cap of one, bring two adoptions
  to their awaits at once.
* *Journal.* Three calls for two slots put one call beyond the bound and let an
  uncertain call, a queued write and a close meet. Two effects are the least for
  which one waits for the marker while another runs, and for which "every effect
  is over" is not "some effect is over". Three namespaces under a ceiling of one
  force each new one to retire an older one; the clock passes the first horizon
  while the later ones still accept, and steps back. Four commits let a restored
  database reach the sequence number of the lost lineage again, the case the
  nonce is there for. Recovery has a current and a past namespace, two starts.
* *Service.* A plan of two steps on a page of two buttons that change places,
  with two changes; two fields, the page changing before each of two steps of a
  widget; two transfers of two generations over budgets of one. Three requests over
  a rate of one and two amendments of a scope.
* *Engine.* Two sessions over the three kinds of browser and two crashes, and
  three sessions for the one attachment; two callers and three documents for a
  page's input; two acts with two requests; two requests over two places, one
  redirect hop and two cookie replacements, with a guard and without; popups that
  open popups. Three calls on a Safari queue with room for one list a page, close
  it, list it again, and meet a full queue.
* *Ends.* One registration, allocation or operation: what must end belongs to one.
  Three calls of the journal process over two namespaces are an open, the close of
  its handle, which ends the child, and the open of another.

Symmetry is used for tickets, operation ids and calls in `control` and `outer`, and
for the requests of the scope in `service`; none of these has a liveness property.

## 4. Fairness

All of it is weak fairness of single actions, and none of it is of a caller, a
human, a browser, raw journal I/O or an engine's close:

* `SessionAuthority`: work callbacks, tracked engine calls and publications end
  (`Settles`, `Continues`); each has a timeout of its own.
* `SessionCoordinator`: time passes (`Expires`) and the cleanup timer runs
  (`Cleanup`). An engine's close may never settle.
* `JournaledRun`: promise continuations run, and the port answers in bounded
  time (`CallExpires`), which is what `CallersAnswered` shows of the port. Raw
  I/O never has to settle: the caller is answered even though the ticket may
  stay held.
* `OperationJournal`: timers fire and microtasks run; nothing of the adapter
  but that a close it was asked for returns or times out.
* `JournalProcess`: the child takes what is in its channel, answers or ends, and
  the parent hears either (an operating system's process exit is reported).
* `SafariSession`: a WebDriver request is answered or fails, each being bounded
  by the client (`Serve`).
* `ServicePages`: a pump whose stream has something runs, and so does the `then`
  that drops an ended page (`Pumps`, `DropsEnded`).
* `PageActs`: the grace timer of a dialog fires (`GraceEnds`).

## 5. Proofs

TLC shows a property on a small instance; a theorem states it for every value of
the constants, under the named assumptions of the modules and nothing else. Eight
modules hold the proofs, beside the modules they speak of:

| Module | Of | Inductive invariant |
|---|---|---|
| `SessionControlProofs` | `SessionControl`, `HttpPlane` | `ControlInv`, `HttpInv` |
| `SessionProofs` | `SessionAuthority`, `SessionCoordinator`, `ServiceSessions`, `SessionEvents`, `ServicePages` | `AuthorityInv`, `CoordinatorInv`, `ServiceInv`, `EventsInv`, `ListedInv` |
| `OperationJournalProofs` | `OperationJournal` | `PortInv` |
| `JournaledRunProofs` | `JournaledRun`, `DurableOperation` | `RunInv` |
| `JournalStorageProofs` | `JournalRecords`, `JournalStore`, `JournalRecovery`, `JournalProcess` | `RowsInv`, `StoreInv`, `RecoveryInv`, `ProcessInv` |
| `ApprovalProofs` | `ApprovalGate`, `ReviewedAct`, `ApplicationOutcome`, `PlanRun`, `Autofill` | `ApprovalsInv`, `ReviewInv`, `OutcomeInv`, `PlanInv`, `FillInv` |
| `EngineProofs` | `EngineLifecycle`, `PageRead`, `PageInput`, `PageActs`, `PageRefs`, `FormIdentity`, `SessionPages`, `SafariSession` | `EngineInv`, `ReadInv`, `InputInv`, `ActsInv`, `RefInv`, `FormInv`, `RegistryInv`, `HeldInv`, `SafariInv` |
| `EgressProofs` | `Downloads`, `ChokePoint`, `EngagementScope`, `LoginBrowser` | `DownloadsInv`, `ChokeInv`, `ScopeInv`, `LoginInv` |

Each follows one argument: `Init => Inv`; one lemma for each action (or one for
each kind of assignment, cited by the actions that make it) which shows that
`Inv` survives it; `Inv => Property`; and a last temporal step. What the
strengthenings say, and why the property needs them:

* **`ControlInv`.** `check` compares the ticket's epoch and the control's state
  and never looks at the actor. That this suffices (`DispatchesOnlyAsOwner`) needs
  `ValidTicketIsOwners`: whoever holds a ticket of the current epoch is the owner
  the state names, because every change of owner moves the epoch.
  `RecordsMatchTickets` ties the map that never evicts to the tickets,
  `PauseHasOwner` a pause to the ticket it waits for.
* **`HttpInv`.** A caller may trust an answer (`CallersMayTrustAnswers`) because each
  ticket is one call's and every record is of some call's ticket (`TicketsAreCalls`);
  because what the record says is tied to where the call is, so that a reply on its
  way still agrees with it whoever owns the session by now (`Ticketless`, `Ticketed`,
  `HasHeard`); and because a controlled session that is over is stopped
  (`OverIsStopped`). A call that collects a review holds its ticket in review,
  unless control is to pause or has stopped (`InReview`). `ControlInv` is part of
  it: the calls change the control only as `SessionControl` allows.
* **`AuthorityInv`.** `GrantInv` (a grant is of a registration that was made),
  `EntryInv` and `OwnerInv` (which of the objects of one id a lookup can reach),
  `PhaseInv` (what a run in each phase holds) and `RecordInv` together give that
  an effect is of the current owner although every `await` lets another in.
* **`CoordinatorInv`.** `MapInv`, `PendingInv`, `ClosesInv` and `ShutdownInv` give
  every allocation exactly one party that will close it.
* **`ServiceInv`.** For each session: what every stage of a creation and of an end
  has made and recorded (`Stage`, `RowsInv`, `FileInv`), and which entries are still
  owed a sweep; for all of them together, what an answered shutdown leaves
  (`AnswerInv`). A lemma `Untouched` carries it over for the sessions a step is not of.
* **`EventsInv`.** A ledger keeps the last of what was written to it, numbered without
  a hole (`Keeps`), and a cursor that began in this life of its ledger is owed nothing
  and not past the end (`CursorInv`). Without the second part a reader's cursor could
  be ahead of the ledger, which is what happens after a handback (section 6).
  `Evict` and `Scan` take a least and a greatest element; that these exist is
  `LeastExists`, from the well-foundedness of strict inclusion among finite sets.
* **`ListedInv`.** An adoption at its await has room for its popup and is the only
  one, so a popup that is added after the await cannot pass the cap its adoption was
  counted against before it.
* **`PortInv`.** The count of slots is exactly the number of calls that hold one,
  which needs the counting lemmas `SlotTaken` and `SlotFreed` over `Cardinality`;
  `OpeningInv`, `HealthInv` and `CloseInv` say who holds a late handle.
* **`RunInv`.** `OwnerInv`, `CallInv`, `ToldInv`, `EffectInv` and `ResultInv`
  relate the live record, the journal and the raw I/O. With them every step of
  `JournaledRun` is a step of `DurableOperation` or leaves it as it was: the
  refinement is a theorem, and part of `RunIsDurable`.
* **`RowsInv`.** `FenceInv` and `LegalInv` relate the latest fence to what a holder
  believes; `PurgedInv` keeps a retired id's tombstone, whatever the clock does;
  `CeilingInv` counts live namespaces.
* **`StoreInv`.** `NoncesAgree`, `OwnerInv`, `AcknowledgedKept`, `WorkInv` and
  `SettledInv` describe which databases and anchors may be on disk after each of
  the six steps, so that a crash or a power loss needs no case of its own beyond
  "one of the contents that may be there".
* **`RecoveryInv`.** What a call found, what it has still to write and what it
  wrote, against records that the operations' own runs still change.
* **`ProcessInv`.** A call is in one place: its request is in the channel once and
  nobody has acted on it (`RequestInv`), or its reply is on the way back and says what
  the child did (`ReplyInv`, `AnswerInv`). The child serves the handles it opened until
  their close is asked for, and none once it leaves (`HandleInv`).
* **`ApprovalsInv`, `ReviewInv`.** `BurnedIsSpent` and `OpenOutcome` of the gate;
  then, of the acts over it, `TokensStand`, `TicketsAreCurrent`, `EveryActPays`
  and `LeaseIsCurrent`. `ActsUseTheGate` is the composition: what acts, the
  operator and a reseed do to the gate is what the gate's specification allows
  its callers, so every promise proved of the gate holds of them.
* **`OutcomeInv`.** What an application's operation can have executed, verified and
  released in each of its phases (`OperationFits`).
* **`PlanInv`.** A reference is handed out once and for one element, the latest ones
  are those the engine is bound to (`HandedInv`), the snapshots kept say what older
  ones meant (`HistoryInv`), and the reference a step acts through is like the one it
  named (`StepInv`). While a step waits between its revision check and its dispatch
  its reference is of the latest observation only because nobody else observes: this
  is the hypothesis `Unwatched`, and the finding `plan_reference` is what happens
  without it.
* **`FillInv`.** Fields before the present one have their receipts, those after it are
  untouched, and a write that was not started wrote nothing (`ReceiptInv`); where the
  run takes the stage for valid, a complete observation came after its last action
  (`StageInv`). `VerifiedTogether` follows: what is reported verified was held by the
  page all at one moment.
* **`EngineInv`.** Where a session's browser is in each phase of its creation
  (`CreationInv`), what engine close still owes (`ShutdownInv`) and who holds the
  attachment (`AttachmentInv`). `InputInv` names the owner of a page's input in
  each phase and the document it pinned, `ReadInv` how far a read's promise, race
  and caller have come, `ActsInv` that an act's chain of requests hangs together.
* **`RefInv`.** An unchanged observation agrees, row by row, with what was bound
  before it (`AgreesWith`, `BoundSoFar`), and every reference of an earlier answer
  that is bound at all is bound to the element its row was, unless an unchanged
  observation did not bind it again (`forgotten`). It holds when calls of a page do
  not overlap, the hypothesis `~Concurrent` of the theorem; section 6 says what
  happens when they do.
* **`FormInv`.** A mint that may still be kept is the one its frame waits for
  (`MintInv`), and a token that was handed out is its frame's identity for as long as
  the document stands, however many navigations, mints and captures lie between
  (`TokenInv`): without the first, a late mint could replace an identity an act holds.
* **`RegistryInv`.** An open page the session made is listed or still being sized, a
  page it came to own and no longer lists is closed, and nothing is held for a page
  that is not listed.
* **`HeldInv`.** The counter of a page's downloads is their sum, and an entry that is
  set finds room in both limits because the loop before it evicts until it does, or
  everything. What a recursive sum adds up to takes an induction on the number of
  entries. The library's induction theorems take an operator, which the provers cannot
  instantiate; `AllUpTo` is one for a set of numbers, from `LeastExists`.
* **`SafariInv`.** Each call that has not settled is in the queue once and its head
  alone is on the driver (`QueueInv`); hence between the switch to a window and what is
  done in it no other window is selected (`SelectedInv`), and a page whose close is
  under way is not listed again (`ClosingInv`).
* **`DownloadsInv`, `ChokeInv`.** What attempts and leases hold of the two budgets
  (`BudgetInv`) and of which generation they are; what each request was allowed
  and has contacted (`Judged`), and what a frozen context admits (`SwapInv`). That a
  redirect was judged is shown of what the handler walks itself and of every body in
  a context with a guard; of a body in one without, only its first destination.
* **`ScopeInv`.** The admissions that pace remembers cover every request it let pass
  that still counts (`AdmissionsCover`), so a window it finds short of the rate is
  short of it in truth (`WindowsHold`); every revision in force was written first, by
  records of its own (`GrantInv`).
* **`LoginInv`.** A lock token is of one launch, and the window of a live process is
  known to it (`WindowsInv`). `OpenInv` says, by the stage of an open, what it has
  read and that the binary it decided on is as new as the pin; `PinInv` that the file
  the pin names is no older than it says. These two, and `NeverOlderStep` with them,
  hold of one server on the profile, the hypothesis `Alone`; section 6 says what two do.

The assumptions are `ControlAssumption`, `AuthorityAssumption`,
`CoordinatorAssumption`, `PortAssumption`, `RunAssumption`, `RecordsAssumption`,
`StoreAssumption`, `RecoveryAssumption`, `ApprovalsAssumption`,
`ReviewAssumption`, `NoTokenAssumption`, `EngineAssumption`, `InputAssumption`,
`ActsAssumption`, `DownloadsAssumption`, `ChokeAssumption`, `OutcomeAssumption`,
`PlanAssumption`, `RegistryAssumption`, `ScopeAssumption`, `ProcessAssumption`,
`PopupsAssumption`, `AutofillAssumption`, `LoginAssumption` and `HttpAssumption`
(a route's name is a fingerprint). `RegistryAssumption` also says that no download is
larger than the limit for all of them together, as the code refuses one that is. The others say
that bounds are numbers, that sets of identities are finite where the code counts
them, and that a name standing for "nothing" is not one of the things. TLC
evaluates every one of them on the runs.

Only model-checked, and why:

* liveness (`TakeoverDrains`, `SessionsEnd`, `CloseGetsThrough`,
  `JournalCallsAreAnswered`, `PageEventsAreServed`): the prover has no rule for
  fairness, which speaks of `ENABLED`.

Every other property a passing run checks is stated by a theorem: 35 of 40.

## 6. Where code and words disagree

Five runs check one statement that a comment or a document makes and end in a
behaviour of the code that breaks it:

* **`close_records`** (`CloseTimeRecordsKept`). "A ledgered session keeps its
  ledger open until the engine session is gone, so the engine's close-time
  records ... are kept" (`service.ts:1964-1966`). An operation that fails because
  `closeSession` is closing its page looks like a crash; `recoverFromCrash` calls
  `terminate`, which returns at once for a closing session
  (`session-coordinator.ts:571`), and seals the ledger as crashed. The engine's
  close-time records meet a sealed ledger.
* **`rebound_reference`** (`ActsOnTheElementAnswered`). "Refs are deterministic
  within a revision (document order), so the same element maps to the same ref
  until the page mutates" (`index.ts:4460-4462`). The comparison with the
  observation before takes a row an include token added, and which that
  observation did not bind, for no change (`index.ts:4684-4702`). So: observe with
  the token, observe without it, a widget comes or goes, observe with it again;
  the reference of the first answer now names another element under the same
  revision, and an act on it goes there. No calls overlap. That this is the only
  way is what `ReferencesStayBound` says, which is proved (section 5).
* **`plan_reference`** (`ReferencesHold`). "Refs are translated to engine refs on
  the way in" (`service.ts:8505-8508`). A reference that the latest observation
  does not know is sent as it is, and the engine's references look the same.
* **`probe_claim`** (`ProbeHoldsPage`). "A probe holds the page exclusively while
  in flight" (`page-fetch-lane.ts:23`). Neither `navigate` nor a coordinate
  gesture looks at a probe, and two probes prepared together pass the same test.
* **`handback_gap`** (`NothingPassedSilently`). The gap flag is `true` "when
  entries after the cursor were evicted before this read"
  (`event-replay.ts:176`). A change of control deletes the event ledgers, whose
  successors count from zero; a reader's cursor is then ahead, and skips what it
  has not seen with the flag `false`.

Smaller ones, stated in the modules or seen while modelling, and not run:

* `PageRefs`: when calls of a page do overlap (`Concurrent`), an act whose resolve
  passed before an observation binds again looks its locator up anew
  (`index.ts:5558-5569`, `:4463-4522`, `:4891-4906`) and may reach another element,
  though "an ordinal is never resolved anew at act time" (`index.ts:4625`).
  Observations are not serialised with acts (`service.ts:5542`). Setting
  `Concurrent` to `TRUE` and `Base` to two nodes in `MCPageRefsRebound.cfg` shows it.
* `PageInput`, `SubmittedProbeSaysSo`: "Once browser execution has been submitted,
  timeout, cancellation, close and raw transport failures preserve their typed cause
  and carry explicit uncertain dispatch metadata"
  (`docs/adr/030-scoped-page-fetch.md:164-166`). When the claim was admitted and the
  page's own fetch is rejected after that, `perform` throws `INTERNAL` with no such
  metadata (`page-fetch-probe.ts:322-328`), though the server was reached. A claim
  denied at a later redirect hop says nothing of the hops before it either
  (`:303-314`); of denials the document does not speak, and neither does the formula.
  Naming it in `MCPageInputProbe.cfg` shows it. `InputMeetsItsDocument` therefore
  promises only of gestures that one that was submitted is not answered as refused.
* `ApprovalGate`, `InvalidationExpiresAll`: `invalidateSession` leaves a decided
  token of the session that a mint is about to drop (`approval-gate.ts:482`
  against `:495`); the service makes up for it (`service.ts:2406`).
* `EngagementScope`, `BudgetHolds`: two requests pass the check of the request budget
  before either spends of it, and more are sent than the engagement allows
  (`scope-policy.ts:996-1001` against `:58` and `:466-467`).
* `EngineLifecycle`: two creations may both find the attachment free
  (`index.ts:3387-3407`, `:1690-1693`) though `docs/operations.md:1467` and
  `index.ts:2870` promise one.
* `LoginBrowser`, `ForwardUpdateAdopted` and `LiveProfileIsLocked`: a Chrome that
  updates itself while it is being opened is recorded with the bytes of before and
  the version of after, so that the next open finds it changed although it only
  moved forward (`login-browser.ts:556` against `:619`); and the lock of a live
  Chrome goes with a failed launch, a close, a reset or a stale lock's adoption of
  another process (`:283`, `:405`, `:463-476`, `:808-813` against `:790-795`).
* `LoginBrowser`, `NeverOlder`: of two servers on one profile, the second may read the
  pin before the first, whose preference names a newer binary by now, records that
  one; the second then takes the lock and opens the profile with the older binary. The
  lock is taken after the pin is read (`login-browser.ts:270` against `:239`), though
  the gate is "never opened by an older binary" (`:681`). Hence the hypothesis `Alone`
  of `NeverOlderStep`; without it, TLC finds this with two servers.
* `ChokePoint`: a claim may outlive the request it was made for.
* `ReviewedAct`: a reseed asks whether the session is busy before it takes it
  (`service.ts:2378` against `:2377`).
* `PlanRun`: in stable mode a heal goes by ordinal and may press another element
  (`service.ts:3986` against `docs/td/TD-BROWSER-8-batched-snapshots-and-action-plans.md:71`
  and `:86`).
* `PageActs`, `OpenDialogIsHeld`: the grace timer of a dialog that went by itself
  lets go of whichever dialog is held by then, which no act can answer any more
  (`index.ts:3671` against `:3665`).

## 7. What is assumed and what is left out

* JavaScript runs one callback at a time: whatever has no `await` is one step,
  and every `await` is a place where any other step may come in. Two processes
  (service and journal child) interleave freely.
* SQLite commits atomically and locks exclusively; `fsync` does what it says. A
  database restored together with its anchor is outside the threat model
  (`docs/spec/design/t5-journal-sqlite-audit.md`) and is not a step.
* Opening a store again does not sync the anchor's directory again: a rename that
  was never acknowledged may be accepted and lost afterwards. The store then
  refuses to open; no acknowledged commit is lost.
* Adapters, policies, verifiers, DNS, pages and browsers answer anything of the
  shapes the code distinguishes, or never answer.
* The clock of `EngagementScope` only moves forward; those of the approval gate and
  of the journal records may be set back.
* In `LoginBrowser` no binary is replaced while an open is deciding: that the file
  judged is the file run is an assumption, which the code does not enforce. (A Chrome
  may update itself at any time.)
* In a context without an engagement scope `ContactsOnlyWhatWasJudged` says nothing of
  where the browser follows the redirects of a body: the code judges none of them
  (`body-redirect-guard.ts:6-31`, `index.ts:2258-2264`), and its documents say so.
* In `OperationJournal` an answer to `open` that is no well-formed envelope may hold a
  handle the port cannot recognise (`operation-journal.ts:148-176`); it stays open
  (`"unrecognised"`), and the promise that late handles are closed is not of it.
* UUIDs, digests and fingerprints never collide; data that only passes through
  (payloads, wording, redaction, metrics) is left out.
* The order in which terminal records are dropped is that of the map, taken as
  any order where the property does not depend on it.
* Of a plan whose page others have observed, `PlanKeepsItsWord` asks only the types
  and that an answered effect is its step's last: where it acts inherits the finding
  `plan_reference` there.

Each component of `PROJECT.json` says what of it is left out. Not modelled:
Firefox and Obscura engines (adapters with no protocol of their own), secrets and
artifacts (sequential maps), network policy and policy engine (decisions over
data), the action executor, observation and extraction, protocol schemas, clients
but for the SDK's request loop, audit and benchmarks, the engine contract and its
test kit.

## 8. Plan

Done: the models and runs above, the proofs of section 5. What would come next:

1. More of `api/service.ts` and `engine-playwright/src/index.ts`: captures, uploads
   and artifacts, which today are only answers of the environment.
2. The Firefox engine, whose references and pages have no model yet.

## 9. How to run

From this directory:

```
tlasany SessionControl.tla                                      # parse
tlc -workers 2 -config MCControlParts.cfg MCControlParts        # a run
tlapm SessionControlProofs.tla                                  # the proofs of a module
```

The runs and their configurations are in `PROJECT.json` under `runs`; a run of
section 6 ends with the counterexample. Each passing run takes one to three
minutes with two workers, each module of proofs from one to ten minutes.
