# Formal models of pi2dsh

pi2dsh lets DSH, an agent host, run the extension packages written for Pi,
another agent program. It translates in both directions: Pi packages are mounted
as DSH plugins, and what DSH agents do (turns, tool calls, session logs) is
replayed to the packages as the Pi events they expect. This directory models the
part of it that is hard to test: the order in which agents, packages, promises
and callbacks meet.

All paths below are relative to the repository; `engine.ts` stands for
`src/engine.ts` and so on. A number in parentheses is a line of that file.

## 1. The system

### Components, their state and their operations

| Component | State | Operations |
|---|---|---|
| Engine (`engine.ts`, `host.ts`) | prepared packages, `preparedPackages` gate, per-scope mount passes, child catalog | `apply`, `installAgentScopedMounts`, `installNativeSubagentMounts`, `ensureMount`, `applyPreparedPiHost` |
| Package instance (`runtime.ts`, `RuntimeState`) | handler ledger, `extensionsReady`, `pendingSessionStarts`, `activeAgents`, `hostAgent`, `startedSessions`, `sessionStartTasks`, `shutdownTasks` | `startPiSession`, `shutdownPiSession`, `ensurePiSessionStarted`, `flushPendingSessionStarts`, `reload`, `restartReloadedPiSessions`, teardown |
| Bridged child session (`subagent-bridge.ts`) | `#pendingPrompt`, `#aborted`, `#seed`, `#messageProjection`, `#turnAssistant`, `messages` | `prompt`, `state.messages =`, `abort`, `dispose`, `#project` |
| Child creation (`subagent-bridge.ts` 749-1092) | persisted descriptor, archive, queued unarchival | `createBridgedAgentSession` |
| Provider ledger (`runtime.ts`, `provider-adapter.ts`, `model-bridge.ts`) | registrations, overrides, routes, model scopes | `registerProvider`, `unregisterProvider`, route mounting |
| Login (`runtime.ts`, `oauth-bridge.ts`, `credentials-oauth.ts`) | running login, pending prompt, stored credentials | login steps, refresh, logout |
| Event projection and tool gate (`runtime.ts`, `session-events.ts`, `nested-tools.ts`) | per-agent projection position, backlog, pending tool calls | turn/message/tool events, `tool_call` veto, `tool_result` rewriting, context transforms |
| Session bridge (`session-bridge.ts`) | overlay entries, archives | Pi session manager calls |
| User interface (`browser-surfaces.ts`, `tui-surfaces.ts`, `pi-component-relay.ts`, `ui-prompt-lifecycle.ts`) | open prompts, surfaces, relays | show, answer, cancel, detach |
| Compatibility ABI, vendored Pi code, analyzer, CLI, companion plugin | none of interest over time | pure functions, I/O |

### How they interact

- DSH delivers `agent/created` serially and waits for each listener before it
  releases the agent; the engine uses this to hold an agent back until its
  packages are mounted.
- The engine mounts one package instance per agent and package. The instance
  listens to the same events and starts the Pi session of its agent.
- A package may create a child through the bridge. The child is a DSH agent
  itself, gets the packages its creator chose, and is adopted by the instance.
- Every tool or command call goes through `ensurePiSessionStarted`; nothing
  serialises it with `agent/created`, the flush at the end of a mount, a reload or
  a disposal.
- The child's log drives `#project`, synchronously but for messages, which await
  the attachment service in one promise chain.

### What is hard, and what makes a component correct

- *Engine.* Three mount paths meet on one scope, before and after preparation.
  Correct: each package once per scope, mounted before the agent is released,
  nothing left after its disposal, no gate left closed.
- *Instance.* Concurrent starts, a hand-over that awaits a shutdown, handlers that
  throw, reload over several awaits. Correct: one `session_start` per start, the
  sessions strictly one after the other, tools only with the session up, a
  claim never without a session.
- *Child session.* Asynchronous projection, cancels that come too early, disposals
  at any await. Correct: a resolved prompt is a delivered turn, events in log
  order, an aborted child stays quiet, stop reasons on the right message.
- *Projection.* A chain that lags behind the log, a package that joins late and
  leaves early, streams that are retried. Correct: all since the open turn, in
  order, once, with its own contents.
- *Creation.* Calls that fail at any await, restrictions that intersect. Correct: the
  child has the tools it was asked for last, one descriptor, and its archive is
  retired only when its session is gone.
- *Provider ledger.* One provider described by several packages in many instances,
  adapters that mount over several awaits. Correct: the route serves the present
  composition, through one adapter, for owners that are there.
- *Login.* A flow that belongs to the package and cannot be killed, three doors,
  renewals that race sign-outs. Correct: no link or question outlives its login, the
  card says what happened, no credential is revived, overwritten or spent twice.
- *Tool gate.* Parallel and nested calls that each vote on the end of the turn, state
  kept per agent between two hooks. Correct: a tool that ran keeps the turn going,
  what a turn uses is its own.
- *Surfaces.* Instances that overlap, handles that outlive what they stand for,
  answers late or lost. Correct: what is shown is live, drafts are applied in order.
- *Archives.* Several caches of one file, a scan over many awaits, a death at any
  time. Correct: acknowledged records survive, living sessions keep their exports.

## 2. The modules

### EngineMounts

Models `apply()` of the engine, the two listeners, the backfill of roots that were
alive first, the bridge's own mount, and disposal. `engine` is the position of
`apply()`; each await is a step boundary, so `MountBuiltins`, `DiscoverSome`,
`Prepare`, `MountAnchors`, `EngineReady` are the stretches between two awaits, and
`EngineFails` is the catch block at any of them. `gate` is `preparedPackages`,
`pass[a][path]` the memoised promise of `ensureMount` in each of the three
`WeakMap`s, `life[a]` the delivery of `agent/created`: the root listener comes
before the native one. `config` and `lineage` are chosen in `Init` and never
change.

Abstractions: the order of packages within a pass is left open (the code takes
them in order; no property depends on it); a scope and its agent are one; the
discovery of packages is a choice of a set; the bridge's choice of packages is any
subset of the catalog.

### PiSession

One `RuntimeState`. Each start task is a process with the phases of
`startPiSession`: `handoff` (awaits the previous agent's shutdown), `exports`
(`prepareSessionFileExports`), `starting` (handlers running), `resources`
(`resources_discover`), `done`/`failed`. `current[s]` is the entry of
`sessionStartTasks` a second caller joins, `claims` is `startedSessions`, `shut` and
`shutTask` are `piShutdownAgents` and `shutdownTasks`, `closing` is
`pendingShutdowns`. `waits` holds the callers: the `agent/created` listener, the
flush, a tool or command. `sess[a]` is not a variable of the code: it is what the
extension was told last. The reload and teardown steps are cut at their awaits too.

`setup` is chosen in `Init`: the kind of mount (owned by an agent, as the engine's
are, or by none: a legacy root mount, which follows every root agent), the agents
that may appear, and the bounds. Where its `overlap` is FALSE nothing new begins while
a start is under way: this is the serial host under which the legacy promise of a
linear runtime can hold at all.

`LinearRuntime` is the abstract specification, what Pi promises its extensions: a session
starts when none is open and no living agent's `session_shutdown` is still being handled.
`Linear` is the refinement mapping: `open` are the agents whose session the extension saw
start and not end (`sess`), `ending` the living ones with an unsettled promise in
`closing`. Shutting down, failing and leaving are free in it; all it constrains is the
start, which several agents, awaits and promises have to agree on in the code. The run
`session` checks it, `PiSession_proofs` proves it.

Abstractions: the resource discovery in a reload's restart is part of
`RestartHandlersDone`; the host-anchor instance (which accepts no agent) is left
out; handlers are opaque and either return or throw.

### ChildSession

`PiBridgedAgentSession`. `prompt()` is `caller`, with its awaits: seed delivery,
content resolution, waiting for the turn, draining the projection chain. `log` is
the projected part of the child's log and `chain` the promise chain, so `emitted` is
what subscribers have got. `turn.live` tells whether the driver has claimed the
turn's activity: a cancel before that is lost, which is why `#project` repeats it at
every `turn/start`, `step/start` and `request/header`. The child agent itself is
external and modelled from what the bridge relies on. A wake-up that does not come
from `prompt()` (a message of the parent, a timer) opens a turn of its own.

`OrderedFeed` is the abstract specification: a log grows, and a listener who has not
been cut off is told each entry once and in order. `Feed` is the refinement mapping:
the log is the child's, the listener is open until `dispose()`, what it heard is
`emitted`. The run `child` checks it, `ChildSession_proofs` proves it.

Abstractions: a user message is logged when its turn opens; the end reasons
max-tokens and blocked count as stop and error; tool events, assistant-stream
frames and tool restrictions are not modelled. A message projection never
rejects: unreadable attachments contribute nothing (407-417).

### SessionArchive

What `PiSessionBridge` keeps on disk. `archive` is the file of Pi-only records (a
header line, then one line per record), `export` the transcript rebuilt from DSH's
log and the records, of which only the extent of the log and the set of records
matter. `cache`, `loaded` and `watched` are `records`, `loaded` and
`exportedSessions` of each package instance's bridge; all bridges work on the same
files. Bridge calls are synchronous and are one action each; `scan` is the position
of `exportStoredSessions`, cut at its awaits, with the memo of
`prepareSessionFileExports` (one scan per host, another only after a failure).
`Crash` is a death of the process between two calls, `CrashInPersist` one within
`persist()`, between or within its two appends: a line may be cut short, and the next
append continues that line. `acked` and `issued` are not in the code: they remember
which calls returned.

Abstractions: a record is a number; a session header without a cwd (the scan skips
it) and the persistence services without `open` are left out; the export is
replaced atomically (a temporary file is renamed); a line cut just before its line
break counts as a part of a line; DSH is assumed to list every session that
is live or stored.

### StoredLogins

What becomes of a completed login. `mem`, `disk` and `chain` are the credentials, the
file and the per-provider chains of `FileCredentialStore`; `ref` is what DSH's
credential store has behind the provider's reference, `memo` is
`publishedOAuthKeys`, `declared` the routes in DSH's settings. A job is one call in
flight, with its position: `storing`, `deleting` and `renewing` stand in the chain,
`refreshing` is the provider's refresh call, `writing` and `saving` the file's write (of
a login or signing-out, of a renewal) with its snapshot `snap`, `holding` has a key in
hand, `setting` stores it with DSH. `root`, `spent`, `committed` and `out` are not in
the code: they remember where a credential comes from, which ones a renewal has used
up, what the user did last.

Abstractions: a credential is a number and its age one of three; a token does not
expire between being resolved and being stored with DSH; providers that answer
with a header, keys overridden by the environment and an absent credentials or
settings service are left out; aborted renewals count as failed ones. How a login
comes about is the subject of `LoginFlow`.

### EventProjection

What a package hears of its agent. `log` is the session's log as far as the bridge
does something with it, `chain` the tasks in `RuntimeState.projection`, `told` the
progress of the first one, `heard` what the chain has dispatched, `broken` the tasks
that failed, `before` the running `session_before_compact` dispatches; `streams` and
`text` are `liveStreams` and the entry of `streamingTexts` that still matters, `said` the
texts of `message_update`. `Project` is `projectSessionEvent`, for one event when it is
live and for a whole stretch when `GoLive` replays the open turn, which the code does
without a break; `Heard` is the listener and the flag that keeps it shut until then.
`numbered`, `ends`, `from` and `closedAt` record what was reported, and where the
projection began and should end.

The agent's loop is not part of the repository; its actions are what the
listeners assume of it: turns of steps, an answer and a tool result in a step,
streams that are retried, frames that come again, compactions that succeed or
fail. A prompt's own message is projected as an answer is, titles, models and
tool calls are reported at once and are left out. Hosts that log their chunks are
assumed not to retry within a step: the bridge could not tell the attempts apart. The
listeners are taken to be there from the agent's first turn. The message_update of a
frame is not held back while the package loads, as in the code.

### LoginFlow

One interactive login, from `runProviderLogin` to its end. `login[l]` is a login with
its door (the card of the models page, the command `/login`, the host's authorization
seam), its position and its two signals: `external`, which the host gave it, and `done`,
the attempt's own, aborted by a superseding login, a dismissed device code, and its
end. `TakeOver` is the end of the wait for the login in flight,
`GiveUp` its five seconds; `active` is `activeLogin`, which is cleared before that wait.
`shown` and `outcome` are `browserLogin` and its `done`, so `CardTellsTruth` can ask
whether the card's last word is the flow's. `links` are the short links of
`browser-surfaces.ts`, of which the code keeps eight, `published` what each flow has
published through `oauthInteraction`. `cancelling` is the continuation of a cancel of
the card.

Abstractions: the flow itself belongs to the package: it shows links, asks, and
settles; whether it waits for its question to be closed first is its choice. Wording,
the codes themselves and the browser's callback are left out.

### ToolGate

What packages may do to a turn. `loop` is the agent's loop (external): claim, assemble,
pre-step, model, batch, boundary. Packages are nested as they were mounted; `loop.pos`
and a call's position say whose listener runs next, `system-prompt/assemble` and
`tools/post-execute` from the inside, `tools/pre-execute` from the outside. A call
awaits each package's handlers, so calls of a batch meet in any order; a nested call
is one made by the running tool through `nested-tools.ts`. `claimed`, `prompted`,
`override`, `held` and `tally` are `claimedForStep`, `promptedTurn`,
`turnSystemPromptOverrides`, `pendingInjections` and `terminateBatch`. A turn may be
interrupted anywhere; what its calls' handlers do afterwards comes late.

Abstractions: prompts, results and messages are abstracted to the turn and package
they come from; argument mutations and `applyPiContextTransform` are left out.

### ProviderLedger

One provider. `slots` and `order` are `providerPackages` and `providerPackageOrder`,
`canonical` the composition (`Recompose`) over the built-in entry. `dsh` is the other
side: the route built, its owners (`providerRouteOwners`), the mounts of DSH's own
adapter with their generation, and who holds the provider's name. A provider with a
transport is an adapter at once; one that only declares a catalog is mounted over
several awaits, during which the route may be announced again, changed or retired
(`Stale` is the check behind the last of them). `Discovered` is the arrival of a catalog that
`discoverProviderModels` fetched.

Abstractions: a configuration is its endpoint, its model list, and whether it has a
transport; functions are compared by presence, as `providerFingerprint` does; DSH's
settings are not followed.

### BrowserSurfaces

One package, one session on the page. `runner`, `source`, `widget` and `draft` are the
maps of the class `BrowserSurfaces` with the identity checks of their disposers;
`poll` are the questions of the page under way, `latest` its cache, `view` what each seat
shows, `applied` the `appliedRev` of the composer. The page asks every second without
waiting: answers come late, in any order, or never.

### ChildCreation

`createBridgedAgentSession`, cut at its awaits (`call`): the roster's preset, create or
resume with the set-up on the unpublished scope, the mount of the packages, and after a
failed resume the listing of the stored sessions. `scope` holds the restrictions in
force, which intersect, `held` the one the session object retires; `Renamed` is
`setActiveToolsByName`. `native`, `journal` and `archived` are DSH's sessions, what was
appended to their logs (delegation policy and descriptor), and the archive files.
What each call and renaming asked for is remembered in `wants` for `ToolsAsAsked`.

Abstractions: the wording of prompts, the choice of the model and the resolution of the
packages to mount; the parent's end is the deletion of the child's agent.

## 3. The runs

Each module has an MC module that holds its instances for TLC.

| Run | Bounds | Properties | What it shows |
|---|---|---|---|
| `mounts` | 2 agents of any lineage, 2 packages, one with entries | `ServedOnce`, `ReadyBeforeRelease`, `NothingLeftBehind`, `EveryAgentReleased` | single service, readiness before release, nothing left after a disposal, no gate stays closed |
| `session` | three setups: an owner and a child, 2 start tasks each, 1 reload, overlap, throwing handlers; a legacy mount with 2 agents and 2 tasks each; the same with 1 task and throwing handlers, both serial | `ClaimBacked`, `LinearSwitch`, `ToolAfterStart`, `StartReachesHandlers`, `EverythingSettles` | claims are backed, the mount is one linear runtime (refinement of `LinearRuntime`), tools wait for the session, no session is started into cleared handlers; callers and unloading settle |
| `child` | 1 prompt, 1 seed, 1 foreign wake-up, 2 requests per turn, disposal | `PromptMeansDelivered`, `AbortHolds`, `FeedIsOrdered`, `NothingHangs` | delivery, order (refinement of `OrderedFeed`), abort; prompts settle wherever a disposal meets them, and the feed reaches who stays |
| `archive` | 2 bridges, 1 session of either kind, 3 records, a log of 2, 2 deaths | `RecordsSurvive`, `CacheFaithful`, `ScanCleans`, `RetiredOnlyWhenGone` | acknowledged records survive, but one at most per line cut short; caches are faithful; only the exports of gone sessions are retired |
| `logins` | 1 provider, 3 jobs of any kind, 3 credentials, 1 death, failing writes | `RefreshOnce`, `StoreFollowsUser`, `NeverStuck`, `AwaitedKeyIsAlive` | renewals, logins and signings-out in any order: nothing overwritten, revived or spent twice; a waiting request gets a living key; no job is stuck |
| `login_flow` | 2 logins by any door, 3 links of which 2 are kept | `LinksAreLive`, `NoQuestionOutlivesLogin`, `CardTellsTruth`, `CalledOffLetsGo` | no link or question outlives its login, the card says what happened, a login called off lets go |
| `projection` | three hosts: retried streams; two prompts and a failing handler; two steps, a compaction and a failing handler | `InLogOrder`, `NothingLost`, `OneModelCall`, `UnloadCompletes` | order, completeness and own contents of what a package hears; unloading drains it |
| `gate` | 2 packages; two setups: 1 call, 3 turns of 2 steps, 1 interruption; 2 calls, 2 turns of 2 steps, 1 interruption | `ExecutedKeepsTurn`, `TurnIsItsOwn` | only a batch that executed nothing ends a turn; prompt and messages are the turn's own |
| `ledger` | 3 instances of 2 packages, a list or an endpoint with transport over a built-in endpoint, 3 routes, 2 mounts of each | `RouteIsCanonical`, `NoGhostAdapter`, `OwnersAreThere` | the route serves the composition, through one adapter, for living owners |
| `surfaces` | 2 instances, 2 seats, 2 questions under way, 1 lost, 2 drafts, 2 widget calls | `ShownIsLive`, `AppliedInOrder`, `PageCatchesUp` | what is shown is live, drafts are applied in order, the page catches up |
| `child_creation` | 3 calls, 1 session, 3 names, 4 kinds of request, 2 renamings per child | `ToolsAsAsked`, `DescribedOnce`, `RetiredOnlyWhenGone` | tools as asked for last, one descriptor, archives retired only when gone |
| `child_denied` | 2 calls, 1 renaming | `DeniedStaysDenied` | *violated*: a denied tool that is not on the allowlist is re-opened by `setActiveToolsByName` |

Setups and hosts that differ in what they exercise are chosen in `Init` of one run, each
with the bounds it needs. The three hosts of `projection` share no state but the log:
two attempts let frames of a superseded one come late, two prompts let the chain
fall behind and the count start anew, two steps let `turn_end` be told with a later
step in the log. The two of `gate` separate a turn that follows another, for which one
call is enough, from a batch, for which two are.

Why these bounds are enough to be of interest: two agents are what a switch, a
shared gate and a repeated announcement need; two start tasks per agent allow a
start, a failure or shutdown, and a second start; the owned setup is what the
engine produces, with a child beside the owner. A prompt with one foreign
wake-up gives two turns in either order, so that a stale assistant message, an
unrelated turn before the prompt's own, and a late projection all occur. A reload or
an unloading once is a full cycle. Two bridges share one archive; sessions are
independent of each other but for the loop of the scan, so one session is enough,
and three records allow an append by each bridge before and after the other's. Three
jobs on one provider are a renewal under way, one queued behind it, and a login or
a signing-out in between. Two logins are one that takes over and one that is called
off; three links with two kept reach the limit of eight of the code. Two instances of a
package and one of another give the ledger an owner that leaves while another stays, and
a composition that changes while an adapter mounts. Two questions under way give
answers in the wrong order. Three calls for one session are one that is under way, one
that failed and one that reopens; the names are one whose tool the host calls by
another name, one it calls alike, and one that is denied.

`CHECK_DEADLOCK FALSE` appears in every configuration: the environment has bounded
events, and a finished history stops.

### Fairness

Weak fairness of what promise continuations do. The event loop runs a settled promise's
continuation; extension handlers are assumed to return or throw, since the code has no
timeout for them. In detail:

- `EngineMounts`: the steps of `apply()`, the backfill, the listeners and the passes.
- `PiSession`: the start tasks, the settling of shutdowns, callers, the flush, the steps
  of a reload and of the teardown.
- `ChildSession`: the continuations of `prompt()`, the child's own turn, the projection
  chain, and the end of the agent once it was asked for.
- `EventProjection`: the chain, with the handlers it awaits, and the shutdown of an unloading.
- `LoginFlow`: a flow that is called off settles: the package's flow listens to its
  signal, and what it may still wait for, its question, is closed with it; storing,
  taking over or giving up the wait, and the refreshing of the route go on.
- `BrowserSurfaces`: the page's timer, the route's answers and their arrival; a question
  may be lost a bounded number of times.

Creating agents, prompting, calling tools, disposing, reloading, unloading, logging in,
cancelling and registering are never fair. The other modules state no liveness property and
no fairness.

## 4. What is proved

Every theorem holds for all values of the constants the module's assumptions admit; the
runs check the same properties on their instances. Each argument is the same: an
invariant that says more than the property, that the initial states satisfy and every
step keeps; the property follows from it, or from it and one more step. TLC checked each
of these invariants on the instances before it was proved.

`EngineMounts_proofs` (the assumption about `Extending` is not even needed):

- `TypeCorrect`: `Spec => []TypeOK`.
- `ServedAtMostOnce`: `Spec => []ServedOnce`. `ServedOnce` is not inductive: nothing in
  it excludes two passes on one scope. `OnceInv` adds that a pass exists only on
  the path that belongs to the agent's lineage (`OnlyOwnPath`, where the early returns
  of the native listener enter), that nothing has been tried before a pass runs
  (`NothingBeforePass`), and that what a pass still has to do is untried
  (`TodoUntried`).
- `NothingOutlivesAgent`: `Spec => []NothingLeftBehind`, with `LeftInv`, which adds that
  an agent that does not exist yet has no pass (`AbsentIdle`).
- `ReleasedReady`: `Spec => []ReadyBeforeRelease`. On top of the two invariants before it,
  `ReadyInv` says what a pass that has started knows (`PassCovers`: all its agent is owed
  is still to do, up or reported), what each listener has awaited (`ListenersAwaited`),
  which roots the backfill waits for (`BackfillAwaited`), and that the gate opens empty
  when `apply()` fails (`GateTells`), which is why a failed engine owes nothing.

`PiSession_proofs`. `StartPiSession` is taken apart into its five ways first (`StartWays`:
it passes, joins, replaces the host's agent, starts again, starts afresh).

- `SessionTypeOK`: `Spec => []TypeOK`. Not inductive by itself: that a reload under way
  was asked for by an agent (`ReloadByAgent`, in `MountInv`) is needed.
- `ClaimsAreBacked`: `Spec => []ClaimBacked`, for every setup. `Backed` says that behind a
  claim stands an agent whose session is open or whose task is about to open it; a
  task number is never used twice (`MadeInOrder`), so a new task disturbs no other.
- `StartsAreHeard`: `Spec => StartReachesHandlers`, if no child shares a session with an
  agent that is no child (`ChildrenOwnSessions`: subagent-bridge.ts:773-786 mints or
  resumes a child's own id). `OwnedInv` follows the owner: it is known and queued when it
  is there (`OwnerSeen`, `OwnerQueued`), it has one start in flight at most, which is the
  current one and holds the claim, and once it was started the claim stays
  (`OneStart`); a flush that is through has started it (`FlushThrough`); so while
  the handlers are cleared no start is in flight (`OwnerFlow`). Without the hypothesis
  an adopted child's disposal would release the owner's claim in the middle of a reload.
- `SwitchesAreLinear`: `Spec => LinearSwitch`, the refinement of `LinearRuntime` and the
  same of a `session_start` that is repeated, if every mount is owned or its host begins
  nothing while a start is under way (`OwnedOrSerial`), and no legacy mount is
  reloaded (`LegacyNotReloaded`: `restartReloadedPiSessions` tells every active agent,
  which is no switch). In an owned mount `OwnerSeen` is enough. In a serial one
  `LinearInv` adds that one start is in flight at a time (`OneAtATime`) and, until a
  reload or the unloading, `SerialState`: only the host agent's session is open or being
  opened, nothing is claimed during a hand-over, and the only unsettled
  shutdown of a live agent is the one that hand-over awaits. `DispatchesAlone` draws the
  fact about a dispatch from these; `StepRefines` maps every other step: a
  `session_shutdown` to `Shutdown` or, of an agent that is gone, to `Fail`; a promise that
  settles to `Finish`, unless the agent has another; a disposal to `Leave` or `Finish`.
  That a created agent has no promise yet (`StartsHere`) keeps it out of `ending`.
- `ToolsRunAfterStart`: `Spec => ToolAfterStart` under `OwnedOrSerial` and
  `ChildrenOwnSessions`, from `OwnedInv`, `OneAtATime`, `SerialState` and that in an
  owned mount only the owner calls (`OwnerCalls`).

The setups of the run satisfy the three hypotheses, and each is needed: TLC finds
`LinearSwitch` and `ToolAfterStart` violated in a legacy setup with overlap, `LinearSwitch`
in one that is reloaded, and `StartReachesHandlers` and `ToolAfterStart` when the child of
the owned setup has the owner's session.

`SessionArchive_proofs`:

- `NoRecordLost`: `Spec => []RecordsSurvive`, and `HeaderComesFirst`:
  `Spec => []HeaderFirst` (no run of its own). `ArchiveInv` adds the types of the lines;
  the lemmas about the files say what a header, a line and a part of a line leave of
  what was there.
- `OnlyGoneRetired`: `Spec => RetiredOnlyWhenGone`, and `ScanDoesClean`:
  `Spec => []ScanCleans`, both from `ScanInv`. A scan works with two lists that are
  stale when it uses them, the exports found before the listing and the
  listing itself; `ScanInv` says why that does no harm: what had an export and is
  not listed is gone and stays gone (`ListedOnly`, `GoneForGood`, resting on
  `KnownSessions`), whatever has to go was found before (`CondemnedPrior`), and a
  listed side session is hidden by the time the loop ends (`SidesHidden`).

- `CacheIsFaithful`: `Spec => []CacheFaithful`. Two bridges append to one file and neither
  hears of the other's records; what keeps their memories in the file's order is that
  records are numbered as they are made. `ShownInv` says that the numbers of the records
  rise along every file and every cache and none exceeds what was made (`Rises`,
  `Reaches`), and that a cache has nothing that is neither in the file nor acknowledged
  (`Known`). `ParsedInOrder` is what it needs of `load()`: what is read of a file is a
  part of its lines in their order. For its sake `Parsed` is written out in the model,
  line by line, where `SelectSeq` would do: the prover knows nothing of that.

`ChildSession_proofs`:

- `FeedImplemented`: `Spec => FeedIsOrdered`, the refinement of `OrderedFeed`. `FeedInv` adds
  to the types that, until `dispose()`, `emitted` followed by what waits in the chain is
  the projected log (`Split`).
- `AbortIsHeld`: `Spec => []AbortHolds`, by the part of `FeedInv` that says what an
  active turn of an aborted child may still be doing (`Active`).
- `PromptDelivered`: `Spec => []PromptMeansDelivered`. `DeliveredInv` follows a prompt on
  its way: its message is in the inbox once, and its caller waits (`Unclaimed`); the turn
  it opened is over when the caller goes on, and all of it lies before the place in the
  chain the caller then awaits (`Waited`); nothing of a turn is logged behind its end
  (`Ended`), and the end carries the last answer's reason (`Stamped`). Only a message
  opens a turn, so the bound on turns is kept (`Budget`).

`ChildCreation_proofs`:

- `GoneBeforeRetired`: `Spec => RetiredOnlyWhenGone`. The verdict is
  asked for, and acted upon, in different steps; `GoneInv` adds that a call works on one
  session (`OfOne`) and that a call which has the verdict has it of a session that is
  deleted, for good (`DiscardsGone`).
- `ChildSeesAsAsked`: `Spec => []ToolsAsAsked`, and `SessionDescribedOnce`:
  `Spec => []DescribedOnce`, both from `MadeInv`. It says of every call what the child's
  scope admits, in terms of what was asked for so far and of which restrictions are
  held (`AsAsked`), also before the child is handed over, when the restriction of the
  beginning stands but is not adopted yet; that a live session is run by the call that
  published it (`Lives`); and how often a session has been described (`Logged`).

`LoginFlow_proofs`:

- `OnlyLiveLinks`, `Spec => []LinksAreLive`, and `QuestionsEndInTime`,
  `Spec => []NoQuestionOutlivesLogin`, both from `LiveInv`: whatever ends a login or calls
  it off takes its links out of service, closes its question, and a flow publishes and
  asks only while it runs.
- `CardIsTruthful`: `Spec => []CardTellsTruth`. `CardInv` adds that what routes has stored
  its credential (`AllTold`), and for the types that the links kept stay few (`FewLinks`).

`ProviderLedger_proofs`:

- `RoutesAreOwned`: `Spec => []OwnersAreThere`. `OwnersInv` states it
  of the record of the DSH side, so that it can be followed through the operators that
  build, announce, release and retire a route.
- `RouteServesLedger`: `Spec => []RouteIsCanonical`, and `GhostsAreGone`:
  `Spec => []NoGhostAdapter`, both from `LedgerInv`: a side is `Sound` for a number of
  routes built and a composition. An operator that retires, releases or builds keeps it
  sound, for the composition it is given. For this `MaxRoutes` and `MaxGenerations` are
  assumed to be numbers and `Instances` to be finite.

`ToolGate_proofs`:

- `ToolsKeepTurn`: `Spec => []ExecutedKeepsTurn`. The property speaks of
  the boundary only. `GateInv` adds `Counted`: a call that has been executed, or will be, and
  is past a package on its way has left that package's tally uneven (more calls than
  stops); a tally never has more stops than calls (`Even`).
- `TurnsAreTheirOwn`: `Spec => []TurnIsItsOwn`. `TurnInv` follows a package through the
  step (`Own`): until the assembly has come to it, it has been asked in this turn, or
  the message it saw claimed will make it so; afterwards nothing is claimed, and what its
  handlers returned is kept until the boundary's way out.

Three models have their proofs at the end of another's: `StoredLogins`, which keeps the
credentials that `LoginFlow` commits, and `BrowserSurfaces`, the page its card stands on,
in `LoginFlow_proofs`, and `EventProjection`, the other half of a package's ties to the
loop, in `ToolGate_proofs`. EXTENDS puts all of them in one namespace, so these three say
`StoredInit`, `StoredNext` and `StoredSpec` (`Surfaces...`, `Projection...`) where the other
modules say `Init`, `Next` and `Spec`. Their theorems rest on the same assumptions
about the constants that TLC evaluates, and on no others.

- `PackageHearsInOrder`: `ProjectionSpec => []InLogOrder`, and `SeamHasNoGap`:
  `ProjectionSpec => []NothingLost`, for every host, every log and any bounds, both from
  `HearingInv`. `Queued` relates the log, the chain and what was heard: the chain's places
  rise (`Waiting`), so do those heard (`Told`), the first lie before the second but
  for the event that is half told (`Ahead`), whose first half was the last thing
  heard (`Begun`). `NoGap` says of every event from the beginning of the projection to
  its end that it has been told in full, was given up, or waits (`Settled`). `Project`
  is the step that needs work: `OrderedPlaces` proves that what it appends is
  every place of the set it is given, rising.

- `TurnEndsAreOwn`: `ProjectionSpec => []TurnEndIsItsOwn`. The code looks for the messages of a
  step by its numbers, the property by the place of its `step/start`; `PlaceInv` is why
  these agree. It says what a log can look like (`LogShape`: turns and steps rise, each
  opens once, nothing follows a step's end in the step) and that the loop stands where
  its log ends (`AtEnd`). Then the events of a step are those since its opening
  (`StepsApart`), and what `turn_end` found stays right however the log grows (`EndsStay`).
- `CallsAreNumbered`: `ProjectionSpec => []NumberedWithinPrompt`. `IndexInv`: in a turn that is
  open, and for a package that listens, `piTurnIndex` is the number of steps the turn has
  ended. One event keeps it (`LiveIndex`), and the replay finds it from the turn's opening,
  which `ReplayFrom` starts with if the turn is open (`LastTurn`, `ReplayIndex`).
- `CallsStayApart`: `ProjectionSpec => []OneModelCall`, the two above and `OneAttempt`. `TextInv`
  has a reason for each kind of host. With frames, the parts of the text belong to the
  stream's attempt and lie before its index (`FrameTexts`), and a chunk in the log is never
  projected, since a chunk is there only when a stream has been seen. Without them, the
  text is drawn from the log (`Drawn`), and a step has one attempt's chunks there, in
  order (`LogTexts`, `ChunksInOrder`); this is the host the module supposes when it
  says that such hosts do not retry within a step.

- `TokenServesOnce`: `StoredSpec => []RefreshOnce`, and `MemoryFollowsUser`, for which there
  is no run: what the store holds in memory descends from the last login committed, and
  after a signing-out it holds nothing. Both rest on `StoreInv`: only the first job of a
  provider's chain runs, and no job is queued twice (`ChainsInOrder`, `SetsInOrder`);
  every credential belongs to one provider (`Kept`); what a login has received and not yet
  stored is held by nobody else and starts a line of its own (`Unstored`); a job that runs
  works on what is in memory (`OnMemory`), and that descends from the login committed
  and has not been used up (`Alive`).
- `WaitingIsForSomeone`, of `StoredSpec`: the job in whose way another stands is under way,
  and the first of its queue if it stands in one. It is what `NeverStuck` says but for
  `ENABLED`. `Enlisted` is what it needs: a job that waits for its turn is in the queue, so
  every step that takes a job off a queue takes the first, and that one goes on.
- `UserIsFollowed`: `StoredSpec => []StoreFollowsUser` with one provider (`OneProvider`). The
  file is one for all providers and is rewritten whole, so with several of them an older
  snapshot may be renamed last (section 5, the first item under logins); the instance of
  the run has one provider as well. `SignedOut` adds that, of a provider signed out of,
  nothing is in memory or on disk, running or about to be stored.
- `AwaitedKeyLives`: `StoredSpec => AwaitedKeyIsAlive`. `Handed` adds to `StoreInv` that a
  credential on its way to DSH's store is fresh, and that what was published is
  what DSH has.
- `PageShowsLive`: `SurfacesSpec => []ShownIsLive`. `RegistryInv` says that instances begin in
  order, that the one that runs commands is mounted and has begun last, and that while
  none does, every instance that is mounted has a later one behind it that
  has come, and perhaps gone; `WidgetInv` that what is retained of a widget is the
  last call's or nothing.
- `RequestsApplyInOrder`: `SurfacesSpec => AppliedInOrder`, from the types of the answers alone:
  that the order holds whatever arrives is the work of `Applied`, which is what the
  fault of the run takes away.

Every safety invariant and action property that a run checks is stated by a theorem, but `NeverStuck`.
Out of the prover's reach are the liveness properties, `EveryAgentReleased`,
`EverythingSettles`, `NothingHangs`, `UnloadCompletes`, `CalledOffLetsGo` and
`PageCatchesUp`, and `NeverStuck`, which says `ENABLED`; `WaitingIsForSomeone` is what can be
proved of it.

## 5. Observations

The disagreement between the code and its own comments that a run shows
(`child_denied`) is listed in `PROJECT.json` under `findings`. Met while modelling and
without a run of their own; where a model could show it, TLC did:

Mounts and sessions:

- The child catalog's mount closes over `prepared`, not `presented` (engine.ts 527):
  native and bridge children lack the `browserPresentation` stamp that, by the
  comment at 538-542, rides into every package mount.
- After `apply()` has failed behind `registerChildExtensionCatalog` (engine.ts 518), the
  native path still mounts the catalogued packages on later children, while the
  comment at 550-551 says agents keep running as plain DSH agents.
- Native children receive only packages with extension entries (README.md 134-137
  speaks of all packages).
- On a legacy mount the shutdown that `agent/disposed` starts is not awaited by the next
  start (runtime.ts 2028; the comment at 1944-1945 promises a linear runtime).
  `LinearSwitch` therefore speaks of a previous agent that is still alive.
- `reload()` shuts the session down but keeps its claim in `startedSessions`
  (runtime.ts 6260), so the check at a tool's entry passes while no session is up,
  against the comment at 4244-4245.
- `restartReloadedPiSessions` neither reads nor sets claims, so on a legacy mount a
  session started by a reload may be started again by the next tool call,
  against the comment at runtime.ts 1824-1826.
- On a legacy mount a tool called while entries are still loading dispatches
  `session_start` to an incomplete handler ledger (1999-2002 describes the hazard).
- An adopted child that calls a tool becomes `hostAgent`; the comment at 172 speaks of
  non-child agents.
- An owner disposed during its own `session_start` is shut down first and opened
  afterwards, and unloading leaves it open.
- A `session_shutdown` that rejected stays memoised: later hand-overs from that
  agent reject as well.
- The start flush iterates over a snapshot, so an agent disposed meanwhile is
  still started.
- Three agents on a legacy mount: when B and C both replace A, B can stay open.
- Two agents on one durable session: the late disposal of the old one releases
  the claim of the new one.

Child sessions:

- A second assignment to `state.messages` before the prompt drops what the first had
  queued (subagent-bridge.ts 312-320): it is known by then and no longer queued.
- A suppressed aborted turn emits `turn_end` without `turn_start`, and `turn_start` of a
  turn may precede `turn_end` of the one before.
- The archive's header names the preset as resolved before `create`, `composeFrom` reads
  it later; the delegation policy, too, is captured before `create`.
- A session whose first descriptor could not be appended never gets one: a reopening
  appends none.
- Tools that the child's own extensions register are mounted after the allowlist has
  been computed.
- With `noTools` and `excludeTools` together the denylist is empty, as in the run
  `child_denied`.
- The parent's panel is tracked against `currentAgent` as read after an await
  (runtime.ts 6081-6096), and a parent disposed during the mount of the child's
  packages is handed a dead agent.

Archives:

- The record that is appended behind a line cut short is lost with it
  (session-bridge.ts 336): one acknowledged record for each such line, which is what
  `RecordsSurvive` allows for.
- While the scan awaits `close()`, its stored snapshot stands in `exportedSessions`: an
  append rebuilds a live export from it (198); the scan's own write may turn the export
  of a session back that went on between `read()` and the write; and its
  `exportedSessions.delete` also removes a live registration made meanwhile.
- The caches of two package instances drift apart: an export rebuilt by one lacks
  the records another appended since the first one's `load()`.

Logins:

- Chains are per provider, the file is one: an older snapshot of it may be renamed last,
  and a death then shows memory and disk disagree (oauth-bridge.ts 63-87 against 73-74).
- `supersedeActiveLogin` clears `activeLogin` before it waits (runtime.ts 3587): a third
  login then runs beside the second, which 3067-3074 and 3895 exclude.
- A cancel while the card's login is still waiting says "cancelled", and the login starts
  all the same; the cancel's continuation reads `browserLogin` anew and may settle the
  card of another login; a "cancelled" may later turn into "ok".
- A login retried after the five seconds' failure does not wait for the first flow again.
- An answer carries no number of its question; a question that was overwritten is never
  withdrawn; dismissing the card leaves the question of the running flow without one.
- A flow that announces after its end publishes links nobody retires.
- Signing out retires the provider's route handle (runtime.ts 5921), but the route of a
  provider without a transport is a settings entry and a published key (3691-3713),
  which stay: the comment at 5913-5914 says the route is retired.
- The `llm/stream` hook that renews keys is subscribed on the instance that armed it,
  the flag `oauthRefreshHooked` is the host's (3783-3787): when that instance goes, no
  other takes over.
- `PiOAuthCredentialProvider` (credentials-oauth.ts) holds a second store in memory on the
  same auth.json.
- `publishedOAuthKeys` hides a key that was removed from DSH's store meanwhile.

Projection:

- Frames reach `message_update` before the package is live, so on a late mount a text
  may be reported before the replayed `agent_start`, or before `session_start`.
- `agent_start` and `turn_start` are dispatched at once, the `turn_end` and `agent_end`
  before them behind the chain: a package may hear them the other way round.
- `agent/disposed` dispatches `session_shutdown` without waiting for the chain
  (runtime.ts 2024-2031): what is still in it is told afterwards. Only unloading waits.
- On hosts that log their chunks, a text is put together of all attempts of a step.

Tool gate:

- A native call that is denied because a hook changed its arguments (2501-2510) returns
  before it is counted: with another call blocked with `terminate`, the next step is
  rejected although not every call asked for it (2602-2604, docs/capabilities/tools.md 98).
- A call that a package blocks without `terminate` is not seen by the tally of a package
  nested inside it.
- The tally of a batch that was cancelled before the boundary, the messages claimed for a
  step whose assembly failed, and injections of a turn that broke off are left to
  the next turn.
- When two packages replace the text of a result, the outer one's replacement discards
  the inner one's (2561-2584).

Provider ledger:

- `retireSharedProviderRoute` drops the set of owners while other instances keep the
  provider in `ownedProviderRoutes`.
- Announcing again, or retiring, a route while its adapter is mounting can leave a route
  without an adapter: the newer mount finds the name held. `NoGhostAdapter` says
  only that nothing over is left standing.
- Concurrent discoveries of one provider share one request by name, whatever
  configuration they were asked with. A settings entry outlives its route.

Surfaces:

- The disposers of `trackEntries` and `trackCompletions` delete by the package's name
  without asking for identity (browser-surfaces.ts 351): an older instance's disposal
  removes a newer one's source.
- The composer's bridge starts again at revision 0 when it is remounted and applies the
  last draft a second time (client.ts 1021 says "exactly once per revision").
- `pasteToEditor` works on what the page reported last, which may be stale; reports may
  be lost or arrive in the wrong order.
- Surfaces are not cleared when a package unloads; a seat keeps the previous session's
  view until the next answer; MCP actions are not serialised.

## 6. Not modelled, and why

- Of the engine: the discovery of packages and the resolution of one package
  (engine.ts 106-182), pure functions of the file system.
- Of the session bridge: the projection of DSH's log into Pi entries and the replacement
  sessions, data conversions without a state of their own.
- Of the child session: tool events and assistant-stream frames.
- Of creation: the wording of prompts, the choice of the model, the reporting of
  `bindExtensions`, a host without a tools service.
- Of the tool gate: argument mutations and `applyPiContextTransform`.
- Of the ledger: the translation of models and messages (model-bridge.ts) and the
  transports' requests: conversion and I/O.
- Of the login: the credential provider of credentials-oauth.ts.
- Of the surfaces: threads, completions, MCP faces, the editor's reports, dialogs and the
  terminal's surfaces (tui-surfaces.ts, pi-component-relay.ts).
- The compatibility ABI and the vendored code hold no state over time; the analyzer and
  the CLI are one-shot passes over files; `dsh-x` reads surfaces only. The verification
  scripts, the tests and the community evidence drive the program and are not
  part of it.

The models stand for a small part of the repository's lines. What they leave out is
in the main of these last kinds: scripts that drive the program end to end, type and
value shims, rendering, conversion, and I/O, where nothing meets anything else.

## 7. Plan

Done: `EngineMounts`, `PiSession` with `LinearRuntime`, `ChildSession` with
`OrderedFeed`, `SessionArchive`, `ChildCreation`, `ProviderLedger`, `StoredLogins`,
`LoginFlow`, `ToolGate`, `EventProjection`, `BrowserSurfaces`. Left, in this order:

1. Dialogs and the terminal's surfaces beside `BrowserSurfaces`.
2. Argument mutations in `ToolGate`.
3. Package discovery as a pure operator against a reference definition.
