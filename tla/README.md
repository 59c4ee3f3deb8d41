# chromatrix: a verification model

TLA+ models of [chromatrix](../src/README.md), their TLC configurations, and theorems
checked by TLAPS. chromatrix is a gateway that keeps one real Chrome per *identity*
(a named profile directory) and lets many *agents* drive tabs of it over a CDP
multiplexer that enforces, tab by tab, which agent may see what; a human watches and
takes over in a dashboard. Everything of the gateway runs in one Node.js process; the
concurrency is that of coroutines interleaving at their `await`s, of Chrome, of several
WebSockets, of the pages of the dashboard, and of gateway processes that die and leave
Chromes and lock files behind.

Paths below are relative to `src/`.

## 1. Inventory

| part | code | state it keeps | operations | talks to |
|---|---|---|---|---|
| Tab lease table | `packages/core/src/tab-pool.ts` | `leases`: page target -> agent; the cap | `lease` (check, await `Target.createTarget`, register), `adopt`, `register`, `release`, `drop`, `releaseAll` | the control connection; called by the service (REST/MCP), the mux (through a scope) and `stopIdentity` |
| CDP client | `packages/cdp/src/client.ts` | `pending` commands by id, listeners, the socket | `send`, answers, `settleAll` on close | Chrome |
| Mux: target routing | `packages/cdp/src/mux.ts`, `scope.ts` | `upstreamSessions`, `orphanAttaches`, `suppressNextAttachEvent`, `sessionOwner`, the connected clients with their queues | attach routing, parked attaches, adoption of popups, replay of `setAutoAttach`, scoped `createTarget`/`closeTarget`, forwarded attach and detach, connect, disconnect | Chrome (one upstream socket per identity), the clients, the lease table through `ClientScope` |
| Mux: command plane | `mux.ts`, `interceptor.ts`, `packages/fidelity/src/mitigation.ts` | `pending` (id remapping), timers of internal commands | forwarding, remapping of ids, interceptor chain, denial, time-boxes | the same |
| Session lifecycle | `packages/core/src/orchestrator.ts`, `supervisor.ts` | `sessions`; per supervisor the Chrome handle, the control client, the lock | `startIdentity`, `stopIdentity`, `deleteIdentity`, `shutdown`, `createIdentity` | lock, reaper, launcher, lease table |
| Profile lock | `packages/core/src/profile-lock.ts` | the lock file, `held` | `acquire` (create exclusively, reclaim a stale file), `release`, release on exit | the file system, other gateway processes |
| Orphan reaper | `packages/core/src/reaper.ts` | none (the process table) | pgrep, SIGTERM, two seconds, pgrep, SIGKILL | Chromes of earlier processes |
| Identity registry | `packages/core/src/identity.ts` | profile directories | create, list, remove, grammar of ids | the file system |
| Chrome launch | `packages/fidelity/src/launch.ts`, `flags.ts` | the child process | spawn, wait for the endpoint, terminate | Chrome |
| Gateway service | `apps/gateway/src/gateway/gateway.service.ts` | `muxes`: one per running identity; captures in flight, settings | identities, tabs, captures, viewports, navigation, settings | all of the above |
| Takeover hub | `apps/gateway/src/takeover/takeover.ts` | viewers, the chain of cast operations, the attached page session | join, leave, start/stop/switch the cast, input, clipboard, pushes of the tab list | the control client, viewers |
| WebSocket upgrades | `apps/gateway/src/cdp/cdp-upgrade.ts` | one hub per identity | authenticate, hand the socket to a mux or a hub, replace a hub | mux, hub |
| Authentication, login throttle | `apps/gateway/src/auth/*` | failures per address in a sliding window | login, logout, status, guard, throttle | HTTP |
| Configuration, tokens | `packages/shared/src/*` | a JSON file | load, mint, derive agent tokens | the file system |
| Fidelity: scoring | `packages/fidelity/src/eval.ts`, `probes.ts` | none | scripts run in a page | Chrome |
| HTTP, tRPC and MCP surface | `gateway.controller.ts`, `dto.ts`, `bootstrap.ts`, ... | none | validate, call the service | service |
| Dashboard | `apps/web` | React state: list of sessions, pictures, busy keys, the takeover view, the login gate | polling, controls, takeover, sizing, sign-in | the HTTP surface and the takeover socket |
| CLI, docs site, e2e scripts | `apps/cli`, `apps/docs`, `apps/gateway/src/e2e` | none | | |

`PROJECT.json` says of each part whether it is modelled, and what of it is left out.

### How the parts interact, and what is hard about it

* **Two sockets, one truth.** A lease made over REST is created over the *control*
  connection; the mux hears of the same page as an attach event over *its own* socket.
  Nothing orders the two, and the routing reads the lease table the moment the event is
  read.
* **Checks before awaits.** `lease` reads the cap before its await; `startIdentity`
  looks into the session map before acquiring, reaping, launching and connecting; the
  replay of `setAutoAttach` snapshots the leases and then awaits, target by target; a
  resize reads bounds and content before it sets them; a cut reads before it deletes.
* **Failure.** The control connection may go between any two steps; Chrome may answer
  late, never, or with an error; launches fail early or time out with Chrome still
  coming up; a gateway is killed and leaves Chromes, lock files and half a boot.
* **Ordering inside the mux.** Every client has a serialized queue whose handlers await
  Chrome; one stalled handler stalls its client unless the time-boxes fire. A
  disconnect does not stop the queue.
* **Two ends of a wire.** What the dashboard shows is what it was last told: polls
  overtake each other, pushes are in flight while the world moves on, and what a human
  does is about what they saw.
* **Processes.** Two gateways may contend for one profile directory, system call by
  system call.

The hazards, each at its line, with the properties that would catch it going wrong, are
the `hazards` list of `PROJECT.json`.

### What makes each part correct

* Lease table: a tab has one owner and changes hands only through a release; no tab the
  pool created is forgotten while it lives; the cap is exceeded by no more than what the
  calls in flight explain; a command in flight settles.
* Mux routing: a client is told of, and owns sessions of, pages its agent leases and no
  others; a popup stays with the agent of its opener; what is announced is complete, and
  exactly once to a creator; the session table neither lies nor forgets; queues move.
* Mux command plane: an answer reaches the client that asked, under its own id, once;
  order per client; every command of an open client is answered.
* Lifecycle: never two Chromes on one profile; a running session holds its lock; no
  failure leaves a lock behind; requests end.
* Profile lock: who believes it holds the lock has its file; it is an exclusive lock, as far
  as nobody removes a file that has already been replaced.
* Takeover hub: one page session at a time; once it settles, a viewer and a page make a
  cast of the page the human picked, and no viewer makes silence; nobody is left with a
  blank or a frozen picture.
* Takeover view: when things are quiet it tells the truth; nothing it did stays half
  done in a page; what arrives late does not undo what the human did.
* Captures, lists, sizes: sessions are not stacked, pictures and lists do not go
  backwards for good, a resize lands where it was asked to.
* Access: guesses are bounded in any window, Retry-After is kept, a printed token lasts,
  a page without a valid cookie finds the way back to the login.

## 2. The modules

```
TabPool ────────── TabPoolProofs          the lease table
   │ INSTANCE (composition and refinement)
MuxTargets ─────── MuxProofs              routing of the mux, over the lease table
MuxCommands ────── MuxCommandsProofs      ids, order, answers and time-boxes of the mux
Lifecycle ──────── LifecycleProofs        orchestrator, supervisor, lock, reaper, launch, mux map
ProfileLock ────── ProfileLockProofs      the lock file by system calls
   │ refines
ExclusiveLock                             what the lock file promises
TakeoverHub ────── TakeoverHubProofs      the jobs of the hub of one identity, by awaits
Viewport ───────── ViewportProofs         sizes of tabs, by awaits
Viewer ─────────┐                         the takeover view and its hub, by messages
Console ────────┼─ DashboardProofs        the sessions view: lists, pictures, controls
Access ─────────┘                         token, boot, throttle, login, gate
MC<module>                                an instance of each for TLC
<module>Proofs                            its theorems, for TLAPS
```

Definitions marked `Mutant:` in a comment are not part of a specification: each is a
plausible bug, a variant of the definition that follows it, with which the run of a
property is repeated to see the property fail.

Viewer, Console and Access are what the dashboard meets. They share no state and no
definition, and each is a specification of its own (`ViewerSpec`, `Spec`, `AccessSpec`);
DashboardProofs extends all three and proves their theorems one after the other.

Two pairs of modules look at the same code at two distances. Lifecycle has the lock as
one step, ProfileLock takes that step apart; ExclusiveLock is the contract between them.
TakeoverHub has every await inside a job of the hub, Viewer has a job as one step and the
wires on both sides of it.

### TabPool

The pool and, as its environment, Chrome and the control connection.

| TLA+ | code |
|---|---|
| `leases` | `TabPool.leases` (`NoAgent` where the map has no entry) |
| `pc`, `asker`, `answer` | the frames of the `lease` calls between check, send and continuation |
| `closing` | `closeTarget` commands of `release` in flight |
| `live`, `seen`, `foreign` | pages of Chrome; ids ever minted; those `lease` did not ask for |
| `connected` | the WebSocket of `CdpClient` |
| `LeaseCheck`, `LeaseCreated` | `lease` up to its await, and after it |
| `Adopt`, `Drop`, `Release`, `ReleaseAll` | the methods; a release is its synchronous half, its await is `closing` |
| `ChromeCreates`, `ChromeRefuses`, `ChromeCloses`, `PageOpens`, `PageGone` | Chrome's answers and its own doings |
| `ConnectionLost` | the `close` and `error` handlers and `settleAll` of `client.ts`: Chrome has exited, or lives on with its pages |
| `SendClose` | `send` of the `closeTarget` of a release |
| `lost` (history) | pages of a Chrome that outlived the connection whose `createTarget` was answered to nobody, or whose `closeTarget` may never have arrived |

`lease` is two actions because other code runs during its await; everything else of the
pool is synchronous JavaScript and one action. `ConnectionLost` rejects every pending
command at once, but a call whose answer has been read and whose continuation is still
in the microtask queue keeps it, hence the set `S` of that action. Nothing closes the
door behind it: `LeaseCheck` and `Release` stay enabled without a connection, as
`send` does, and what they send is never answered. The socket goes by the exit of Chrome or
by an error of its own (`client.ts:22`); then Chrome keeps what is open, and a page whose
`createTarget` it has carried out, or whose `closeTarget` it never read, belongs to nobody:
`release` has dropped the lease before it sends, and swallows the error.

### MuxTargets

The routing half of `mux.ts` over an instance `Pool` of TabPool, coupled the way
`scopeFor` of `gateway.service.ts` couples them: `allows` is `IsLeasedBy`, `adopt` is
`Adopt`, `release` of the scope is `Drop`.

| TLA+ | code |
|---|---|
| `table` | `upstreamSessions` |
| `parked` | `orphanAttaches` with its ten-second timer (`ParkExpires`) |
| `suppress` | `suppressNextAttachEvent` |
| `owner` | `sessionOwner` |
| `conns`, `left` | `clients`, in insertion order; clients that are gone |
| `task` | the handler at the head of a client's queue, and what it awaits |
| `upstream` | frames of the upstream socket that are not yet read |
| `asked`, `forwards` | commands inside Chrome |
| `opener`, `unattached`, `minted`, `attached` | targets and sessions of Chrome |
| `DeliverX` | the branches of `onUpstreamMessage` |
| `StartReplay`, `ReplayKnown`, `ReplayFallback`, `FallbackX`, `Replays` | `replayAutoAttach` with its poll and its explicit attach |
| `StartCreate`, `CreateAdopts`, `CreateFails` | `createAndAdopt` |
| `StartClose`, `CloseReplied` | `closeAndRelease` |
| `Forward`, `ChromeForwards`, `DeliverAttachAnswer` | forwarded attach and detach |
| `Timeout` | the fifteen seconds of `internalCommand` |

An answer of Chrome is two steps: `DeliverAnswer` resolves the promise, and a later step
of `Continue(c)` is the continuation. `ws` may emit several frames before a microtask
runs, so frames may be read between the two; that is where most interleavings of this
module come from. `ready`, `told` and `creator` record what clients have been told; no
action reads them except that a client enables auto-attach once.

Every client is scoped (the gateway attaches no other kind). Page-level sessions, and
commands that neither create, close, attach nor detach, do not touch this state.

### MuxCommands

The other half of `mux.ts`: what happens to a command whatever it is about.

| TLA+ | code |
|---|---|
| `queue`, `task` | `DownstreamClient.queue` and the handler that runs at its head |
| `nextUpstreamId`, `pending` | the same; `internal` marks entries of `internalCommand` |
| `chrome`, `got` | commands Chrome works on; messages a client has received |
| `link` | the upstream socket: `"gone"` after a close nobody listens to |
| `Deny`, `Forward`, `Begin` | `aclDeniedTarget`; plain forwarding; commands that need round trips of the mux's own (`closeTarget`, and the interceptor's answer to `Runtime.enable`) |
| `Resumes`, `Fails`, `Timeout` | the continuation of such a command, `failMessage`, the time-box |
| `AnswerForwarded`, `AnswerInternal`, `AnswerLate` | `onUpstreamMessage` for an answer |

`of` in messages and entries is history: which command an answer is really of.

### Lifecycle

One gateway process, any number of times restarted. A request is a coroutine `task[r]`
whose `step` names the await it stands in; a start owns the one supervisor it made.

| TLA+ | code |
|---|---|
| `session`, `mux`, `leased` | `Orchestrator.sessions`, `GatewayService.muxes`, sessions with leases |
| `home`, `chrome` | supervisors and the Chrome each has spawned, which outlives both |
| `held`, `lockfile`, `profile` | `ProfileLock.held`, the lock file, the profile directory |
| `Start` ... `MuxSet`, with `LaunchFails`, `ReapFails`, `ConnectFails`, `MuxFails` | `startIdentity` of service and orchestrator, `Supervisor.start` and its roll-back, `reapProfile`, `launchChrome` |
| `Stop`, `Delete`, `Shutdown`, `ReleaseStep`, `Released`, `Exited`, `AfterStop`, `Leaves` | the stopping side, `waitForExit` with its SIGKILL |
| `Killed` | the process dies: maps are lost, lock files turn stale, or torn when the record was not yet written |

Two things keep a request from proceeding. `Stuck`: `releaseAll` of a session that has
leases and whose Chrome is dead (section 5). `AwaitsChrome`: nothing bounds the waits for
`closeTarget`, for the opening of the control connection and for that of the mux, so with a
Chrome that runs and does not answer they may never end. The lock is atomic here and exact,
because one gateway process lives at a time: the robbery that takes two of them
(ProfileLock, `MCProfileLockRace`) is not followed into Lifecycle.

### ProfileLock and ExclusiveLock

| TLA+ | code |
|---|---|
| `file` | the lock file: whose create made it, and whether the record has been written |
| `pc`, `saw` | the next system call of a process, and the pid it has read |
| `Create`, `Write`, `Read`, `Probe`, `Reclaim` | `acquire`: `openSync "wx"`, `writeSync`, `readRecord`, `pidAlive`, `unlinkSync` and the retry |
| `Release`, `Check`, `Remove` | `release`, also as the exit handler |
| `Killed`, `PidReused` | a kill between any two calls; a later process with the same pid |
| `robbed` (history) | whose file somebody else has removed while they claimed the lock with it |

`Init` has any processes dead from before, and the file one of them may have left, with or
without its record. ExclusiveLock is three lines: take when free, lose when owned.
`LockRefined` says that the processes which stand at `held` and have not been robbed behave
like its owners; that robberies happen, and two processes then hold the lock, is what
`MCProfileLockRace` shows.

### TakeoverHub

The hub of one identity over its control connection. `serialize` is the variable `chain`;
the job at its head is a coroutine whose `step` names the command it awaits.

| TLA+ | code |
|---|---|
| `viewers`; `joined` | the set of viewers; those whose message and close handlers are registered |
| `chain` | `chain`: joins, last leaves (`stop`), tab events (`refresh`), picks (`switch`) |
| `session`, `painted`, `wanted`, `active` | `sessionId` with `onFrame`, `lastFrame` is set, `wantedTargetId`, `activeTargetId` |
| `watch` | `watching`, and whether the listeners are registered yet (`"on"`) |
| `Join`, `Leave`, `Pick`, `TargetEvent` | what `addViewer`, `drop`, `attachTo` and `onTargetChange` do at once |
| `JoinCast`, `BeginStart`, `BeginProbe`, `BeginStop`, `Unwatch` | the job up to its first await |
| `Probe`, `Stopped`, `Discovered`, `ListedNone`, `Listed`, `Attached`, `Enabled`, `CastStarted` | the answers and what follows each |
| `Frame`, `shown` | `onFrame`; what every viewer displays |
| `pages`, `events`, `attached`, `casting`, `pageOf` | Chrome: pages, events not yet read, page sessions, those with a screencast |

A socket may close before its `addViewer` is done; the handler that would drop it is not
registered then, so it stays in `viewers` (`Leave`). `activateTarget` swallows its errors
and changes nothing here, so `Listed` goes to `attachToTarget` directly. The url rule of
`attachFrontPage` is a free choice among the pages. Commands on a session fail when, and
only when, its page is gone; the control connection stays up.

### Viewer

| TLA+ | code |
|---|---|
| `hub` | one `TakeoverHub`: control client, viewers, jobs, cast, last frame, pushes of the list in flight, the button that is down in each page (`held`), the cuts that wait (`cuts`); `left`, history, is the pages the cast left with a button down |
| `sock`, `up`, `down`, `mine` | sockets of viewers, messages to the gateway, messages to the view, the socket of the view |
| `view` | state of `TakeoverView`: the link, `requestedTarget` (`asked`), targets, the tab highlighted, the frame, `waiting`, the drag (`holding`); `picked`, history, is whether the human has picked a tab since the link was followed |
| `httpCalls` | requests of the toolbar in flight |
| `RunJoin`, `RunSwitch`, `RunStop`, `JobFails` | the jobs of the chain, and their failure when the control client was closed |
| `InfoPush`, `ListRead`, `ListSent` | the debounced event, and `pushTargets` before and after its await |
| `Admits`, `Mount`, `OtherJoins` | the upgrade handler with reuse and replacement of hubs; a view, somebody else |
| `OnMessage` | `onmessage` of the view with its deep link |
| `Pick`, `PressButton`, `LetGo`, `Keys`, `Submit`, `Release` | what the human does |
| `Button`, `Selections` | `onInput`: buttons go down and come up in the page that is cast by then; presses, drags and keys change what is selected in it |
| `Stopped` | `stopCasting`, which detaches without a release: the page keeps its button down |
| `CutReads`, `CutDeletes`, `Cutoff` | `onClipboard` around its awaits, of any number of cuts at once; a cut whose session goes |
| `Served`, `PageCloses` | `navigateTab` and `releaseTab` of the service for the toolbar |
| `IdentityStops`, `IdentityStarts` | the identity is restarted, and has another control client |

### Console

| TLA+ | code |
|---|---|
| `state`, `pages`, `leased`, `fresh` | the session and its tabs, as `listSessions` and `listTargets` report them |
| `captures`, `sessions`, `shots` | the map of captures in flight, their page sessions in Chrome, how many were made |
| `lists`, `shown` | list requests in flight, and `sessions` of `useGateway` |
| `calls` | the busy keys of `SessionsView` |
| `probes`, `thumb` | the image requests of the cards, and what each card shows |
| `CaptureTab`, `Attach`, `Shoot`, `GiveUp`, `Detach` | `captureTab`: share or begin; attach; picture; four seconds; the `finally` |
| `PollList`, `FailList`, `DeliverList` | the poll of `useGateway`, an error, the arrival of the answer |
| `ReadState`, `ReadPages`, `MissPages`, `AnswerList` | `listSessions` of the gateway: the state, `Target.getTargets` over an await or its failure (the list then has bare leases), the leases by the time it is answered |
| `Press`, `Handle` | `run` of `SessionsView` behind each control, with what the request does |
| `Tick`, `Land` | `TabCard`'s next picture, which cancels the request before, and its arrival |

### Viewport

| TLA+ | code |
|---|---|
| `outer`, `bar` | the height of a tab's window, and what of it is not content; one dimension stands for both |
| `call` | a call of `setTabViewport`, `getTabViewport` or `allocateTab`, at one of its awaits |
| `ReadBounds`, `ReadContent`, `SetBounds`, `Measure`, `Refused`, `Answer` | those awaits |
| `Allocate`, `SaveDefault`, `default` | the second half of `allocateTab`; the settings |
| `view`, `MountView`, `SettingsArrive`, `NewTab` | `SessionsView`, which reads the settings once |
| `controls`, `Select`, `Deselect`, `Apply`, `Type`, `Told` | `ViewportControls`: the `viewport` that was read, the `draft` its fields render, and the answers it waits for; a refused read takes the viewport (it then says "size unknown") and leaves the draft |

Every tab has a window of its own, as the tabs the pool creates do. That pages a human or a
page opened may share a window, so that a resize of one is a resize of the other, is left out.

### Access

| TLA+ | code |
|---|---|
| `stored`, `env`, `Resolved` | the config file, `CHROMATRIX_TOKEN`, the precedence of `loadConfig` |
| `Boot`, `Mint`, `Persist`, `GoDown` | `ensureToken` and the boot; crashes at any point of it |
| `failures` with `Recent`, `Prune`, `Record`, `RetryAfter`, `Locked` | the throttle, a map in insertion order of ages |
| `Younger` | the `filter` of `prune`: ages stand in the order of what happened, so what it keeps is an end of them |
| `Judge`, `Verdict`, `LoginElsewhere`, `Serve` | login, logout, status and the guard |
| `jar`, `gate`, `net` | the cookie of a browser, what each page shows, requests in flight |
| `Load`, `SubmitToken`, `PollSessions`, `SignOut` | the requests of a page |
| `After`, `Arrive` | `lib/auth`, `lib/trpc`, `LoginView`, `App` after an answer |

`guesses`, `promise` and `printed` are history.

## 3. The runs

| run | instance | checks |
|---|---|---|
| `tabpool` | 2 agents, 3 targets, 2 callers, cap 2; fair | `TypeOK`, `CapOvershootBound`, `NoLeakedTab`, `LeaseIsExclusive`, `AwaitsSettle` |
| `mux_peers` | 2 clients of 2 agents, 2 targets, cap 2, `setAutoAttach` | `SessionAffinity`, `FamilyAffinity`, `TableAccurate`, `ReplayIsComplete` |
| `mux_create` | 1 client, 2 targets, cap 1, create and close too | `CreatorSeesItsPage`, `PoolRefined` |
| `mux_slow` | 1 client, 1 target, all commands, slow Chrome, discovery, left-over queues; fair | `SuppressionIsTransient`, `QueueMoves` |
| `lifecycle` | 1 identity, 3 starts, 2 requests at once, 2 kills; fair | `SingleWriter`, `SessionIsLocked`, `LockIsAccountedFor`, `RequestsSettle` |
| `lock` | 3 processes of one host, any of them dead from before, 4 kills | `HolderHasFile`, `LockRefined` |
| `takeover` | 2 viewers, 2 pages, 3 sessions | `NoLeakedSession`, `CastFollowsViewers`, `JoinersArePainted`, `NoFrozenFrame` |
| `viewer` | 2 pages, 2 sockets, 3 acts from outside | `StripConverges`, `ButtonComesUp`, `PickSticks` |
| `access` | 1 page of a browser with others, 1 script, 2 tokens, a window of 3, a map of 1; fair | `WindowBound`, `RetryAfterIsHonest`, `PrintedTokenLasts`, `GateFollowsCookie` |
| `console` | 1 tab, 2 list requests, 1 control, 2 captures; fair | `ListConverges`, `NoStackedSessions`, `PicturesMoveForward` |
| `viewport` | 2 tabs, 2 calls, 1 change of an info bar, 1 of the default | `ResizeLands`, `LeasesAreReported`, `FieldsFollowTab` |
| `commands` | 2 clients (one in compat mode), 3 commands; fair | `AnswersMatch`, `OrderKept`, `EveryCommandIsAnswered` |

Two runs are refinements: `PoolRefined` (MuxTargets implements TabPool) and `LockRefined`
(ProfileLock implements ExclusiveLock).

### What the properties rule out

* `LeaseIsExclusive` and `NoLeakedTab`: an answer of `createTarget` is registered
  *whatever happened meanwhile*. That this never overwrites a lease, and never loses a
  page, depends on ids being fresh and on adoption only naming pages the pool did not
  create; both are in the model, and both are used by the proof. Of a connection that is
  lost under a Chrome that lives on, `NoLeakedTab` says which pages are left over: those
  whose command went with it, and no others.
* `CapOvershootBound` is what the cap is worth. The comment at `tab-pool.ts:23` calls it
  hard; it is not (the check at line 53 is before the await), and the bound says by how
  much it can fail: one tab per concurrent call.
* `SessionAffinity` relates the lease table to what every client was told and owns, over
  all overlaps of leases, events, replays, adoptions and disconnects.
* `FamilyAffinity`: `targetCreated` and `attachedToTarget` come in either order and the
  opener's lease may change in between.
* `TableAccurate`: the table replays are answered from holds a session exactly when it
  should, up to events in the socket.
* `CreatorSeesItsPage`: whichever of the event and the answer comes first, the creator is
  told once - not twice, not never.
* `ReplayIsComplete`: the snapshot, the poll and the fallback together miss no leased page
  that still exists.
* `SuppressionIsTransient`: a mark left behind would swallow the announcement of a later
  attach, long after its cause.
* `PoolRefined`: the composed system keeps the contract of TabPool, so what is proved of
  TabPool holds of the lease table inside the mux. It would fail, for instance, if a
  handler dropped a lease of a page that is still open.
* `AnswersMatch`: late answers, timed-out entries and numbers of different clients that
  coincide never make an answer reach the wrong command. `OrderKept`: a command is issued
  only when all earlier ones of its client are done, round trips included.
* `SingleWriter` is the point of lock and reaper together: launches that time out and
  killed gateways leave Chromes running, and a later start must not add a second one.
* `SessionIsLocked`, `LockIsAccountedFor`: registered sessions and lock files agree after
  every failure, roll-back and overlap.
* `HolderHasFile` is what makes `LockRefined` true: a process that claims the lock keeps its
  own file, and a release removes no file but its own, through every crash and whatever was
  in the directory before. The one thing that breaks it is a reclaim that removes a file
  which has been replaced since it was judged, and what a process robbed so does later; the
  properties are stated of who has not been robbed. `MCProfileLockRace` is the statement without
  that exception, which the code does not keep (section 5).
* `NoLeakedSession`: a stop, a switch or a page that closes between any two commands of a
  start leaves no second page session attached.
* `CastFollowsViewers`: a job runs when the reason for it may be gone - the viewer that
  left is back, the page that opened is closed. Whatever the jobs find, the last one
  leaves the hub as its viewers and pages require.
* `JoinersArePainted`, `NoFrozenFrame`: Chrome sends a frame on a repaint only, so every
  viewer depends on the replayed frame, and on being told when the last page is gone.
* `StripConverges`: lists are read over an await, events are debounced, hubs are
  replaced; none of that leaves a view wrong for good.
* `ButtonComesUp`: the frame may be replaced, hidden or re-cast while the mouse is down.
  Only a page that the cast leaves during the drag keeps its button (section 5).
  `PickSticks`: a list that arrives late does not follow the deep link again once it was
  followed; a pick made before that is another matter (section 5).
* `WindowBound`, `RetryAfterIsHonest`: pruning, refusals, eviction, whole seconds and the
  edge of the window against an independent count of guesses and an independent clock.
  `PrintedTokenLasts`: a crash anywhere in a first boot. `GateFollowsCookie`: requests of a page are
  judged with the cookie they were sent with, and answered later.
* `ListConverges`: lists that are put together over an await and overtake each other.
  `PicturesMoveForward`, `NoStackedSessions`: requests that share a capture, captures that
  time out.
* `ResizeLands`: the arithmetic over three awaits, Chrome's own floor and the clamp of
  the gateway. `LeasesAreReported`: a tab that cannot be sized is still handed out.
  `FieldsFollowTab`: a size that is read late, a read that is refused, and what is typed
  meanwhile.
* `AwaitsSettle`, `QueueMoves`, `RequestsSettle`, `EveryCommandIsAnswered`: what must end,
  ends.

### Bounds, and why they are enough

* *TabPool.* Two agents and two callers are what exclusivity and the overshoot need; three
  targets let both callers hold one while a foreign page exists; a cap of 2 leaves room to
  adopt a second page and is exceeded by the third. An id is used once, so `Targets` also
  bounds the pages of a behaviour.
* *MuxTargets.* Two targets: an opener and its popup. Two clients of different agents
  (`Peers`) for affinity. `MaxSessions` bounds the sessions Chrome mints per page. A
  client connects once and enables auto-attach once; reconnecting is a new client. One
  caller suffices: its lease is the second actor. Switches keep runs apart that would
  otherwise multiply: `Commands` (what clients send), `SlowChrome` (deadlines may pass
  before Chrome answers; `FALSE` means they pass only when nothing is coming), `Discover`
  (a client turned target discovery on), `Backlog` (messages left in the queue of a closed
  socket are still handled).
* *MuxCommands.* `Sends`: two commands of one client for order, one of the other for ids
  that coincide.
* *Lifecycle.* Three supervisors are three starts: one that leaves a Chrome behind, one
  that reaps it, one that overlaps. `MaxKills` bounds kills and exits together. `Overlap`
  lets a delete be issued while other requests for its identity run; `FALSE` in the run,
  because a directory removed under a Chrome (section 5) makes everything after it a
  consequence.
* *ProfileLock.* Three processes: two contend for what a third has left, or all three for
  the lock. `MaxKills = 4` lets all of them die, and one a second time, in the midst of an
  acquire, of a reclaim and of a release. A pid is not used again while another process has read it and
  not yet acted on it.
* *TakeoverHub.* Two viewers: one that leaves while the other joins. Two pages: one to
  switch to. `MaxSessions = 3` is a first cast, a re-attachment and a switch; when it is
  reached the hub waits for its `attachToTarget` for ever, which no settled property can
  profit from. `MaxQueue` bounds only the picks of humans, who could otherwise queue
  switches without end; joins, leaves and events are bounded by viewers and pages.
* *Viewer.* `MaxActs = 3` acts of humans, agents and pages from any initial set of sites
  (a blank tab opens as an act); `MaxJobs = 2`: they come while the hub has fewer than two
  jobs and pushes waiting. Everything the hub and the view do by themselves is unbounded,
  so two acts overlap in every way. With blank tabs in the initial states too, the same
  bounds pass as well (5.3 million states), in more time than the regular runs should take.
* *Access.* A window of three ticks and two failures are the smallest with a failure at
  either side of an edge; a second is two ticks, so that a wait is rounded; a map of one
  makes every second address evict. One page is modelled, and whatever other pages of its
  browser do to the cookie is in `LoginElsewhere` and `LogoutElsewhere`.
* *Console.* One tab, because cards do not share anything; two list requests, of which
  one overtakes the other; two captures, of which one is shared or late.
* *Viewport.* Two calls that overlap, on one tab or two. `MaxBars` and `MaxSaves` are one
  change each of the window and of the default.

`CHECK_DEADLOCK FALSE` everywhere: a behaviour in which every id is used up, every client
has left or every act was made really stops.

TabPool's `TypeOK` is checked with its run. Those of the other modules hold on the same
instances (add them to the cfg to see) and are not part of the regular runs; section 4
proves most of them.

### Fairness

Weak fairness of what the Node.js event loop does by itself: continuations of settled
promises, frames that have been received, timers that are due (`LeaseCreated`, `Deliver`,
`Continue`, `Timeout`, `Serve`). In TabPool and MuxCommands Chrome also answers the
commands of a connected socket, because the properties there are about answers and the
loss of the connection; in MuxTargets and Lifecycle Chrome owes nothing, and the
properties hold by the time-boxes of the code. Where the code has none - `closeTarget`
(`client.ts:64-72`), the opening of the control connection (`client.ts:34-40`) and of the
mux's (`mux.ts:85-91`) - Lifecycle assumes no fairness as long as the Chrome in question
runs (`AwaitsChrome`), and `RequestsSettle` says that a request ends unless it waits there
for ever. In Console and Access the timers of the
dashboard run and a request is answered or fails in the end, as `fetch` guarantees;
`ListConverges` speaks only of behaviours in which answers keep arriving. Clients, REST
callers, humans and crashes owe nothing anywhere.

## 4. What is proved

By TLAPS, for every value of the constants: any sets of agents, targets, clients, viewers
or processes, and every bound. The constants are assumed to be of their kind (numbers are
natural, sets whose cardinality is taken are finite, a "nothing" value is not a member of
the set it stands beside); each module states this in its `...Assumption`, which TLC
evaluates on every run. Some results have a hypothesis besides, named in the table, which the
instance of their run satisfies.

| module | theorem | states | hypothesis |
|---|---|---|---|
| `TabPoolProofs` | `TypeCorrect` | `[]TypeOK` | |
| | `CapBound` | `[]CapOvershootBound` | |
| | `Exclusive` | `LeaseIsExclusive` | |
| | `NoLeak` | `[]NoLeakedTab` | |
| `MuxProofs` | `TypeCorrect` | `[]TypeOK` | |
| | `AclHolds` | `[]SessionAffinity` | |
| | `FamiliesStayTogether` | `[]FamilyAffinity` | |
| | `MarksAreTaken` | `[]SuppressionIsTransient` | |
| | `PoolIsKept` | `PoolRefined` | |
| | `RepliesAreComplete` | `ReplayIsComplete` | `~SlowChrome` |
| | `TableKept` | `[]TableAccurate` | `~SlowChrome`, `NoAttachCommands` |
| | `CreatorsAreTold` | `[]CreatorSeesItsPage` | `~SlowChrome`, `NoAttach`, `OneConnectionEach` |
| `MuxCommandsProofs` | `TypeCorrect` | `[]TypeOK` | |
| | `AnswersAreRight` | `[]AnswersMatch` | |
| | `CommandsKeepOrder` | `OrderKept` | |
| `ProfileLockProofs` | `HoldersFile` | `[]HolderHasFile` | |
| | `Exclusion` | `[](Cardinality(Owning) <= 1)` | |
| | `Refinement` | `LockRefined` | |
| `LifecycleProofs` | `TypeCorrect` | `[]TypeOK` | `~Overlap` |
| | `OneChromePerProfile` | `[]SingleWriter` | `~Overlap` |
| | `SessionsHoldLocks` | `[]SessionIsLocked` | `~Overlap` |
| | `LocksAccountedFor` | `[]LockIsAccountedFor` | `~Overlap` |
| `TakeoverHubProofs` | `TypeCorrect` | `[]TypeOK` | |
| | `NoSessionLeaks` | `[]NoLeakedSession` | |
| | `CastGoesWithViewers` | `[]CastFollowsViewers` | |
| | `JoinersSeeTheFrame` | `[]JoinersArePainted` | |
| | `NobodyIsFrozen` | `[]NoFrozenFrame` | |
| `DashboardProofs`: Console | `TypeCorrect` | `[]TypeOK` | |
| | `SessionsDoNotStack` | `[]NoStackedSessions` | |
| | `PicturesGoForward` | `PicturesMoveForward` | |
| Access | `AccessTypeCorrect` | `[]AccessTypeOK` | |
| | `GuessesAreBounded` | `[]WindowBound` | |
| | `RetryAfterIsEnough` | `[]RetryAfterIsHonest` | |
| | `PrintedTokenStays` | `[]PrintedTokenLasts` | |
| Viewer | `ViewTellsTheTruth` | `[]StripConverges` | |
| | `NoDragGoesOn` | `[]ButtonComesUp` | |
| | `PickIsKept` | `PickSticks` | |
| `ViewportProofs` | `TypeCorrect` | `[]TypeOK` | |
| | `ResizesLand` | `[]ResizeLands` | |
| | `LeasesAreNamed` | `[]LeasesAreReported` | |
| | `FieldsAreOfTheTab` | `[]FieldsFollowTab` | |

`~Overlap` is "no delete is
issued while another request for its identity runs"; without it a directory may be removed
under a Chrome (section 5). `~SlowChrome` is "no deadline of the mux passes before Chrome
has answered": a fallback that times out skips its page, so a replay may be incomplete.
`NoAttachCommands` and `NoAttach` say that clients leave attaching (and, for the first,
detaching) to `setAutoAttach`: a second session of a page makes the table, which has one
entry per page, lose the first. `OneConnectionEach` is "an agent has one client": with
two, the event of a page goes to the first that allows it, whichever of them created it.

All proofs have the same outline: an invariant (`IInv`; in DashboardProofs `ConsoleInv`,
`AccessInv` and `ViewerInv`) that implies the property and is kept by every action (one
lemma or step per action), checked by TLC on the instance of the
run before it was proved. What it says beyond the property is what the property rests on:

* *TabPool.* `CapBound` is inductive with types alone: a call past the check moves one
  unit from the calls in flight to the leases when it registers, so their sum is what the
  check bounds; the rest is arithmetic of finite sets. `Exclusive` and `NoLeak` need that
  ids are minted before they are used (`MintedFirst`) and that an answered call holds a
  page of its own, not foreign and not leased (`AnswersFree`). Without it `LeaseCreated`
  could overwrite a lease: nothing in `lease` looks at the table again after its await.
* *MuxTargets.* A lease may be given up while clients still hold sessions of its page, so
  the present leases are nothing to prove affinity from. What is kept is that *there is* a
  function from pages to agents that explains every lease, announcement, session, replay
  and message at once (`Affinity`): each page has one agent for life, decided at its first
  lease and shared with its opener. That a first lease finds a page nobody serves needs
  that the page is of one creator (`OneCreator`), who awaits one answer (`OneCommand`,
  `NoTwoAnswers`) to the question that was asked (`AnswersFit`). `PoolIsKept` needs the same facts:
  adoption is the one step the lease table does not always allow, and only pages it did
  not ask for are adopted. With it, the theorems of TabPoolProofs hold of the lease table
  inside the mux. The last three rest on invariants of their own: pages a replay is done
  with have been announced or are gone (`Announcing`); of a page that lives, the session
  is in the table, or its event or the attach itself is still to come, and an event of a
  session that has ended has the end behind it (`Tabled`); the one attach event of a page
  a client makes is parked until the client leases it, then handed over once (`Creation`).
* *MuxCommands.* The numbers of a client that wait in its queue follow those that were
  taken from it (`QueuesAreRuns`); a number that was taken is with the handler, with
  Chrome or answered, and in one of these places only; numbers for Chrome are used once
  (`NumbersAreFresh`).
* *ProfileLock.* Who claims the lock and has not been robbed made the file that is there, so
  there is one of them at most; a robbed process claims with a file that is not there any
  more (`RobbedHasNoFile`); a process about to remove the file has found the maker it read
  dead, and its pid is not used again meanwhile (`ReclaimsFromDead`), so removing that very
  file harms nobody, and removing another is what `robbed` records. `Refinement` then maps
  every system call to a step of ExclusiveLock or a stutter.
* *Lifecycle.* The supervisor of a session, or of a request that has not registered or not
  finished stopping one, owns its identity: it holds the lock, and nobody else owns that
  identity. A start that owns it kills what is left of earlier ones before it launches.
* *TakeoverHub.* The step of the running job fixes who holds which session (`Steps`,
  `Holding`). For the properties of the settled hub: whenever the cast is not what the
  viewers should see (`Astray`), something that will put it right is on its way (`Due`): an
  event that is not read yet, a job that waits, or the one that runs (`Recovers`).
* *Console.* A tab has one capture in flight, which is the latest begun (`Latest`), so who
  joins it waits for a picture at least as new as any that is shown (`PicturesAreDue`).
* *Access.* `guesses` counts wrong tokens by itself, one history per address; the throttle
  has a map that prunes, forgets and evicts. The proof keeps that what is recent in the map
  is, age by age, what was guessed in the window (`GuessesCounted`), with at most one
  entry per address and its ages eldest first (`GoodMap`), so that pruning leaves an end of
  them, and the eldest that is recent is the first of that end. Then, as long as an address is
  locked, what is left of the promised wait outlasts what its eldest recent failure has
  left in the window (`PromisesKept`). For the token: one that was printed is the one in
  the file, nothing overrules it, and a gateway that is up has it (`TokenKept`).
* *Viewer.* `Strip` relates what Chrome has, what the hub still has to do, and what the view
  will show when it has read everything on the wire: for the list, the tab marked, the
  picture and the word that there is none, either the view will be right (`WillList`,
  `WillMark`, `WillShow`, `WillWait`), or a push, a debounced event or a job that will tell
  it is waiting in the hub. Steps that lose touch with Chrome leave such work behind, so it
  is inductive; with no work left it is `StripConverges`. It rests on hubs that keep a
  promise of their own: a viewer joins once (`JoinsOnce`), a cast whose page is gone is
  noticed, and one that nobody views is stopped (`CastKept`). `ButtonKept`: a button that
  is down, or that a message on its way will press, and that nothing behind it lets go, is
  one the human still holds. `LinkFollowed`: who picked after the link was followed finds
  it still asked for.
* *Viewport.* What each await of a resize that has the window to itself must have left for
  the next to be right (`Underway`): what the call remembers is what the window still is.

Every invariant and action property that a run checks is a theorem. With TLC stay the
liveness properties (`AwaitsSettle`, `QueueMoves`, `RequestsSettle`, `ListConverges`,
`GateFollowsCookie`, `EveryCommandIsAnswered`) and anything about ENABLED, which are out of
the prover's reach; and the cases that the hypotheses of the table leave out, as far as
the runs have them.

## 5. What the code does not do

### With a configuration that shows it

Statements of comments that the code does not keep. Each is a definition under "Statements
the code does not keep" of its module, and TLC finds a behaviour against it with the cfg
named. None of these configurations is among the runs above, which all pass.

| configuration | statement | documented at | what happens |
|---|---|---|---|
| `MCTabPoolHang` | `ReleasesSettle` | `client.ts:28` | `settleAll` rejects what is pending when the socket closes; a `send` after that adds an entry and hands the frame to a closed socket, so nothing settles it. `stopIdentity` awaits exactly such releases |
| `MCTabPoolLost` | `NoStrandedTab` | `tab-pool.ts:90`, `92` | the control socket fails and Chrome lives on: a page it has just created is answered to nobody, or one whose lease is dropped already is never closed; both stay open and nobody leases them |
| `MCLifecycleStop` | `StopsEnd` | `supervisor.ts:137` | "Don't hang forever", says the last wait of a stop; yet a stop awaits the release of the tabs first, and nothing bounds that wait: a Chrome that runs and does not answer holds it up for good, and the lock with it |
| `MCMuxLost` | `LeasedPageReachesClient` | `mux.ts:16`, `443` | an attach event read before the lease is registered is parked, and only `createAndAdopt` takes a parked event back (line 317): the client is never told of a page leased over REST |
| `MCLifecycleMux` | `MuxFollowsSession` | `gateway.service.ts:97` | `startIdentity` puts the mux into its map after an await; a stop in between leaves a dead mux in the map, which the next start keeps (line 151) |
| `MCLifecycleRemove` | `RemoveOnlyWhenFree` | `orchestrator.ts:122` | a start in flight is not in the session map; a delete finds nothing to stop and removes the directory under a Chrome that is being launched |
| `MCLifecycleReap` | `ReapsOnlyOwn` | `reaper.ts:14` | `pgrep -f` takes the flag as a pattern found anywhere: starting `work` signals the Chrome of `work-twitter` |
| `MCProfileLockRace` | `MutualExclusion` | `profile-lock.ts:2`, `7-8` | a dead process has left its file, and two live ones judge it stale: one removes it and creates its own, the other removes that one and creates another, and both hold the lock |
| `MCViewportRace` | `SizeIsAsked` | `gateway.service.ts:309` | two resizes of a tab overlap: one measures bounds before and content after the other has set them, and the page gets a size nobody asked for |
| `MCViewportDraft` | `DraftIsOfTab` | `TakeoverView.tsx:682` | the fields render the draft, and a read that is refused clears only the viewport: they go on showing the size of the tab before, next to "size unknown"; so does the answer to a resize that arrives when another tab is selected |
| `MCViewerDrag` | `NoButtonLeftDown` | `TakeoverView.tsx:269-271` | somebody switches the cast during a drag: the release goes to the page that is cast by then, and the one that was dragged in has its button down when it is cast again |
| `MCViewerCut` | `CutsWhatItRead` | `takeover.ts:418-420` | a key, a press or another cut between the read of a selection and the Delete: what is deleted is not what was read |
| `MCViewportDefault` | `DefaultRules` | `SessionsView.tsx:136` | the settings are read once; a default saved later, or whose answer is still to come, is outranked by the size of the pane |

### Without one

* `mux.ts:422-423` says a page opened by a leased tab must inherit the lease, or its
  session goes to nobody. `adoptByOpener` finds the agent through a connected client
  (line 511), so a popup that opens while its agent has no connection is leased to nobody.
* `mux.ts:255-256` says a target is announced once per client; the event itself (line 440)
  and a replay requested after it both announce a page leased over REST.
* The continuation of the fallback (`mux.ts:294`) writes the session table after the
  events that cleared it may have been read, so an entry can outlive its target, which
  line 450 sets out to prevent. `TableAccurate` is checked in a run where no fallback
  overlaps a death of its page.
* Any detach clears the table entry of its target (`mux.ts:457`), also when the
  auto-attached session is still there. `TableAccurate` is checked without explicit
  detaches.
* With two connections of one agent a session belongs to the connection that replayed it
  last and to nobody once that one closes (`mux.ts:143`, `260`), while `scope.ts:4-6`
  promises the agent its events.
* The mux does not listen to the close of its upstream socket (`mux.ts:80`): commands
  forwarded into it are answered by nobody. `EveryCommandIsAnswered` excepts this.
* A lock file whose owner was killed before writing its record is unreadable, taken for
  live, and never reclaimed (`profile-lock.ts:63`): starts of that identity are refused
  until somebody deletes it. Lifecycle (`"torn"`) and ProfileLock have this state.
* Two first boots on one configuration mint two tokens; the later write wins and the
  earlier gateway keeps its own. Access has one gateway on a configuration.
* `takeover.ts:91`: the cast "stops on the last" viewer. The close handler of a viewer is
  registered after the await of its first cast (line 154); a socket that closes before, or
  whose `addViewer` throws, stays in the set, and the cast outlives the last open socket.
  `CastFollowsViewers` is therefore stated of the set.
* `attachTo` compares a pick with the tab that is cast, not with the one that was picked
  last (`takeover.ts:194`, against 328): picking the current tab while a switch to another
  is queued does nothing, and the switch is carried out. `wantedTargetId` is never
  cleared.
* A job of the hub that fails pushes no list, and the rejection is nobody's.
* A link that cannot be followed yet (its tab is not open) is followed when a list brings
  its tab (`TakeoverView.tsx:146`), also when the human has picked another tab meanwhile.
  `PickSticks` is therefore stated of picks since the link was followed.
* The view: the `onclose` of a socket that was replaced may set "disconnected" after the
  new one is live; `requestedTarget` is not reset when the identity changes; strip and
  frame of the identity before stay until the first push; after a stop the view stays
  "live" with its last frame; a site typed for one tab goes to the one that is highlighted
  when it is submitted; the answer to a resize is shown whichever tab is selected by then.

## 6. Not modelled

Data and pure functions: the grammar of ids, the schemas, agent tokens (HMACs of the access
token), comparison in constant time, the flag list of Chrome, key codes and wheel deltas.
Scripts and sites: `eval.ts` and `probes.ts` (run in a page to score a browser), the CLI,
the documentation site, the e2e scripts, which were read as documentation of what is
expected. Of modelled parts: `primeAutoAttach` and page-level sessions of the mux, the
HTTP endpoints of the self-hosted spike server, ephemeral profiles (used by no
supervisor), the loss of the control connection under a hub that is not replaced, and in
the dashboard the watchdog of a paste, zoom, favicons, the activity signal of the logo,
the settings form, toasts and layout.

## 7. What is worth doing next

* That Viewer's hub (a job in one step) is an abstraction of TakeoverHub's (a job by
  awaits). Both are proved against the same code separately; a refinement between them
  needs the messages to viewers in TakeoverHub, or a projection of Viewer without them.
* `Lifecycle` without `~Overlap`: which of its properties survive a directory that is
  removed under a Chrome, stated of the identities it was not removed from.
* `AwaitsSettle`, `QueueMoves` and `EveryCommandIsAnswered` by a ranking argument, when the
  prover can reason about ENABLED.

## 8. Running it

    tlc -config MCTabPool.cfg MCTabPool          # and likewise every other .cfg
    tlapm TabPoolProofs.tla                      # and likewise every other <module>Proofs

`MCMuxLost`, `MCMuxPeers`, `MCMuxCreate` and `MCMuxSlow` belong to MCMuxTargets, `MCLifecycle*` to MCLifecycle,
`MCProfileLock*` to MCProfileLock, `MCViewport*` to MCViewport, `MCViewer*` to MCViewer,
`MCTabPool*` to MCTabPool. MuxProofs takes some ten minutes, DashboardProofs some nine, every other proof module a few at most.
