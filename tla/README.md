# QmlAgent in TLA+

QmlAgent lets an agent inspect and drive a running Qt Quick application. Three
processes cooperate: the target application with the `qmldbg_agent` plugin, a
launcher that owns the target, and clients (`qmlagentctl`, `qmlagent-mcp`) that
talk to the launcher through a directory of files, or to the target directly.
This directory models the parts where threads, processes, time-outs and a
changing scene meet, checks them with TLC and proves most of what is checked, for
every value of the constants, with TLAPS.

Paths below are relative to the repository root; `plugin/` is
`src/plugins/qmltooling/qmldbg_agent/`, `tools/` is `tools/qmlagent/`.

## Inventory

### Target process

| Part | State | Operations | What is hard |
|---|---|---|---|
| GUI-thread dispatch (`plugin/qqmlagentservice.cpp`) | a `GuiCallState` per request (semaphore, phase, completed, result), `s_abandonedGuiCall`, the application's event queue, the lambdas on the GUI stack | one `runOnGuiThreadBlocking` per request; claim, run and release on the GUI thread; `Session.configure`, reset | two threads and a CAS, nested event loops, a hung GUI thread, an application that is destroyed, late effects of an abandoned call |
| UI subscription (same file) | `m_uiSubscribed`, `m_uiEventPending`, `m_uiWatcherRefreshPending`, `m_uiConnections` | `subscribeUi`, `unsubscribeUi`, `schedule...`, the queued lambdas, `resetSessionState` | the reset runs on the debug thread against everything else on the GUI thread |
| Log collector and buffer (`plugin/qqmlagentlog*.cpp`) | entries, sizes, keys, bytes, `m_eventsEnabled` | `captureMessage`, `addWarning`, `append`, `enable`, `entries`, `clear` | any thread logs; timestamps before the lock, signals after it; two limits; cursors |
| Protocol (`plugin/qqmlagentprotocol.cpp`) | none | parse and build one message | size limits, malformed input |
| Input (`plugin/qqmlagentinput*.cpp`) | what a call has looked up: target, window, receiver of keys; the pointers that are down | click, drag, long press, mouse, touch, wheel, scroll, focus, type, key, dismiss a popup | handlers and nested event loops between its steps, in which targets and windows disappear |
| Actionability (`plugin/qqmlagentactionability.cpp`) | none | the reasons why a target cannot be acted on at a point | overlapping siblings, items that reach past their parents, modal popups; checked before the input is sent |
| UI tree (`plugin/qqmlagentuitree.cpp`) | node ids | tree, describe, query, `waitFor` | selectors that are used after the scene has changed; a loop over a changing scene |
| Runtime, render, diagnostics, source resolver | the runtime-mutation gate | one GUI-thread call each | heuristics, conversion |

### Launcher process (`tools/launcher_main.cpp`)

| Part | State | Operations | What is hard |
|---|---|---|---|
| `LauncherControlServer` | `m_pendingAgentRequests`, `m_sessionReady`, `m_stopRequested`, the mailbox | process files, forward, relay replies, reload, stop | clients that are gone, replies that are late, requests before readiness, two triggers of the same poll |
| Lifecycle | target process, registry records and runtime directory, pending signal | start, ready, target finished, signal, quit | start-up failures, SIGTERM/SIGKILL and quit timers, two short event loops, cleanup on each path |
| Preview host | the loaded roots, its control socket | reload | reloads inside nested event loops; an answer that misses the launcher's time-out |

### Client processes

| Part | State | Operations | What is hard |
|---|---|---|---|
| Mailbox client (`tools/qmlagentlauncher.cpp`) | `control.lock`, its request and response file | lock, publish, poll, give up | crash with the lock, requests that outlive their client |
| MCP server (`tools/main.cpp`) | `m_queue`, `m_currentCall`, `m_workflow`, `m_commandTimeout`, `m_uiSubscribed`, the connection, `m_inputClosed` | tool calls, connect, disconnect, responses, time-out, end of input | multi-step workflows that must undo their subscription, late responses, re-entrant dispatch, exit |
| Time-outs of the launcher route (`launcherControlTimeoutMs`) | none | a time-out from the request's parameters | two layers derive theirs separately |
| Target lease (`QmlAgentTargetLease`) | a lock file per endpoint | acquire, release | crash of the owner |
| Discovery and stale cleanup (`tools/qmlagentlauncher*.cpp`, `qmlagentprocess_unix.cpp`, `qmlagentpaths.cpp`) | the record it looks at, the records it will move | list, probe, judge, move to the Trash | judging another process dead across PID reuse and namespaces, several cleaners, a move that stops half way |

### How they interact

```
client --request-*.json--> launcher --debug connection--> debug thread --posted lambda--> GUI thread
client <--response-*.json-- launcher <-- replies, events -- debug thread <--semaphore------ GUI thread
qmlagent-mcp <------------------ debug connection (direct attach) -----------------> debug thread
client --list, probe, clean up--> registry records and runtime directories <--write, remove-- launcher
GUI thread: one request at a time --queries, input--> the scene <--changes, also inside a call-- application
```

Correctness, per part: dispatch - operations never overlap and every verdict
about an operation is true; subscription - no change is lost and none is
reported after the end; log - the buffer's books agree and cursors neither
repeat nor lose; mailbox - an answer reaches the call it belongs to, a request
runs at most once and never after it was refused; MCP server - every call gets
one answer, its own; time-outs - the outer layer does not give up before the
inner one; sessions - what is alive is kept, what is dead can be found, an
orderly end leaves nothing; input - what was checked is what is pressed, and
what began ends; queries - a selector keeps its meaning, a wait tells the truth.

## Modules

| Module | Models | State and actions in the code |
|---|---|---|
| `CallOutcome` | abstract: what a client may conclude from a verdict | `effect`, `verdict`, `asked`; no threads, no time |
| `GuiDispatch` | `runOnGuiThreadBlocking` and both its threads | `pc` is the place of the debug thread in the function; `phase`, `completed`, `hasResult`, `done` are `GuiCallState`; `posted` is the event queue, `frames` the GUI stack. One action per atomic access: `Post`, `Acquire`, `BudgetExpires`, `CancelQueued`/`FindStarted` (the CAS), `GraceExpires`, `ClaimPosted`/`SkipCancelled` (the CAS), `FnReturns`, `StoreCompleted`, `ReleaseDone` |
| `UiSubscription` | the UI subscription and the session reset | the three flags, `watched` for `m_uiConnections`, `queue` for posted lambdas; `items` are windows' content items and their children, `Path` the way to each; `missed` (history) the windows created since the last walk; `gui` and `dbg` are the two threads' places, one shared access per step |
| `LogBuffer` | `QQmlAgentLogBuffer` | operators on a buffer; the loop of `append` is `Fitted` |
| `LogCollector` | `QQmlAgentLogCollector` and a paging client | `Stamp`, `AddEntry`, `EmitLive` are the three stages of a message; `Enable`/`EmitReplay`, `GetEntries`, `Clear` are the debug thread |
| `McpServer` | `QmlAgentMcpServer` on a direct connection | the server is one record; each handler is an operator from record to record, because handlers call each other; an action is one event of the event loop |
| `RequestService` | abstract: what a launcher promises about one request | `standing`, `executed`, `verdict`; no files, no processes |
| `ControlMailbox` | clients, launcher and target around one mailbox | files are sets; `pending` is `m_pendingAgentRequests`; the debug connection is two queues |
| `GatewayBudget` | both layers' time-outs and the race of their clocks | the arithmetic is operators; `now` moves from deadline to deadline |
| `LauncherSessions` | the launcher's life and what it leaves on disk; discovery, probe and stale cleanup | `pc` is the place in `main` of the launcher, `holder` the PID table; files are `runtimes`, `contents`, `records`; a client goes `Discover`, `ProbeAnswered`/`ProbeFails`, `Judge`, `MoveRuntime`, `MoveRecord`, as `cleanupStaleLauncher` does. Mailbox contents are left to `ControlMailbox` |
| `Scene` | the item trees of windows, and what Qt does with a press | operators on a scene; geometry in one dimension |
| `Actionability` | `reasonsForObject` and the occluder walk | operators on a scene; the walk is a recursive function over the items |
| `Input` | every input method | a call is a list of steps (`call.todo`); each step is an action, `Watches` is what it looks at through a `QPointer`, `Uses` what it uses; `Application` runs between calls and while `pc` is `"pumping"`: in a nested event loop or in the handlers of an event |
| `Selectors` | the selectors a node is offered, and what a query finds | operators on a scene, of which the places in models (`order`) are a part: `Claims` for `nodeForObjectInternal`, `Query` for `QQmlAgentUiTree::query`, the counts of `buildSelectorUniquenessIndex` |
| `UiQuery` | `getTree`, `describeNode`, `query` and `waitFor` over a changing scene | `offered` is what the client keeps from the last answer; `wait` is the loop of `waitFor`, with its event loop at `"looping"` |
| `MC...` | instances for TLC | |
| `...Proofs` | the theorems about the module they are named after, see below; `LauncherProofs` those about `GatewayBudget`, whose `Init`, `Next`, `Spec` and `TypeOK` are therefore called `GatewayInit` and so on, and `LauncherSessions` | no state of their own |

Operators whose comment begins with "Mutant" are not part of a specification:
each is a plausible mistake in the operator that follows it, kept to show that
the property it breaks depends on the code.

## Runs

| Run | Question | Result |
|---|---|---|
| `gui` | do operations exclude each other, are verdicts true, is every request answered, is `CallOutcome` implemented? | holds |
| `ui` | can a change get lost (a pending flag stuck), an event follow an unsubscribe, an object stay unwatched that a walk of the known windows reaches? | no |
| `ui_reset` | does `Session.reset` clear the watchers, as `docs/protocol.md:71` says? | violated |
| `log` | does the buffer stay consistent, does replay meet the live events, do pages repeat? | holds |
| `log_paging` | does the cursor of `docs/protocol.md:131` reach what a page omitted? | violated |
| `mcp` | is every call answered once, with its own answer; are temporary subscriptions undone; does the server end? | holds, if the connection lasts |
| `budget` | does the client's time-out cover the request's own time without overflow? | holds |
| `budget_mirror` | does the client outlast the service's budget, as `tools/qmlagent/main.cpp:499-501` says? | violated |
| `mailbox` | does each call get its own answer, at most one execution, none after a refusal; is a stop honoured, is `RequestService` implemented? | holds |
| `sessions` | does cleanup spare the living, do records go last, does an orderly end leave nothing, in every order of start, failure, signal, end, kill and PID reuse? | holds |
| `input` | is the checked target the pressed one, does every gesture end, does it survive what its handlers destroy? | holds for pointer gestures |
| `query` | does a selector keep its meaning when the scene changes, is the verdict of a wait true when it is given? | holds for what the count of selectors can see and, of selectors with an index or a cell, while the place is the same |

What the three violations show:

- `ui_reset`: the queued refresh lambda reads `m_uiSubscribed` as true, the
  debug thread resets everything, the lambda then connects every object. The
  watchers stay until the next subscribe. `ui` shows that this leads to no
  event: the subscription flag is checked again before each.
- `log_paging`: timestamps are milliseconds and the cursor is one of them. An
  entry with the same timestamp as the last one of a page is reported in
  `omittedEntryCount` and is behind the cursor.
- `budget_mirror`: the service adds 5000 ms to the request's own time, the
  client 1000 ms; `UI.queryMany` is not mirrored at all. The client releases
  its lock and reports a time-out while the operation is within its budget.

What the runs that hold leave open, met while modelling and not refuted by a
run of their own:

- A window created after `UI.subscribe` is not watched: `installUiWatchers` looks at
  the windows that exist when it runs (`qqmlagentservice.cpp:644`), and only
  `childrenChanged` of an object already watched makes it run again (`:706`). Until
  then nothing in the new window causes an event; an application that only uses
  its dialogs never does. Objects deeper than 256 below a content item are never
  watched, and each walk that meets one reports a change (`:679-682`).
  `WatchesReachableScene` names both cases.
- `buildSelectorUniquenessIndex` counts one composite of each node, that of its
  id or, without one, of its objectName; a query finds a node by either
  (`plugin/qqmlagentuitree.cpp:754-777`, `:1857`). An item without an id, named
  `other` at index 0 of a list, is offered `objectName="other" index=0` as its
  own, "medium, resolves to one node" (`:1132`); a query for it also finds an item
  of another list with that name and index, which has an id besides and was
  counted under that. The hypothesis `NamedAlike` of the proof excludes this; TLC
  finds it in one step in a scene with two such items.
- Instances of a source line are numbered in the order of their node ids, which
  survives restacking, hiding and creation. But the number is a position among
  those that live (`:797-810`): when an earlier one is destroyed the later ones
  move up, and a selector offered for the second names the third.
  `docs/protocol.md:105` calls the ordinal stable within a session.
  `SelectorsKeepTheirMeaning` leaves that case out (`reduced`).
- A selector with an index, or a row and a column, names a place in a model and
  not a node. The code reads these live on each call
  (`plugin/qqmlagentuitree.cpp:957-1011`) and offers such a selector with the
  reason "index changes when model order changes" (`:1193`, `:1267`; `:1224` for
  cells). When a row is inserted before a delegate that lives on, its selector
  names the delegate that comes to that index. `SelectorsKeepTheirMeaning`
  leaves a node that has moved, or is in something that has, out for these
  selectors (`Moved`); without that, TLC finds the case in two steps, a
  `getTree` and a `Reorder`. It does ask that a selector of a node that has
  *not* moved is not taken over when others move, and that it names the node
  again when that is back in its place.
- A delegate inside a delegate: the count of composites uses the nearest place
  in a model (`plugin/qqmlagentuitree.cpp:742-753`), a query the outermost one
  (`:2066-2092`). `getTree` then offers an id with an index as unique that a
  query resolves to another node. `NotNested` excludes it; without it TLC finds
  this in one step, and the comment at `:1132-1136` knows it. Likewise source
  lines of windows are not among those counted (`WindowLines`).
- `UI.waitFor` looks at the first 20 matches only (`WaitMatches`), and collapses
  nested matches before it prefers the visible one.
- The last steps of `scrollIntoView`, `typeText`, `focusNode`,
  `dispatchKeyEvent` and `dismissPopup` use plain pointers after application
  code has run. That is undefined behaviour; in the model such a step crashes
  the process or has no effect (`UseOfDestroyed`). `GesturesSurviveDestruction`
  says that the pointer gestures are not among them.
- An item in a modal popup is checked against no blocker at all, so one open
  dialog above another goes unnoticed; `selectAll` acts on the focus item of
  the window, also when that is outside the target; an item that is clipped away
  passes the checks; a long press presses before its window is active, and any
  gesture on a window that is not active checks first and processes events to
  activate it then (`plugin/qqmlagentinput.cpp:566`): `CoveringItemIsNotPressed`
  is about windows that are active.
- A launcher that cannot start its target leaves its runtime directory, and no
  record leads to it. If the target ends in the same pass of the event loop in
  which it connects, `app.exit` comes before `app.exec` and is lost: the launcher
  goes on, with a record, without a target and without a mailbox. A stop that is
  taken up during the handshake can do this. `StopEndsSession` names it as the
  one session that a stop does not end (`OutlivesItsTarget`).
- A client may move the runtime directory of a dead launcher just after a new
  launcher was given the same PID: the directory is then the new one's
  (`LivingSessionsAreKept` names this case with `since`).

## Bounds, and why they are enough

- `gui`: four requests, one mutating. The states that matter need one call in
  the queue, one on the stack, one abandoned and one refused. Reset and
  configure are unlimited, lambdas may nest as deep as
  the requests allow (`StackInv` shows that they never do).
- `ui`: two windows, either there from the start or not; one has a child, and in
  it a second that is too deep for a walk (`MaxUiWatcherDepth` is 1 instead of
  256). At most three queued lambdas when the scene changes (`MaxQueued`), so that
  a request, an event and a refresh can be queued together. Requests, resets and
  changes are unlimited.
- `log`: two loggers, three messages - a small one, one that needs two thirds of
  the bytes and one larger than the buffer -, two entries, three bytes, two clock
  values, at most three messages in all and one queued signal at a
  `Log.enable`. Every way to evict, to meet a duplicate and to tie or invert
  timestamps occurs. The two loggers are symmetric, and no liveness is checked.
- `mcp`: a subscribe call, a workflow that verifies, one that waits, and a
  disconnect, in any order and at any time, over at most two connections.
- `mailbox`: three calls, with every mix of four kinds, taken in one order
  only as calls differ in nothing else. Two calls are needed for a late reply,
  a third for what comes between.
- `budget`: `IntMax` is scaled down to 262143; the other numbers are the
  code's. Parameters are absent, negative, zero, at their limits and at
  `IntMax`.

- `sessions`: two launchers and one PID, so that PID reuse, also by a process that
  is no launcher, is the normal case; two registry directories; a client that
  sees both, one that sees one, and one in another PID namespace. A second PID
  adds only launchers that never meet. Each launcher lives once.
- `input`: two windows with fourteen items - a flickable with content longer than
  itself, a control with a label and its own click area, a group whose child
  reaches past it over the control, a modal dialog, a text field in the second
  window; points 0 to 3. The application makes one change (`MaxChanges`), of
  any of eight kinds and at any point of a call: each hazard is one event
  between two steps. One pointer put down by hand (`MaxByHand`), texts of at most
  one unit (`MaxUnits`), which has every step that longer ones repeat.
- `query`: fourteen nodes with every source of ambiguity there is - ids that occur
  twice, two views with the same delegate id, a table cell, three instances of a
  line, a style item, a label with its control's text; one of them created
  later, two not seen by the agent at first. The models have three orders
  (`Orders`): the first, one with two rows exchanged, one with a row inserted before
  the others and the table's cell a row further on. Two changes (`MaxChanges`): one
  may undo what the other did. A wait looks at two matches instead of 20
  (`WaitMatches`).

`gui`, `ui`, `sessions` and `query` check for deadlock. The others end: the log
has no more messages, the client no more calls, the time-outs have passed, the
application has crashed.

## Fairness

- `GuiDispatch`: weak fairness of the debug thread's wait, since each wait is a
  `tryAcquire` with a time-out. None for the GUI thread, which may hang.
- `UiSubscription`: a handler that has begun on the GUI thread or a reset that
  has begun ends (weak); the event loop takes queued lambdas although changes
  keep coming in between (strong, the queue is first in first out). Not assumed:
  that the client sends anything.
- `McpServer`: a running timer fires. Not assumed: that the target answers.
- `ControlMailbox`: a launcher that is ready polls its mailbox (10 ms timer)
  and reaps its child; one that is not becomes ready or fails (`--timeout`);
  a target asked to stop ends (SIGKILL after 1500 ms). Not assumed: that a
  client waits or a target answers.
- `LogCollector`, `GatewayBudget`, `LauncherSessions`, `Input`, `UiQuery`: no
  liveness is stated. That a call on the GUI thread ends depends on the
  application code it runs; that it is answered nevertheless is
  `EveryRequestAnswered`.

## What is proved

The theorems hold for every value of the constants: every set of clients, calls,
items or messages, and any number of changes, connections or resets, as the bounds
that keep TLC's runs finite (`MaxChanges`, `MaxConnects`, `MaxQueued`, ...) are
constants like the others. Each `...Proofs` module has the same form: an inductive
invariant `IInv` made of named parts, `InitIInv` and `NextIInv`, with one step or
one lemma per action, `Invariance`, and the theorems that follow from it in a few
lines. (`InputProofs` and `UiQueryProofs` have several invariants, each for its
theorems.) Where a part of `IInv` is a property of a run, it is named as in the run.

| Module | Theorem | States |
|---|---|---|
| `GuiDispatchProofs` | `TypeCorrect` | `TypeOK` |
| | `MutualExclusion` | `OneOperationAtATime` |
| | `Truthfulness` | `AnswersAreTrue` |
| | `MutationGate` | `MutationsStartEnabled` |
| | `Refinement` | `ImplementsPromise`: `Spec` implements `CallOutcome` |
| `UiSubscriptionProofs` | `TypeCorrect` | `TypeOK` |
| | `UnsubscribeSilences` | `SilentAfterUnsubscribe` |
| | `ReachableSceneIsWatched` | `WatchesReachableScene` |
| `LogCollectorProofs` | `TypeCorrect` | `TypeOK` |
| | `BookkeepingIsExact` | `BufferConsistent` |
| | `ReplayJoinsLive` | `NothingFallsBetween` |
| | `NothingIsRepeated` | `PagesNeverRepeat` |
| `McpServerProofs` | `TypeCorrect` | `TypeOK` |
| | `AnswersAreOwnAndSingle` | `OwnAnswerOnce` |
| | `CallsAreKept` | `NoCallForgotten` |
| | `QuitsWhenDone` | `QuitsAfterLastAnswer` |
| | `SubscriptionsEnd` | `TemporarySubscriptionEnds` |
| `LauncherProofs` | `GatewayTypeCorrect` | `GatewayTypeOK`: no time-out overflows |
| | `ClientsArePatient` | `OutlastsTheRequestsOwnTime` |
| `ControlMailboxProofs` | `TypeCorrect` | `TypeOK` |
| | `AnswersReachTheirOwners` | `AnswersOwnRequest` |
| | `NoDoubleExecution` | no request is executed twice |
| | `RefusalIsFinal` | `RefusedIsNotExecuted` |
| | `ResetPrecedesRequests` | `ResetBeforeNextRequest` |
| | `Refinement` | `ImplementsService`: `Spec` implements `RequestService` |
| `LauncherProofs` | `TypeCorrect` | `TypeOK` of `LauncherSessions` |
| | `CleanEnd` | `NothingLeftBehind` |
| | `CleanupSparesTheLiving` | `LivingSessionsAreKept` |
| | `CleanupOrder` | `LeftFilesStayDiscoverable` |
| `InputProofs` | `GesturesRelease` | `NothingStaysPressed` |
| | `GesturesSurvive` | `GesturesSurviveDestruction` |
| | `FirstEventIsNotCovered` | `CoveringItemIsNotPressed` |
| | `TypeCorrect` | `TypeOK` |
| `UiQueryProofs` | `TypeCorrect` | `TypeOK` |
| | `WaitIsTold` | `WaitVerdictIsCurrent` |
| | `SelectorsMean` | `SelectorsKeepTheirMeaning`, when `Unmistakable` |

### Assumptions

Most only keep the marks of the models apart from what they are not (`NoRequest`,
`None`, `Nobody`, `NoEntry`, `Nothing`, `Plain`: null pointers, free PIDs, items
of no window) or give a bound or a parameter its type. The others:

- `ControlMailbox`: the calls made in one run of a launcher are finitely many
  (`ClientsAssumption`). Only the bound on the ids needs it; the kinds of requests
  are among those the launcher knows (`MixesAssumption`).
- `GatewayBudget`: an int reaches beyond 200000, which is more than any sum of the
  constants in the code; parameters are ints, counts not negative, as
  `QJsonArray::size` is, and the client's own time-out positive, as its command
  line requires. 32-bit ints are one instance.
- `LogCollector`: the clock has a first value, a message has a size. Nothing is assumed
  of the limits: a message may be larger than the buffer.
- `LauncherSessions`: a client sees some of the registry directories, whichever.
- `Input`, `Scene`: an item has one parent or none, the content item of a window
  none; there are no circles of parents, and items are finitely many
  (`TreeAssumption`); of two items one was created first (`BirthAssumption`, the
  order of `childItems()` where the z values are equal). An initial scene has with
  an item what it is in (`LiveAssumption`) and with a window its content item
  (`ContentOfAssumption`). Nothing is assumed of geometry, stacking or which items
  take presses.
- `Selectors`, `UiQuery`: the nodes are finitely many, items and windows apart
  (`NodesAssumption`), without circles of parents (`ParentAssumption`). Initial
  scenes are such as an application may be in: an item lives in a living one, ids
  are unique (`ScenesAssumption`). What the application changes are items, the
  content of windows, and the windows stay (`ChangingAssumption`); an order is
  asked of numbers (`ConditionsAssumption`, `UI.waitFor` refuses others); a wait
  looks at one match at least (`BoundsAssumption`). Nothing is assumed of ids,
  names or source lines, nor of places in models and how they change
  (`OrdersAssumption` says only that each node has an entry), except in
  `SelectorsMean`: there `Unmistakable` is a hypothesis, three conditions under which the count of
  selectors sees what a query finds (`NotNested`, `NamedAlike`, `WindowLines`).
  That the instance of `query` satisfies it is checked by TLC (`Counts`); each is
  needed, see what the runs leave open.

### Dispatch

Of its safety properties none is inductive by itself. That operations exclude
each other depends on the debug thread's place: what executes is the call it
waits for or the one it has abandoned. That verdicts are true depends on what
each call's phase, flags and semaphore can be at each place and on which calls
are still in the event queue or on the stack. `IInv` states this, beside
`TypeOK` and `AnswersAreTrue`, in four parts:

- `DebugInv`: the debug thread's variables agree (it is idle exactly when no call
  is current, it never waits while an abandoned call is on record, a call it
  awaits as mutating was posted with mutations enabled, an abandoned call was
  answered "unknown", the grace period is only entered for a started call);
- `CallInv`: what executes is the awaited or the abandoned call, and the fields of
  one `GuiCallState` agree with each other and with the answer (completed only
  with a result, a result only when started, the semaphore released only after
  cancellation or completion);
- `QueueInv`: the queued lambdas are distinct, each is the current call, still
  `Queued`, or a cancelled one, and none has released its semaphore;
- `StackInv`: nested event loops notwithstanding, at most one lambda is on the
  stack; it is started and unreleased, whatever executes is it, and none is left
  once the application is destroyed.

The refinement maps `effect` to `phase` and `completed`, `verdict` to `outcome`
and `asked` to `current`; each action is shown to be an action of `CallOutcome` or
a stutter. `CallOutcome` promises safety only; that answers come is
`EveryRequestAnswered`.

### UI subscription

No flag by itself says who is at work, so `IInv` first ties the places of the two
threads together: `RunningInv` (what the GUI thread does tells whose request it
executes), `RequestInv` (at most one request is queued, and only while the debug
thread waits for it), `ResetInv` (a reset that overtook nothing meets no request).
Then `SubscribedInv` gives silence: who is subscribed or about to send was not
asked to be silent. `WatchesReachableScene` speaks of a subscription at rest and is
not inductive; `WatchInv` says at every moment where the walk is that will make
it true - queued, under way, or not needed - and `RefreshInv` that a pending flag
has its lambda in the queue. That a change needs no walk is shown per change: a
child of an item that is not watched is too deep as well or in a window that was
missed as well (`ChildComes`), and what goes with an item goes from both sides
(`SubtreeGoes`, which needs `WindowsInv`: no item is left without its window).

### Log

`BufferConsistent` is about a sum, and `append` is a loop: the byte count and the
search for a page are folds of the community modules over the entries. A fold over
a set of indices is unfolded one index at a time by `FoldExists` and `FoldRun`,
whose induction is over a set of numbers (`SetInduction`, `LeastMember`, from the
well-foundedness of `<`) since the prover cannot use the induction theorems of the
library. On them rest what later steps cite: `BytesAreSummed`, `BytesOfAppend`
and `BytesOfParts` on sums of sizes; `EvictedIsExact`, `FittedIsConsistent` and
`AppendEntryIsConsistent` on `append`; `MatchingIsLater` and `PageAdvances` on
pages. `IInv` is `BufferInv` (the buffer is consistent and of entries),
`SignalInv` (once the buffered entries have been asked for, events stay enabled; a
thread stores no entry before it has signalled the one before),
`NothingFallsBetween`, which is inductive with `SignalInv`, and `SeenInv` (whatever
a client was given is at or before its cursor). As what matches is after the cursor,
`PagesNeverRepeat` follows.

### MCP server

The handlers call each other, so an action is not one step but a composition.
Each handler operator has a lemma that it takes a sound server to a sound server.
`Sound(s, R, H)` has the calls in hand, `H`, as a parameter: taken off the queue
or just read, neither started nor answered. A handler that takes a call adds it to
`H`, one that starts or answers it removes it, and between events `H` is empty.
Its parts: `OneThing` (a command or a workflow, never both; every message with the
id of what is being worked on belongs to its call), `Queued` (queued calls are
distinct and unanswered), `Numbered` (no message has an id that is still to be
given), `Answered` (one answer, its own; a call without one is in hand or held).
Late responses are harmless by `Numbered` and `OneThing` together: an id is never
used again.

`TemporarySubscriptionEnds` needs a second invariant, `SubscriptionInv`. Between
calls the target is subscribed just when the client was told so and the server
knows it (`Settled`). During a call the one outstanding request, or its response,
tells what the subscription is (`Awaits`), and the phase of a workflow whether it
holds a temporary one (`Staged`). The property and the invariant speak of a
connection without trouble (`troubled`: a time-out, a failure in the target's GUI
thread, a refused unsubscribe), after which the server cannot know.

### Time-outs

Arithmetic: `Windows`, `Slack`, `Extra` and `Semantic` bound each part of a
time-out, and `ClientOutlasts` combines them for every kind of request. `IInv` adds
to the types only that a client has not given up before its deadline.

### Mailbox

What each property says of the end of a request's way depends on where the
request can be at all. `EarlyInv`: what is still in the mailbox has left no trace
behind it - nothing pending, nothing executed, no response. `IdInv`: an id stands
for one client wherever it is met, in the pending list and on both ways of the
connection. `TravelInv`: an agent request travels once, and not when it has been
executed. `ResponseInv`: what a response says was true when it was written and
stays so. `ResetInv` and `OrderInv`: whoever knows of a reload has its reset
before it on the connection. The bound on the ids in `TypeOK` is an invariant of
its own, `CountInv`: requests not yet handled and ids given are no more than the
clients, a matter of cardinalities.

The refinement of `RequestService` maps `standing` to where the call is and what
its response says, and `verdict` to what the client has read. Most steps are
stutters; asking is taking the lock, settling is writing a response, telling is
reading it or giving up. It needs `OutcomeInv` besides: the launcher answers by
itself only what it does not forward, and a reload it is in the middle of has no
response yet. A client that gives up is told nothing, and its request may still
be carried out: that is part of the promise, as it is of the code.

### Sessions

`LauncherInv` says what a launcher has on disk in each phase of its life: records
only when serving or killed, a target only after it listens, no runtime directory
after an orderly end. `DiscoveryInv` says what a client may still rely on after it judged
and while it moves: the session has ended, and who has its PID now was started
since. It is what makes `LivingSessionsAreKept`, a property of single steps, true
at each step of a cleanup that others interleave with. `since` names the case in
which it is not: see above.

### Input

A call is a list of steps, so `IInv` is about what is left of the list: `CallInv`
(it has steps of its method, in a window), `GestureInv` (a press that is left has a
release behind it), `DownInv` (what is down and not by hand is the button of the
current gesture, whose release is left). A gesture stops early only when its window
is gone, as that is all its events look at, and what was down in the window went
with it; that the target is gone does not keep it from releasing.
`GesturesSurviveDestruction` is inductive with these: a gesture
uses its window and nothing else.

`CoveringItemIsNotPressed` relates the walk of the occluder check, a recursive
function over the tree, to the order in which Qt delivers a press, which the walk
does not follow. The proof goes in four stages.

- *The recursive functions have values.* A recursive function of TLA+ is a
  `CHOOSE`; nothing is known of it before a function is shown to satisfy its
  equation. One is built along the tree: a set of items closed under parents (for
  `Ancestors`) or under children (for the walk and for scrolling) has a solution,
  and a largest such set is all items. Induction is over sets of items without
  circles, by well-foundedness, as in the log.
- *The order of painting is total among the items of a window.* Two items are
  either in line, or their lines part at two siblings that z, or else birth, tells
  apart; transitive by cases over where the lines part.
- *The receiver of a press is the topmost item that takes it.* What covers the
  target at a point takes presses, is above it in the order and is not in it. It
  lies under a sibling of the path that the walk looks at, and the walk finds it,
  or an item that covers the target in its place; so a target that was found
  actionable receives the press, or an item in it does.
- *Between the check and the first event nothing changes.* `CInv` says in which
  places of a call the check has been made, and that no application code runs
  between it and the event.

`TypeInv`, under `TypeCorrect`, needs what each step of each method leaves in
`call` and that scrolling moves every item of a content to a box: an induction
over the items in a flickable.

### Queries

`Above`, `Context` and `Delegate` are recursive along the tree as well. `ByParents`
is the general fact: for every value at the roots and every step from the value
of a parent to that of its child there is a function that follows them.
`AboveEquation`, `ContextIsPlace` and `DelegateIsPlace` are its three uses, and
`LineIsChain`, `SiblingsApart` and `BeforeIsOrder` make the order of the walk an
order without circles; so a non-empty set of matches has a first (`LastOne`), and
what `FirstOf`, `WithoutStyle` and `Outermost` leave of some matches is some of
them, and of one match that one (`QueryOfSome`).

`WaitIsTold` follows with `VerdictInv`: when a wait is answered its verdict is
what `EvaluateWaitCondition` says of the scene as it still is. It is inductive with
the types, since after the evaluation that is the last one no event loop runs.
That this verdict agrees with the matches themselves, although the wait looks at
some of them only and prefers the visible one, is `QueryOfSome` again.

`SelectorsMean` needs that what is offered is true, and stays so.

- *True* (`ClaimsAreTrue`, `SuggestedAreTrue`): of each kind of selector, that the
  count which allowed the offer is a count of all that a query would find. For
  composites that means that the place a node is annotated with, the place it is
  counted under and the place a query compares are one (`PlaceOfNode`,
  `FitsInPlace`), which `Unmistakable` provides. For instance numbers it is
  `OrdinalsDiffer`: no two living instances of a line with ids have the same
  ordinal.
- *Stays* (`MeaningInv`): what was offered fits its node, in the order that the
  models had (`Fits` is what a selector asks of the author's text and of a node's
  place in a model; an offer keeps the order it was made in), and goes on to do so
  in any order in which the node and what it is in have that place
  (`FitsStays`); nothing that the node is in fits, so that the outermost match is never one of these; the node and
  all it is in have their ids, so that no instance that comes later gets a smaller
  number; and the instance number is the node's until an instance of its line goes
  (`InstancesStay`). More than that need not stay: other nodes may come to match,
  and then a query finds more than one.

The proofs brought out three things about the model. A destroyed object must not
come back with its old id (`Create`): a new object is a new id, and with the old
one an ordinal would not have been stable under creation. An item does not live
without the one it is in, nor do two nodes share an id (`Scenes`, now part of
`TypeOK`). And the count of composites overlooks the objectName of a node that has
an id (`NamedAlike`): the hypothesis without which the proof did not go
through.

### Only model-checked

All liveness: `EveryRequestAnswered`, `ChangesAreReported`, `EveryCallAnswered`,
`QuitsAtEndOfInput`, `StopEndsSession`. Fairness and ENABLED are beyond the prover.
Every other property of a run that holds has its theorem.

## What is not modelled

- In `GuiDispatch` an operation starts and returns, may pump events and may
  never return; what inputs and queries do in between is `Input` and `UiQuery`.
  Since `OneOperationAtATime` holds, these have one call at a time.
- In `Input` and `Actionability`: modifiers, buttons, key names, transformations
  other than moving, and the evidence that goes with an answer. Qt's delivery of
  events is `Receiver`: the topmost item that takes presses.
- In `UiQuery`: the shape of answers (depth, pruning, collapsing, projected
  fields), Quick 3D children, the selectors that are offered as weak (text, type,
  path), box models. `UI.queryMany` is a sequence of queries.
- In `LauncherSessions`: symbolic links and ownership checks (they decide which
  files count), the exit report, and printed events.
- The target lease of `qmlagent-mcp`: a `QLockFile` per endpoint, whose exclusion
  and recovery are Qt's. The preview host's loader: it builds a new scene, which
  is an application change to every other module, and its answer is in
  `ControlMailbox`.
- Message sizes (`boundedResponse`, `Session.payloadDropped`) and parsing.
- In `UiSubscription`: an item that moves to another parent is one that is
  removed and added; objects that are not items are not in the walk.
- Memory orderings: the atomics are sequentially consistent by default, and
  where acquire and release are named they order what the model orders. The
  unlocked list `m_uiConnections` is different: two overlapping accesses leave
  any part of the connections (`Rewrites`).
- In `McpServer`: the lease, the recorded UI events, tools that answer without
  queue or connection, and the lines that follow `notifications/exit` in the same
  read.
- In `ControlMailbox`: symbolic links and malformed files (removed or answered
  with an error without further effect), and a target that could not be started
  at all, whose mailbox stays like that of a launcher that was killed.
- Diagnostics, source resolver, rendering, output formatting: stateless.

The hazards that no property covers yet are in `PROJECT.json`, each with its
reason.

## Plan

The order is by importance; all of these are modelled and checked, and have their
proofs (what is proved of `Scene` and `Actionability` is in `InputProofs`, of
`Selectors` in `UiQueryProofs`).

1. `GuiDispatch` and what it promises, `CallOutcome` - the core.
2. `UiSubscription`.
3. `LogBuffer`, `LogCollector`.
4. `McpServer`.
5. `ControlMailbox` and what it promises, `RequestService`.
6. `GatewayBudget`.
7. `LauncherSessions` - lifecycle, discovery and stale cleanup in one module,
   since their hazards are in what they do to the same files.
8. `Scene`, `Actionability`, `Input`.
9. `Selectors`, `UiQuery`.

Not begun: the reload of the preview host with the missed answer, composed with
`UiSubscription`; the recorded UI events of the MCP server.
