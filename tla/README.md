# golem-workers-relay: TLA+ specifications and proofs

The relay stands between a backend, which pushes user messages to it over
HTTP, and one OpenClaw gateway, where agents run. For each push it queues the
message, runs the agent, delivers the reply to the user's transport, and calls
the backend back with one outcome: `reply`, `no_reply` or `error`. Pushes come
again, calls fail or lose their answers, newer user turns supersede older ones,
tasks time out, and the process crashes and is restarted. The modules in this
directory say what the relay promises through all that, TLC checks it on small
instances, and TLAPS proves the central parts for every size. Beside the message
path the relay keeps an agent's login, nudges agents that fell silent, and
forwards the gateway's events; these have modules of their own.

The TypeScript sources are in `src/src/`; paths below are relative to that.

## Inventory

| component | state | operations | interacts by | hard parts |
|---|---|---|---|---|
| Task queue, `queue/inMemoryTaskQueue.ts` | FIFO array, counter of processors in flight, `accepting` | enqueue, removeQueued, stopAccepting, drain, pump | called by ingress, shutdown, self nudges; calls the processor | slots given back in any order, bound with withdrawal |
| Ingress and shutdown, `index.ts` | `shuttingDown` | onMessage with preemption, agent control, main | push server callbacks; queue; task control | supersession against work in every stage; drain |
| Message processor, `processor/messageProcessor.ts` | batches by session, task control registry | batches, processSingleMessage, reconciliation | runner, backend, store, tracker | races of result, abort and timeout; failed callbacks; exactly one outcome |
| In-flight store, `processor/inFlightTaskStore.ts` | one file per message id | upsert, updateRun, remove, list | processor, chat runner | crash between any two steps; a repeated push shares the file |
| Delivery tracker, `relayChannel/transportDeliveryTracker.ts` | receipts by message and by session, active messages | begin, recordSdkDelivery, getSdkDelivery, clear | processor; control plane server | partial evidence, several messages of one session |
| Backend client, `backend/backendClient.ts`, `common/resilience/` | circuit breaker | submissions with retries | everyone who reports | breaker shared by concurrent calls, repeated POSTs |
| Gateway client, `openclaw/gatewayClient.ts` | socket, pending requests, reconnect timer | start, request, close, stop | runner, forwarder, reporter | stale timers and sockets, requests across reconnects |
| Status reporter, `openclaw/connectionStatusReporter.ts` | last status, timers | connected, disconnected | gateway client; backend | reports out of order |
| Chat runner, `openclaw/chatRunner.ts` | waiters, active runs, maintenance lock | runChatTask, abort, new session | gateway events and transcript; processor | events before and after their waiter, repeated pushes, retries |
| Event forwarder, `openclaw/gatewayEventForwarder.ts` | one state per run with buffer, timers, send chain | forward, closeRun | gateway events; chat runner; backend | overlapping flushes, deletion under a flush |
| Agent lifecycle, `agentLifecycle/` | durable outbox, sequence numbers | observe, publish, acknowledge | runner; backend | crash between append and publish |
| Push server, `push/pushServer.ts` | rate window, requests in progress | accept or refuse a push | backend; ingress | counters on every way out |
| Conversation index, `conversation/` | JSON index, notification claims | record, claim, complete | ingress; processor; nudges | read-modify-write across awaits |
| Self nudges, `openclaw/selfNudgeRunner.ts` | schedule, processed records and their file | tick | queue; gateway; activity index | a verdict four awaits after its transcript; crash around its record |
| Agent control, `agentControl/` | the login in six places, queue of mutations, device login | control actions | push server; the gateway's service | half-done mutations, rollback, restarts in between |
| Relay channel, `relayChannel/` | websocket sessions | actions of the plugin | plugin; transports | - |
| Proxies, approvers, media, diagnostics, configuration | little | - | - | - |

What makes each correct is stated by the properties of its module. The list of
hazards in `PROJECT.json` says which line each property is about.

## Modules

| module | models | proofs |
|---|---|---|
| `TaskQueue` | the queue | `ProcessorProofs` |
| `TaskPipeline` | ingress, batches, processor, record, shutdown, crash, reconciliation | `TaskPipelineProofs` |
| `MessageContract` | what the backend may count on about each push (abstract) | |
| `DeliveryTracker` | tracker, with processor and control plane as its users | `ProcessorProofs` |
| `GatewayClient` | the websocket to the gateway: handshake, start loop, reconnects, callers, timers | `GatewayClientProofs` |
| `LifecycleRelay` | agent lifecycle: encoder, outbox, publisher, source generations, reconciliation, crash | `LifecycleRelayProofs` |
| `ChatRunner` | chat tasks on the gateway: sends, waiters, transcript, retries, aborts, rotation | `ChatRunnerProofs` |
| `EventForwarder` | one run's chat events on their way to the backend | `EventForwarderProofs` |
| `SelfNudge` | the self nudge's tick, await by await, with its store and notices | `SelfNudgeProofs` |
| `CodexAuth` | the agent's OpenAI login, its mutations and device logins | `CodexAuthProofs` |
| `MC...` | small instances | |

The modules stand side by side where the code's components meet only through
a call whose outcome is open: a run of `TaskPipeline` may end in any way, which
covers whatever `ChatRunner` and `GatewayClient` do behind it; the two calls of
`ChatRunner` are pushes that `TaskPipeline` has started; and
`LifecycleRelay` is told of connections and disconnections in any order that
`EmittedTruly` allows.

### TaskQueue

The array is a set `waiting` with an order `before`, which lets an item be
withdrawn from the middle without renumbering. `running` is a history of the
processors whose promise is unsettled; the code keeps only the counter
`inFlight`. An action is what the code does between two awaits, so `pump()` is
inside `Enqueue` and `Settle`. `Enqueue(x, S)` withdraws `S` in the same step,
because `onMessage` calls `removeQueued` and `enqueue` without an await.

### TaskPipeline

A *delivery* is one push request, a *message* a backend message id; pushing a
message again is a second delivery. `stage[d]` is the point of
`processSingleMessage` (or of the queue or batch before it) that `d` waits at:

    unsent -> refused
    unsent -> queued -> dropping -> released            (preempted in the queue)
                     -> batching -> merged -> released  (answered "batched")
                                 -> flushing -> starting
                     -> starting -> recorded -> running -> delivering -> replying
                                                        -> reporting
                                                        -> aborting -> failing
       replying, reporting -> closing -> removing -> released
       any failure         -> failing -> removing -> released, or released
    everything unsettled   -> lost                      (the process ended)

| action | code |
|---|---|
| `Push` | `index.ts` onMessage with `preemptSessionForUserOwnedTurn` and `enqueue` |
| `AbortTask` | `abortActiveChatTaskByBackendMessageId` |
| `DropAnswered`, `DropFails` | the fire-and-forget callbacks of withdrawn tasks |
| `FlushBatch`, `MergedAnswered`, `MergedFails`, `BatchReady` | `enqueueChatBatch`, `flushChatBatch` |
| `OtherWork`, `EventDone` | handshake, session_new; transport_event |
| `WriteRecord`, `StartRun` | `upsert`; register, `tracker.begin`, `runChatTask` |
| `RunEnds`, `RunThrows`, `TimeOut`, `AbortDone` | `Promise.race` and its catch |
| `Delivered`, `DeliveryFails` | `maybeDeliverRelayChannelReplyDirectly` |
| `Answered`, `AnswerFails` | `submitInboundMessage` with the outcome |
| `CloseRun`, `ErrorAnswered`, `ErrorFails`, `RemoveRecord`, `RemoveFails` | finally, outer catch, removal |
| `StopAccepting`, `DrainSeesEmpty`, `Exit` | the end of `main` |
| `Crash`, `Restart`, `Reconcile...` | process death; `reconcileDurableInFlightChatTasks` |

A call that fails may or may not have reached the backend; both are modelled,
and `doubt` remembers the deliveries the relay can no longer answer exactly
once: those whose callback's answer was lost, and those answered while their
record stayed on disk. What the agent does is open: a run may end in any way at
any time or never within the model's steps.

Left out: the low-disk alert and the compaction notice (submissions of their
own that never fail the task), media, metadata and logging. The drain's timeout,
after which the shutdown goes on with work in flight, is covered by `Crash`.
The callbacks of `DropFails` need no slot and no record.

`MessageContract` is the abstract view: a push is unsent, refused, open,
answered, kept (on disk, to be answered later) or silent. `TaskPipeline`
implements it (`ContractImplemented`) and uses the queue as `TaskQueue` says
(`QueueImplemented`), both by refinement mappings at the end of the module.

### DeliveryTracker

The plugin may have sent a run's reply itself and tells the relay so, naming
the message, the session, or neither. A receipt in the model also carries whom
the plugin really sent for, which the code cannot know. `evidence`, chosen in
the initial state, says how good the plugin's evidence is: whether it sends
after the run was released, and whether it may name nothing. `FiledTruly` and
`NothingLeftBehind` say what the tracker achieves when it does neither.
`TrackerInit`, `TrackerNext` and the like carry the tracker's name because
`ProcessorProofs` extends this module and `TaskQueue`.

Unscoped evidence is credited to the one session with a single active message,
even while another session has two: such sessions are dropped before the count
(`transportDeliveryTracker.ts:52`). Nothing in the repository promises more, so
it is noted here and not among the disagreements.

### GatewayClient

`ws` is the socket `this.ws` points to and how far it is; a socket the client
has given up is gone from the model, but the connect requests it left in the
pending table are counted in `stale`, because their timers still act on
whatever socket the client has by then. The three fields `readyPromise`,
`readyResolve` and `readyReject` are one variable; a promise that is no longer
in the field cannot be settled, and whoever waits for it is `orphaned`.
Continuations of settled promises run before the next event (`Quiet`), in any
order among themselves. Time is left out: an armed timer may fire at any moment.

| action | code |
|---|---|
| `CallStart`, `CallRequest`, `Resume`, `Reply`, `RequestTimeout` | `start`, `ensureReady` and `request`, up to their awaits |
| `StartOnce`, `LoopResolves`, `LoopRetries`, `LoopWakes`, `LoopGivesUp` | `startOnce`, `runStartLoop` |
| `Open`, `WsOpens`, `Closed` | `open` and the socket's handlers |
| `SendTimerFires`, `Challenge`, `SendConnect` | `sendConnectIfNeeded`, after 50 ms or upon a challenge |
| `ConnectAccepted`, `ConnectFails`, `StaleConnectTimeout`, `OnConnectError` | the answer to connect, its timer, `onConnectResponse`, `onConnectError` |
| `ReadyTimeout`, `ReconnectFires`, `Watchdog` | `armConnectReadyTimeout`, `scheduleReconnect`, `startTickWatchdog` |
| `StopCalled`, `Stop` | `stop` |
| `Drops`, `DialEnds` | external: the gateway or the network ends the socket |

Left out: frames other than the connect answer and a request's answer, the
backoff's length, and payloads. Two things a reader may trip over and that no
property excludes: a start loop that runs out of attempts stops the client even
if it has been connected before, and only the next call starts it again; and
`stop()` leaves `hello` set, which is harmless at the one place that calls it.

### LifecycleRelay

The relay mirrors the gateway's runs to the backend as events that are numbered
within a *generation*. Everything in `createAgentLifecycleRelay` runs on one
promise chain: `queue` is what is chained, `at` the call the present operation
waits for, `then` the place in the code that the call returns to.

| state | code |
|---|---|
| `store`, `outbox` | the files of `sourceStore.ts` and `outbox.ts`; they survive `Crash` |
| `current`, `loaded`, `retry`, `connected` | `current`, `initialized`, `retryTimer`, `connected` |
| `encSeq`, `encRun` | `sequenceByGeneration` of the present generation, `currentByScope` |
| `response`, `todo` | the checkpoint a registration returned, the corrections still to do |
| `beGen`, `beSeq`, `beActive` | external: the backend's generation, its last number, its active runs |
| `doubt` | history: known ways in which the code leaves the view wrong |

| action | code |
|---|---|
| `Connect`, `Disconnect`, `RetryFires` | `handleGatewayConnectionStateChange`, `scheduleActivationRetry` |
| `TakeFrame`, `EncodeFrame` | `processFrame`, before and after an activation |
| `TakeActivation`, `Activate`, `Rotate` | `activateConnected`, `activateGeneration` |
| `Register`, `RegisterFails` | `registerCurrent` and the registration of a bootstrap |
| `Submit`, `SubmitGap`, `SubmitFails`, `SubmitRejected`, `Drained`, `AfterDrain` | `drain`, and what its five callers do with the result |
| `Query`, `QueryFails`, `Correct`, `Corrected` | `reconcile` with `planAgentLifecycleReconciliation` |
| `Crash` | process death, perhaps while the backend has a call |

RUNNING and WAITING are one status, as are the three final ones; a session has
one run at a time. The gateway may report a move in an `agent` and in a
`sessions.changed` frame; the model has one frame for a move, since the encoder
drops a repetition that follows it. The backend is modelled from what the code expects of it:
one active generation, events in sequence, a gap refused with
`AGENT_LIFECYCLE_SEQUENCE_GAP`, anything older accepted without effect. The
order of the outbox is the order of enqueueing: file names start with the
clock, which is taken not to go back. Left out: quarantine of unreadable files,
`maxBytes`, the identity check of the server, the page limit of the query, and
that frames name a session by its key where the reconciliation uses its id.

Five reasons for a wrong view are in the code and known (`doubt`): an event the
outbox refused, one the backend rejected for good, a query that failed (logged
as deferred, repeated by nothing), a backlog replayed after the checkpoint was
taken, and a session's newer run overwritten by the seed of an older one. Each
lasts until the next fresh generation. `SettledView` and `ViewCatchesUp` say
that there is no sixth.

### ChatRunner

A *call* is one `runChatTask()`; two calls of one message are a repeated push.
The gateway is external: it gives an idempotency key the run it has for it, or a
new one, and lets a session's runs take their turn. A transcript is the sequence
of exchanges: whose user line, is it answered, in which file. Time is left out,
so an armed timer may fire at any moment.

| action | code |
|---|---|
| `Begin`, `Send`, `SendReturns`, `SendRetries`, `SendFails` | `runChatTask` up to the run's id, with `buildAttemptIdempotencyKey` |
| `Wait`, `Event`, `PollSees`, `PollSettles`, `TimesOut`, `TimeoutRetries` | `waitForFinal`, `handleEvent`, the transcript poll and the timeout |
| `Disconnects`, `AbortTask` | `handleGatewayConnectionStateChange`, `abortTask` |
| `Recovers`, `Released`, `GivesUp` | recovery from the transcript, the release of completed runs |
| `Rotation...`, `Unlocks` | `startNewSessionForAll` under the maintenance lock |
| `GatewayTakes`, `RunBegins`, `RunSpeaks` | external |

Two branches of the code cannot be reached and are not modelled beyond showing
so: the continuation after an empty final (1610-1755; `waitForFinal` never
settles with one, `EmptyFinalNeverSettles` says so) and the handling of
`GatewayRunDisconnectedError` (1951-2042). A session without a transport-backed
key has no transcript baseline, so `ReplyIsOwn` is stated for those that have one.

### EventForwarder

One run. The text of an event is cumulative, so it is a number of words. The
state of the run is an *object* that its timers and its send chain hold on to,
while the map of runs (`cur`) may have lost it and have a newer one: timers and
dead letters act by the run's id, and so may hit an object that is not theirs.

| action | code |
|---|---|
| `Receive` | `forward` |
| `DebounceFires`, `LooseFires`, `DeadLetterFires`, `CleanupFires` | the four timers; `LooseFires` is one whose handle was dropped |
| `Flush`, `Signalled`, `Recovered` | `flushBufferedSignals`, cut at its awaits |
| `SendsLetter`, `LetterSent` | `deadLetterUncorrelatedState` |
| `Closed` | `closeRun` |
| `TraceKnown`, `TraceGone`, `Replies` | external: what the chat runner knows of the run |

What a flush has still to signal is a set, sent in the order of the numbers
(the code sorts it once, `gatewayEventForwarder.ts:299`); the gateway gives each
event of a run a number of its own (`ForwarderAssumption`), and a delta that is
sent again is the same event again.

What the model shows that nothing in the code promises: a dead letter's content
is fixed before its submission ends, and what arrives meanwhile is deleted with
the run; `closeRun` drops the debounce and leaves buffered deltas; a failed
recovery counts as delivered; a terminal that is replaced while it is submitted
marks the newer text as delivered. `NothingDropped` and `BeliefIsTrue` name
these exceptions (`excused`, `blurred`) and say there are no others.

### SelfNudge

One session. The transcript is the number of its latest request and of the
agent's messages after it; the waits before a judgement are one flag `due`. A
tick is cut at each await (`pc`), so that turns begin, work and end at the relay
(`local`) or at the gateway alone (`remote`) between any two of its steps.

| action | code |
|---|---|
| `Tick`, `Listed`, `HistoryRead` | `tick`, `readFreshestOpenclawRuntimeTranscript` |
| `LooksUp` | `processedStore.get` and the comparison of fingerprints |
| `Asked`, `ConfirmedBefore`, `Concludes` | the two `confirmIdle()`; the second goes with the verdict |
| `Decides`, `FindsFinality` | the model's answer; `findVisibleFinality` |
| `Saves`, `Notifies`, `SavesNotice`, `NotifiesNudge` | `markAnalyzed`, `notifyFinalDecision`, `markFinalNoticeSent`, the nudge's notice |
| `Crash` | process death; the processed file and the gateway's runs survive |

`Concludes` enqueues a nudge before it is on file, so a crash or a failed save
in between repeats it: `nudged` forgets exactly those. A tick that throws is
logged and the timer is not set again (`selfNudgeRunner.ts:221`): the loop is
`dead` until the process starts again, and `StalledTurnIsJudged` leaves that out.
A verdict `closed` (`final_answer` at a confidence of 90 or less) needs no
evidence in the code and has none in the model. A notice is sent after its
verdict is on file; when the process dies in between it is never sent.

### CodexAuth

A login is a bundle of tokens kept in six places. Import, sync, clear, the auth
mode and the end of a device login are mutations, one at a time with the gateway
stopped around each; `Order` is the order in which each writes, `Kept` what it
can restore. Device logins run in the background; `model.set` reads and writes
the same config, `gateway.restart` may come in between.

| action | code |
|---|---|
| `Import`, `Sync`, `ClearOrSet`, `StartLogin` | the control actions |
| `CodeGiven`, `Authorized`, `LoginFails` | a device login |
| `Takes`, `Stops`, `StopFails`, `Begins`, `BeginFails` | `runCodexAuthMutationWithGatewayPaused`, the checks before the first write |
| `ReadsConfig`, `Writes`, `WriteFails`, `Undoes` ... | the writes and `restoreFileSnapshots`, `restoreCodexRuntimeAuthStore` |

`torn` remembers the known reasons for the places to disagree: a login or clear
that failed half-way (neither has a rollback), a failed rollback or a process
death, a restart in between, a stale config written by `model.set`. An import
leaves the marker of the last sync, so that after a failed rollback a sync that
was never applied can pass for `up_to_date`. A process that dies with the
gateway stopped leaves it stopped (`abandoned`). Left out: the expiry of a
bundle, token refresh, export, `config.apply`.

## Runs

| run | bounds | shows |
|---|---|---|
| `TaskQueue` | 5 items, 2 processors, 2 places | FIFO, no idle slot beside a waiting item |
| `PipelinePreempt` | 3 deliveries in one session, 1 processor, 1 fault | supersession, aborts, refinement of the queue |
| `PipelineRepeated` | 3 deliveries of 2 messages, one a handshake, 2 processors, batching, 1 crash | repeated pushes, no circle of waits, refinement of the contract |
| `PipelineCrash` | 2 deliveries, 2 processors, batching, 1 fault, 1 crash, fair | one outcome, records, batches; liveness: chat turns are answered, recorded tasks are answered after a restart |
| `Tracker` | 3 messages, 2 of them in one session, 3 sends, any evidence | receipts: what holds for any evidence, and for scoped evidence |
| `GatewayClient` | 1 starter, 1 requester, 2 attempts, 2 stale timers, fair | the client's fields agree, reconnects are scheduled, calls return unless the loop is orphaned |
| `Lifecycle` | 2 runs in one or two sessions, 2 pending events, 3 mishaps, fair | the backend's view is right at rest and catches up, nothing is lost from the outbox |
| `ChatRunner` | 2 calls and 1 failure, or 1 call and 2; 2 runs, 2 events each, fair | waiters, runs and transcript candidates are not mixed up; calls return |
| `CodexAuth` | 2 bundles of 2 profiles, 1 device login, 2 requests, 2 failures, fair | the places agree whenever a gateway runs, versions go up, the queue comes to rest |
| `EventForwarder` | 3 events, 1 repeated, 2 objects, 1 buffered delta, fair | signals go up, nothing is dropped silently, the run is released |
| `SelfNudge` | 2 requests, 1 message after each, 2 errors or crashes, fair | no second nudge or notice, closed only with evidence; a stalled request is judged |
| `LateText` | as `EventForwarder`, wired as in `index.ts` | a disagreement, below |

Three deliveries are the smallest number that gives a batch of two with a
newer turn behind it, or a preempting, a preempted and a waiting task; the
crash run makes do with two because it carries the liveness properties. One
fault and one crash give every two-step failure the code has to survive (lost
answer then error callback, crash then failed reconciliation; a failed merged
item is a second death of the process). A liveness property that needs the
calls to succeed has the fault among its conclusions, so one run asks it of
behaviours with and without faults.

The gateway run needs one caller of each kind: a starter and a requester
already join, reset and restart each other's promise, and two attempts are the
fewest that leave one to retry. Two stale timers let one fire while another is
left. A *mishap* of the lifecycle run is a call that fails or whose answer is
lost, a disconnection or a crash; three of them give each failure of a recovery
from a failure (an event lost in a disconnection, a crash while it is replayed,
a failed registration after the crash). `MaxGen` 7 is above what three mishaps
and two runs can use up before a registration would be held back.

Two calls of the chat runner are enough for one to take what is the other's
(its waiter, its run, its transcript lines), and two runs give a retry a run of
its own; a rotation needs no call. Two bundles of different profiles make a
place that was not written, or not restored, visible, and two failures give a
failed rollback. Two objects of the forwarder are one that was deleted and the
one that took its place; three events are one before the terminal event, the
terminal event and one after it. Two requests of the self nudge are the judged
one and the one that comes in between; two errors or crashes give a crash
after an error.

Runs stop where all pushes have been made and settled, all requests used up, or
the bound on failures reached, so TLC's own deadlock check is off. What it would
look for in the pipeline is a property instead: `NobodyWaitsInACircle` says that
whenever a delivery is queued or holds a slot, one that holds a slot has its turn,
that is, waits for nothing but its own calls (and likewise the records of the
reconciliation).

### Disagreements found

The first has a run of its own. The others are stated by properties that stay in
their modules and fail with the constants named; no run asks them again.

* **Text after the reply is never recovered** (`LateText`). README.md:338 says
  that late user-facing text is delivered through recovery callbacks. The
  forwarder does so only after `closeRun`, whose only caller,
  `closeRunForwarding` (`chatRunner.ts:1236`), is called nowhere. The other
  properties of the forwarder are checked with the wiring its tests use.
* **A failed "batched" callback can end the process** (`NoUserTurnForgotten` of
  `TaskPipeline`, constants of `PipelineCrash`).
  `flushChatBatch` rejects the merged item's promise, nobody handles the
  rejection, and Node ends the process. Accepted user messages that wait in the
  queue or in a batch have no record yet and are never answered.
* **A receipt of another message of the session withholds a reply**
  (`OnlyOwnReceiptsCount` of `DeliveryTracker`): `getSdkDelivery` falls back to
  the session's receipt.
* **Two requests after a lost handshake can wait for ever** (`CallsReturn` of
  `GatewayClient`, two requesters).
  A resolved ready promise can outlive its socket. Of two requests that resume
  from it, the first starts a loop with a new promise and the second drops that
  promise (`gatewayClient.ts:315`) and joins the loop, which nothing can settle
  any more. `CallsReturnUnlessOrphaned` says it is the only hang.
* **A timer of a given-up socket closes a healthy one** (`ClosedOnlyForMissedTicks`
  of `GatewayClient`).
  The connect request of a socket that the 5 s ready timeout gave up keeps its
  15 s timer; `onConnectError` then clears `hello` and terminates the socket in
  use, although the README says that only missing ticks close it.
* **An event number is given twice** (`NumbersGoOn` of `LifecycleRelay`). The
  generation is on disk and the encoder's sequence is not. After a restart, with
  the replay or the registration deferred, the next event gets number 1 of the
  old generation again: the outbox refuses it or the backend drops it as a
  duplicate.
* **A message can run twice at a time** (`OneRunAtATime` of `ChatRunner`, one call
  and one failure). `chatRunner.ts` means to "keep the same idempotency key for
  blind retries"; after a transport interruption the key gets a suffix and the
  attempt's number, so that a send whose answer was lost starts a second run.
* **A request is closed on another session's delivery** (`ClosedOnlyWhenShown` of
  `SelfNudge`, `Routed` FALSE). For a session that the activity index does not
  know, `findVisibleFinality` (`index.ts:848`) falls back to the best route of
  any session; `selfNudgeRunner.test.ts:1335` is "does not close a turn on
  private final text without visible finality evidence".
* **The gateway is started on half a login** (`StartedOnlyWhenAgreed` of
  `CodexAuth`, constants of `CodexAuth`). README.md:218 says it is started "only
  after the session pins and credentials agree"; it is started after every
  mutation, also one that failed half-way without a rollback.

`docs/transport-bug-hunt.md` also says that restart recovery of a request in
flight is not implemented; `reconcileDurableInFlightChatTasks` does it, and the
model has it.

## Fairness

`FairSpec` assumes weak fairness of every step of an accepted delivery, of the
debounce timers, of the restart and of the reconciliation. The code justifies
it: every backend call has a timeout and a bounded number of retries, a silent
run is ended by the sliding task timeout, the debounce timer is set whenever a
batch has an item, and the service is installed with `Restart=always`
(`scripts/setup.sh`). Pushes, aborts, shutdown and crashes are not fair. A run
that keeps reporting activity for ever would extend its timeout for ever; the
fairness excludes that.

`GatewayClient`: continuations are weakly fair, for JavaScript runs them.
Timers, a dial (which has a handshake timeout) and the close event of a closing
socket are strongly fair: continuations hold them up, so they are not enabled
all the time, but never for ever. The gateway owes nothing: it may leave a
connect or a request unanswered.

`LifecycleRelay`: the promise chain goes on, because every backend call and
gateway request has a timeout; an armed retry timer fires; and the gateway
client, once connected, connects again (`ReconnectScheduled`). Runs need not
start or end.

`ChatRunner`: the relay's own steps run, its timers fire, and every request to
the gateway has a timer; the gateway owes nothing. `CodexAuth`: the chain of
mutations goes on, since every command has a timeout, and a device login has a
deadline. `EventForwarder`: timers fire and submissions end. `SelfNudge`: timers
fire and what a tick awaits ends, well or not; turns need not begin or end.

## Proofs

Those of the pipeline are for arbitrary finite sets of deliveries, any sessions
and kinds, any positive concurrency and queue bound, batching or not, any number
of faults and crashes (`PipelineAssumption`), those of the queue for any finite set
of items and any positive concurrency and bound (`QueueAssumption`); those of the
gateway client for any callers, any positive number of attempts and any bound
on stale timers (`GatewayAssumption`); those of the self nudge for any number of
requests, messages, errors and crashes, with and without notices
(`NudgeAssumption`); those of the tracker for any finite set of messages, any
sessions and any evidence (`TrackerAssumption`, which only adds that the absence
of a receipt is not a receipt); those of the lifecycle relay for any runs and
sessions, any capacity of the outbox, any number of generations and mishaps
(`LifecycleAssumption`, which keeps apart a frame, an activation, a source and
`None`); those of the chat runner for any calls, messages,
failures, attempts, runs and events (`ChatAssumption`); those of the forwarder
for any finite set of events with different numbers, any number of objects, any
size of the buffer, wired or not (`ForwarderAssumption`); those of the login for any
bundles, profiles and device logins, any number of versions, requests and failures
(`CodexAssumption`, which keeps them apart from `None`).

* `ProcessorProofs`, of the two services that the processing of messages stands
  on, each by itself:
  - the queue: types, `SlotAccounting`, `QueueBounded`, `WorkConserving`,
    `OldestFirst`. The invariant joins the first four: a processor that starts
    adds exactly one to the set only because what waits and what runs are
    disjoint, and `Pump` finds at most `Concurrency` free slots only because the
    counter does not exceed it. The argument is the cardinality of what `Pump`
    starts.
  - the tracker: types, `NamedReplyIsNotRepeated`, `FiledTruly`,
    `NothingLeftBehind`, and `GuessNeverOverwrites`. The invariant adds that a
    message is active, in its own session only, exactly while it is tracked
    (`ActiveInv`), and that a session with a receipt has a tracked message
    (`ScopedInv`); scoped evidence then touches only the message it is about
    (`ReportedScoped`), for a guess goes to the one active message of the session
    and the message sent for is active.
* `TaskPipelineProofs`, in six parts:
  - types and `SlotAccounting`. `SlotInv` is inductive by itself: each step
    either moves a delivery within the stages that hold a slot, or releases one
    and pumps.
  - `OneOutcome`, `RecordedUntilAnswered`, `ReleasedIsUntracked`,
    `DrainedStaysEmpty`, `AbortedNeverReplies`. `OneOutcome` is not inductive:
    that an outcome is the first one depends on where the delivery stands
    (`UnansweredBefore`, `AnsweredAfter`), and for the reconciliation on which
    records can be on disk (`RecordsAreWritten`, `LeftBehindIsUnanswered`).
    `AbortedNeverReplies` needs `AbortedFail`: an aborted task can only be on its
    way to the error callback.
  - `NewestTurnWaits` and `BatchesHaveTargets`, each inductive with the types.
    All but three kinds of step are `Quiet`: they queue and merge nothing, and
    leave no merged item behind; a push, a flush and the end of a batch are
    looked at one by one.
  - the two refinements, which TLC checks on small instances as
    `QueueImplemented` and `ContractImplemented`. `PipelineIsQueue`: most steps
    are `Unseen` by the queue; a push is its `Enqueue` with the withdrawal of
    what the push preempts (`PushQueues`), a release its `Settle`
    (`WorkQueues`). The one fact to add is that only pushed deliveries stand in
    the order (`OrderInv`). `PipelineKeepsContract`: what a step may do is
    split into what it writes (`Books`: an outcome goes to a delivery at work,
    or to one the reconciliation takes up, that has none or is in doubt; a
    record comes from a delivery at work) and where it moves a delivery
    (`Onward`: what has settled stays so). Every pair of standings such a step
    can connect is a step of the contract or none (`StandingStep`);
    `OneOutcome`'s invariant excludes the rest.
  - what the refinement gives the whole (`PipelineIsFair`): no slot is idle in
    front of a waiting delivery, and the oldest starts first. Since the pipeline's
    counter is known to be right, it is enough to follow the queue's steps in
    the mapped state.
  - that the waits of the queue, the batches and the reconciliation never form a
    circle (`NoCircleOfWaits`). Each of them takes the oldest, or the newest, of
    some deliveries; that there is one rests on the pushes being ordered: `Orders`,
    kept by `NextOrders`, since a push comes after every earlier one. A finite
    ordered set has a first element (`FirstExists`: of the sets of elements before
    a given one, a smallest is taken by the library's well-founded order on finite
    sets). With `SlotAccounting` and the fairness of the queue, what is queued
    leaves some slot held, and a held slot belongs to a delivery with a turn, or
    to a batch in which one has it. The same lemma, applied to the largest front
    part that is not too large (`FirstFewExist`), shows that `Pump` can always
    choose (`PumpNeverBlocks`): no step of the model is disabled by it.
* `GatewayClientProofs`: types, `ReadyHasSocket`, `EmittedTruly`,
  `ReconnectScheduled`, `LoopAwaitsAttempt`. They are proved together, since
  each handler relies on the others' fields, with two facts added: the loop is
  told of a failure only while the client is not ready (`RejectedNotReady`), and
  a stopped client has no loop (`StoppedHasNoLoop`). The types need that a loop
  that sleeps has an attempt left (`CounterInv`).

* `SelfNudgeProofs`: types, `ClosedOnlyWhenShown` (for a session the index knows,
  `Routed`), `ClosedStaysClosed`, `NudgedOnce`. The first needs that a tick with
  a final decision has its evidence already (`ShownInv`), since a delivery that
  comes later cannot be taken back but a transcript can be overtaken. The second
  needs that a closed record on file is closed in the cache and that no tick
  judges a closed one (`FileInv`). The third needs that records are not later
  than the transcript they are compared with (`PastInv`, `SnapInv`), and that
  every nudge is in the cache, and on file but for the one being saved
  (`NudgeInv`).
* `LifecycleRelayProofs`: types, `RegisteredFirst`, `LeavesWhenTaken`,
  `SettledView`. The invariant relates memory, disk and backend: the source in memory is the one on
  disk once that has been read, a registered one is the backend's active
  generation (`SourceInv`), nothing pending is of a later generation than the one
  on disk (`OutboxInv`), and each await of an operation knows its source
  (`ControlInv`). It outlives a crash because no event is numbered before its
  generation is on disk, and a registration whose answer is lost leaves a
  generation that is not marked as registered.

  `SettledView` is about a relay at rest, and its invariant (`ViewInv`) says what
  holds on the way there. Unless a doubt remains or an activation is still due
  (`Due`), either the answer of a registration is being compared with the runs,
  and then backend and encoder have begun anew (`FreshInv`, which is what makes
  the comparison worth anything), or nothing has been missed (`TracksInv`). That
  is said of the *goal*: what the backend will know once the outbox and the
  corrections have reached it. The encoder's last word on a session agrees with
  the goal, the start of every live run is the encoder's last word or waits in
  the queue, and the end of every run that is in the goal and over waits there
  behind its start. It rests on four invariants of its own: generations and
  numbers that are used once (`GenInv`), nothing known of a run that is not true
  of it (`KnownInv`), where corrections and a frame can be (`PlaceInv`), and the
  order in which the queue speaks of a session since the last connection
  (`OrderInv`). Submitting an event leaves the goal alone (`ViewSubmitted`),
  encoding one and queueing one change it exactly by that event (`ViewJoined`).
* `ChatRunnerProofs`: types, `WaitersMatch`, `ReplyIsOwn`, `WaitingRunIsListed`,
  and that the continuation after an empty final is dead code
  (`EmptyFinalNeverSettles`). The waiter table, the run a call has been given and
  the gateway's keys must fit (`OwnRun`, `OwnWaiter`, `KeyInv`): a reply is the
  call's own because an event settles only the waiter of its run, a run belongs
  to the message in its key, and a transcript candidate is taken from the lines
  after the call's baseline, where each run has written at most one (`OwnText`,
  `ScriptInv`). The rotation is a caller in the same table and has its own
  part (`RotationInv`).
* `EventForwarderProofs`: types, `NothingDropped`, `BeliefIsTrue`,
  `SignalsIncrease`. `NothingDropped` is not inductive, since a deletion takes
  the buffer with it; `BufferInv` says that what is buffered has been accounted
  for before anything can delete the run: its own clean-up or letter, or a timer
  or chain of an object deleted earlier. `BeliefIsTrue` needs that nothing is
  recovered before the reply (`ReplyInv`) and that a call under way is for
  the object in the map if it is that object's (`MapInv`), which with the
  numbers a flush leaves out also gives `SignalsIncrease`.
* `CodexAuthProofs`: types, `GatewayRunsAgreed`, `StatusIsTrue`,
  `MarkerIsEarned`, `SyncMonotonic`. `GatewayRunsAgreed` speaks of a gateway that
  runs; its invariant of every moment of a mutation. What the last write will not
  settle is `Unsettled`; without any of it every place written so far holds the
  new login; the snapshot that a guarded mutation may restore agrees in itself,
  and a mutation that is not about the login leaves it as in the snapshot
  (`AgreeInv`). A gateway that is up during a mutation was
  started in between, and that is remembered (`GatewayInv`). `model.set`, a
  restart and the pinning of a session can fall anywhere and are looked at once
  (`ComesBetween`). `StatusInv` follows the bundle of the last device login to the
  end of its mutation; `VersionInv` says that the marker a sync is compared with
  is the one it overwrites, and `MarkerInv` where a marker comes from.

Proved and no longer asked of a run, as the proofs cover every size: the types,
`SlotAccounting` and `QueueBounded` of the queue, the types and `SlotAccounting` of the pipeline,
`DrainedStaysEmpty`, the types and `LoopAwaitsAttempt` of the gateway client, the
types of the self nudge, the types and `GuessNeverOverwrites` of the tracker, the
types of the lifecycle relay, the types and `EmptyFinalNeverSettles` of the chat
runner, the types and `MarkerIsEarned` of the login. The types of the forwarder
are proved only.

Only model-checked: the liveness properties (temporal reasoning under fairness
is outside the prover's reach).

## Not modelled

* Backend client and resilience, push server, proxies, transports, approvers:
  calls with little state of their own. Whoever calls the backend has, in its
  module, a call that may fail or lose its answer; the breaker and the retries
  decide only which and how soon.
* Connection status reporter: a `CONNECTED` report is suppressed while the
  `DISCONNECTED` one before it is in flight (`connectionStatusReporter.ts:59`
  compares with the last report that was answered), and a failed report is not
  repeated. Two fields; a model would be the code again.
* Conversation index: the self nudge has of it the visible evidence. All saves
  share one temporary file and are not queued, so two at a time may leave a
  broken index, whose parse at the next start throws; that is a matter of bytes.
* In-flight store: the pipeline writes, removes and lists records in single
  steps; `updateRun` and the file layer are not modelled.
* Media, transcription, configuration, diagnostics, scripts: conversions and
  reports without state that another part reads.
