# A TLA+ verification of MediaForge

MediaForge takes uploads over HTTP, hands them to image and OCR workers through
RabbitMQ, keeps jobs and artifacts in Postgres and an S3 store, and tells
browsers about progress over WebSockets.  This directory holds TLA+ modules
translated from the code under `src/services`, the TLC configurations that check
small instances of them, and TLAPS proofs of the main results for every
instance.  `PROJECT.json` lists the runs, the source lines of every definition,
the hazards of the code with the properties that cover them, the findings and
the theorems.

    tlc -workers 2 -config image_safety.cfg MCImageWorker.tla    # check a run
    tlapm ImageWorkerProofs.tla                                  # check the proofs

All paths below are relative to `src/services`.

## 1. The system

    browser --POST--> api-gateway --> Redis (limiter), S3, Postgres
       ^                  | media.jobs (publisher confirms)
       |                  v
       |        q.image / q.ocr <--TTL-- q.retry
       |                  |                ^ nack
       |                  v                |
       |        worker-image / worker-ocr --> q.parking
       |                  | media.events
       +--WebSocket-- realtime-gateway

| Component | State | Operations | Correct when |
|---|---|---|---|
| Work queue, retry loop, parking lot (`worker-image/internal/broker`, `worker-ocr/mediaforge_ocr/broker.py`) | place of each message, its holder, its `x-death` count, parked copies | push, ack, nack to `q.retry`, TTL expiry, park, requeue of a dead channel's messages | a message is at one place; it is retried a bounded number of times and lost never |
| Image worker (`worker-image/cmd/worker`) | job row, artifact rows, objects, events; per replica the handler's progress, its channel, its context | consume, the eleven calls of `handle` and `fail`, settle | completed means every artifact is there; failed attempts are retried, hopeless jobs parked; restarts harmless |
| Image processor (`worker-image/internal/processor`) | none | `Process` | a result per known operation, in order, with the settings asked for |
| Wire contract (`api-gateway/internal/media`, the parsing in `handlers.go`) | none | kinds, routing keys, parameters and their JSON | what the form asks for reaches the worker that can do it |
| OCR worker (`worker-ocr/mediaforge_ocr`) | as the image worker, with one artifact | `handle`, `_fail`, `consume`, the signal handler | the same |
| OCR engine (`ocr.py`) | none | `extract_text` | text or a permanent error |
| Gateway submission (`api-gateway/internal/httpapi`, `internal/broker`) | requests in progress, objects, rows, messages and confirms in flight, the connection | `handleSubmit`, `PublishJSON`, shutdown | 202 means queued, with row and source; otherwise the client hears of it |
| Rate limiter (`api-gateway/internal/store/redis.go`) | counters with a time to live | `Allow` | at most `limit` requests per client and window, open when Redis fails |
| Gateway reads (`handleStatus`, `handleList`) | none of their own | `GetJob`, `ListJobs` | an answer is consistent although two queries make it |
| Realtime hub and server (`realtime-gateway/src`) | two indexes of the subscriptions | subscribe, unsubscribe, remove, broadcast | the indexes agree, no event to a socket that is gone, nothing leaks |
| Event consumer (`broker/consumer.ts`) | its connection and channel | start, close | events reach the hub in order while it is connected |
| Browser client (`web/src/ws.ts`) | socket, heartbeat, timer, subscriptions | connect, subscribe, close, reconnect | subscriptions survive a reconnect, close is final, no timer is left behind |
| Control room (`web/src/App.tsx`, `history.ts`) | upload queue, current job, panel, history | enqueue, process, poll, event, load | every upload is settled, in turn and truthfully; the panel shows one job |
| Gallery (`components/Gallery.tsx`) | page, items | load, page | the page shown is the page asked for |
| Bootstrap, metrics, deployment | configuration | - | - |

How they interact.  Calls: the gateway and the workers call Redis, Postgres and
the object store.  Messages: one per job on `q.image` or `q.ocr`, acked manually,
dead-lettered through `q.retry`; events on `media.events` are not persistent for
their readers.  Shared state: several worker replicas and the gateway's readers
share the job row and the artifact rows, with unconditional writes.  Callbacks:
the OCR worker's signal handler and the WebSocket handlers run in the thread of
the code they interrupt.

What is hard.  Every handler is a sequence of calls to different services with no
transaction over them, so it can be cut off or doubled at any point: a dead
connection makes the broker give the message to a second worker while the first
one still writes.  An error decides between three ways out (ack, retry, park),
and the error paths make calls that fail too.  Park and ack, object and row,
status and event, row and artifacts are pairs of steps without atomicity.
SIGTERM comes in the middle.  In the browser, answers to polls, loads, pages and
submissions and the events of a socket that comes and goes arrive in any order and
write to the same few variables.  Liveness rests on the retry TTL and on the broker's
redelivery.  `PROJECT.json` lists these hazards line by line.

## 2. Modules

| Module | Models | Used by |
|---|---|---|
| `WorkQueue` | one work queue with its retry loop and parking copies: the broker's side of both workers | both workers extend it |
| `JobContract` | abstract specification: what the workers promise of a job | refined by both workers |
| `ImageWorker` | `Consume`, `handler.handle`, `handler.fail`, shutdown, crashes | `StatusView` |
| `ImageWorkerProofs` | the theorems about it | |
| `OcrWorker` | `Broker.consume`, `Worker.handle`, `_fail`, the signal handler | |
| `OcrWorkerProofs` | the theorems about it | |
| `Lifecycle` | how the status of a job changes | both workers and `ControlRoom` extend it |
| `StatusView` | `GET /v1/media/{id}` composed with `ImageWorker` | |
| `StatusViewProofs` | the theorem about that composition | |
| `RateLimiter` | the counters of the limiter | `Gateway` extends it |
| `Gateway` | `handleSubmit` with `PublishJSON` and the shutdown | |
| `GatewayProofs` | the theorems about both | |
| `Filter` | a sequence without some of its elements | `JobForm` and `ControlRoom` extend it |
| `JobForm` | what the gateway makes of a form: kind, content type, operations, parameters, their JSON | `Processor` extends it |
| `Processor` | the image processor and its settings | `Forge` extends it |
| `Forge` | a job from its form to its artifacts | |
| `ForgeProofs` | the theorems about it | |
| `Listing` | `GET /v1/media`: paging, the page query and the count | `Gallery` extends it |
| `Gallery` | the gallery of the control room, and a program that walks through the pages | |
| `GalleryProofs` | the theorems about both | |
| `Hub` | the two indexes of the realtime hub | `Realtime` extends it |
| `Realtime` | event consumer, WebSocket server and browser client around the hub | |
| `RealtimeProofs` | the theorems about it | |
| `ControlRoom` | the upload queue, the panel and the calls that race for them | |
| `ControlRoomProofs` | the theorems about it | |
| `MC*` | the values of the constants that a `.cfg` cannot write | |

### WorkQueue

`at[j]` is the place of the message of job `j` (`ready`, `unacked`, `retry`,
`acked`), `holder[j]` the worker on whose channel it is unacked, `deaths[j]` the
count of its `x-death` header, `parked[j]` the copies in `q.parking`.  The operators
are the things RabbitMQ or a channel can do; worker actions conjoin them with
their own steps.  The order among ready messages is not modelled: any ready
message may be pushed next, up to the prefetch, so every order is covered.

### ImageWorker and OcrWorker

`pc[w]` names the next external call of the handler of worker `w`, and there is one
action per call, so two handlers interleave between any two calls.

| Action | Image (`main.go`) | OCR (`worker.py`) |
|---|---|---|
| `Deliver`, `Take` | `Consume` | `_on_message` |
| `Check` | 128-132, skip a completed job | 60-64 |
| `Mark` | 134 status `processing` | 66 |
| `EmitProgress` | (left out, see below) | 67, 70, 100: an event may raise here |
| `Fetch`, `Extract` | 135-150 get and process | 69, 72-81 |
| `Put`, `Record` | 152-163, per result | 83-98 |
| `Finalize`, `Announce` | 165-170 | 102, 103 |
| `Fail`, `Tell` | 175-180 | 53-58 |
| `Park`, `Ack`, `Nack` | `broker.go` 190-214 | `broker.py` 131-141 |
| `ConnectionLost`, `Crash`, `Sigterm`, `Exit`/`Abandon` | closed channel, process | heartbeat or network, `_shutdown` |

The disturbances are kinds of the constant `Disturbances`, each counted against
`MaxFaults`.  A failing call may have had its effect (its answer was lost).  A lost
connection gives the messages of the channel back to the broker while the handler
goes on and finds out when it settles.  In the image worker SIGTERM cancels the
context of every call (`main.go:96` passes it on), so that every later call of the
handler fails; in the OCR worker it closes the connection under the handler, whose
next operation on the channel raises.  `seen` remembers the kinds so that a property
can say "while there were only crashes".

Data: a job is a model value; `Results[j]` is the sequence of the variants that
`Process` returns; in the image worker `Undecodable` sources fail on every attempt; in
the OCR worker the extraction of a `Rejectable` job may raise, now or on another
attempt, which covers the unreadable source as well as the external process that
fails; `Unreadable` messages do not parse.  An unreadable message has no job in the code; here its job has a
row that stays `pending`, which no property relies on.  Progress events of the image
worker are fire-and-forget (`broker.go:219-242` logs the error) and are left out;
the terminal ones are kept, since clients act on them.

Over-approximations: a connection lost during a handler is noticed when the
handler settles (the code may notice earlier only by itself, it has no other use
of the channel but events); the retry TTL may run while a worker is being
stopped; `Take` may pick a buffered delivery after SIGTERM, as Go's `select` may.

### JobContract

Open jobs, those whose output is stored, those given up, and retry counts.  A
job is retried fewer than `MaxRetries` times, given up only if hopeless or on its
last attempt, closed only if stored or given up, and every job is closed in the
end.  Both workers implement it under the refinement mappings at the end of their
modules.

### Gateway and RateLimiter

One `pc` per request; actions in the order of `handleSubmit`: `Accept`, `Count`
(INCR), `SetExpiry` (EXPIRE by the request that saw 1), `CheckForm` (verdict and
validation, either way), `PutUpload`, `Insert`, `Publish`, `AwaitConfirm`.  A job has
the identity of its request (`uuid.NewString`).  The connection to RabbitMQ is made by
`Connect` at start and never again: after `ConnectionLost` every publication fails
until a restart.  `Stop` is the graceful shutdown, which waits for the requests in
progress and then closes the connection; a shutdown that runs into its 15 seconds
is a `Crash`.  One gateway replica; its clock is the clock of Redis.  The bearer
token is in `Forge`; left out is the case of Redis being down at start, when the
gateway runs without a limiter.  A client is what `clientKey` returns; without the
`X-Real-IP` header of the proxy that is an address with a port, one per connection.

### StatusView

`GetJob` reads the row and then the artifacts, in two queries; between them the
workers of `ImageWorker` take any steps.

### JobForm, Processor and Forge

The functions of the gateway and of the image worker are operators of the same
names, over data that tells apart what the code tells apart: a text is a word with
two flags (upper case, padded with blanks), a file name the sequence of its parts
between dots, a content type a pair, a numeric field an integer, `Absent` or `Junk`;
sigma is counted in tenths.  `Forge` strings them together along the path of one job:
`Submit` (guard, checks, row, JSON, routing by the bindings of the queues), then
`HandleImage` (decode, override the settings, process, store under a key) or `HandleOcr`.
What is asked for is stated apart from the code, from the ranges of
`src/specs/schemas/job.schema.json`.  Failures and interleavings of the same path are the
business of the other modules.

Three places of the code filter a sequence: `parseOperations`, `Process` and
`clearFinished`.  `Filter` states it by the places of the elements that stay, as the
prover cannot expand the recursive `SelectSeq`; `MCForge` has TLC compare the two
(`OnlySelects`) on short sequences.

### Listing and Gallery

A call of `GET /v1/media` is a record with its limit, its offset, the query ahead and
its answer; several are under way.  `QueryPage` reads the page and the window count in
one snapshot, `QueryCount` runs on another one when the page is empty.  Jobs are
inserted at the front, or behind one whose transaction began later and committed
earlier.  `Gallery` has the effect of `Gallery.tsx` (`Load`, with the clean-up of the
one before) and the walker of the comment at `handlers.go:225-227`.

### Hub and Realtime

`Hub` has the two maps and its three methods.  In `Realtime`, a connection has two
directions (`inbox`, `outbox`) and a state both ends see late: `Cut` loses what is on
its way, and the server's `close` event and the client's `onclose` come on their own.
`Opened`, `Received`, `Closed` are the handlers of the client's socket, `Reconnect` its
timer, `Want` and `Close` what the control room calls.  `BusClosed` is the orderly end of
the connection to RabbitMQ, which `consumer.ts:71` logs and nothing else; every other
end of it kills the process (`GatewayEnds`), which the orchestrator starts again.
Events are numbered when they are published, to see their order at the tab.

### ControlRoom

One action per stretch of code between two awaits.  `RunNext` is the runner up to
the await of `submitMedia`, `Submitted` and `SubmitFailed` its two outcomes, `PollAgain` and
`PollEnds` what `tick` does with an answer, `Settle` the code behind `await pollUntilDone`
together with the next turn of the runner, `Load` and `Loaded` the load of a job.  A
call is a record that `Read` answers with the status of the moment or an error, so
answers are stale and out of order.  The item in the queue stands for its job.
Artifacts of a job that is not settled yet may be there or not.  `Work` moves a job along its
`Lifecycle`, as the workers do under restarts (`RestartsKeepOrder`, `CrashesKeepOrder`); a completed
job that a zombie handler takes back, the finding of `image_zombie`, is not in this model.

## 3. Runs

| Run | Question | Outcome |
|---|---|---|
| `image_safety` | two replicas, a good job and an undecodable one, up to three disturbances of any kind: is a job lost, retried too often, parked without cause, completed without its artifacts? | holds |
| `image_contract` | do the workers implement `JobContract`; do jobs survive a few faults; do restarts leave the lives of jobs in order? | holds, under fairness |
| `image_zombie` | is a completed job final under lost connections? | violated: the handler that took over had passed its check before the first one finished, and `SetStatus` is unconditional |
| `ocr` | the same questions for the OCR workers, contract included | holds |
| `ocr_downgrade` | is a completed OCR job final? | violated: the event after the status is inside the same `try` |
| `gateway` | what does 202 promise, may a worker see a message before its row, are orphans reported, does the limit hold, does a deployment cut requests off, is every request answered? | holds |
| `status_view` | is an answer that says `completed` complete, does every link lead to an object? | holds |
| `forge` | does a job come to a worker that can do it, are the artifacts those asked for, made with the settings asked for? | holds |
| `gallery` | does the gallery show the page it is on, does the pager stay within the listing, does a walk through the pages miss a job? | holds |
| `realtime` | do the hub's indexes agree, are timers left behind, do events come in order, is a tab left deaf on a live connection, do subscriptions come back? | holds |
| `control_room` | is one upload processed at a time, does each settle, can the runner be left waiting for nothing, do the cards tell what became of the jobs, whose artifacts does the panel show? | holds |
| `panel` | does the panel show the item in progress only? | violated: it is cleared before `currentJob` changes |

The violations are entered under `findings` with the sentence of the documentation
or the comment they contradict.

**Conditions that the properties state.** `RestartsKeepOrder`,
`CrashesKeepOrder` and `SurvivesFewFaults` say under which kinds of disturbance
they hold.  They are the positive side of the findings: every change of a status is one of
`Lifecycle`, and so a completed job is final, as long as
nothing but crashes (and, for images, SIGTERM) happened, because then the broker
redelivers only after the old handler is gone.  In the OCR worker SIGTERM is
not among them: the handler runs on with a closed connection.  `QueueTellsOutcome`
excepts jobs that workers retry, since the poll takes the `failed` of an attempt for
the end, and items whose polls ran out.  `ArtifactsOfFocus` holds until the user loads a
job, since an answer to a load is shown whatever has the focus by then; the log of events is
not in it, and `panel` shows why.

**Bounds.**  Two replicas are what a zombie handler and its successor need; a third
would need a third delivery of the same message, which `deaths` bounds by
`MaxRetries = 2` anyhow.  `MaxRetries = 2` gives a first attempt, a retry and the
parking.  Two jobs let a message wait behind another in the prefetch of
`image_safety`; `ocr` has `Prefetch = 1`, where the second job waits in the queue.  Two variants
give a handler that is cut off between two results.  `MaxFaults = 3` (2 in `ocr`) allows a lost
connection, a failure in each of the two handlers, or a failure in the handling
of a failure.  In `gateway`, two uploads of a client with `Limit = 1`, `Window = 2` and
`MaxTime = 3` (two windows) give the race on the counter, an expiry and a late
EXPIRE; `MaxFaults = 2`.  Replicas are symmetric (`Interchangeable`) in the runs
without liveness.

`forge` takes every combination within three groups of forms (header, kind, file name and
content type; up to three operations of seven, for three sources; every parameter below,
on and above its bounds), around an ordinary upload.  The groups do not influence each
other but for the operations, of which the third group has all.  `gallery` has pages of one
job, three jobs and four calls: a call from before a refresh, one from another page,
a page past the end and the next one.  `realtime` has one tab and another program, two
connections of the tab, two events and one disturbance; the tab's two sockets and the
other one give the hub every order of subscribe, unsubscribe and disconnect on
two jobs, and a second tab would share nothing with the first but the hub.
`control_room` has two uploads, two polls of each instead of 91, one load and one event: the
second poll is the last one, and events change the panel's log only, of which its properties say
nothing.  `panel` has two events and no load.

**Fairness.**  Weak fairness on the handler's steps, `Deliver`, `Take`, `Expire` (and
`Exit`, `Stop`, `TakeOver`): calls return (the clients have timeouts, and an error is a
return), the broker delivers and runs its TTL, the orchestrator restarts what
exits.  In `Realtime`, weak fairness on the two event loops and on the restart of a
dead gateway; in `ControlRoom`, on the answers to submissions and to polls, which `fetch`
always gives, as an answer or an error.  No fairness on disturbances, workers (there),
clients or users.  No strong fairness is needed.

**Deadlock.**  `gallery`, `realtime` and `control_room` may stop: their bounds on calls,
events and disturbances run out, and a user owes nothing.

## 4. Proofs

Every safety invariant and every action property that a passing run checks is also a
theorem, for every value of the constants that meets the named assumptions.  The only
exceptions are the properties that need fairness.

`ImageWorkerProofs` proves, for any jobs, replicas, results, prefetch, retry limit
and any number of disturbances of any kind, `Spec => []P` for `TypeOK`, `NothingLost`,
`RetriesBounded`, `ParkedForCause`, `CompletedHasArtifacts`, `NoDanglingArtifact` and
`HandlerHoldsMessage`, from the assumptions `QueueAssumption` and `ImageAssumption`
(types of the constants) alone.

None of these is inductive.  `NothingLost` says something at the moment of an ack,
and why it holds lies in how far the handler got many steps before; that the
handler acks its own message lies in who holds it.  `IInv` is the conjunction of

- `TypeOK`;
- `Ownership`: a message is unacked exactly on one channel; a busy worker that has its
  channel holds its job's message there, at the attempt number it was told.  So
  nobody else can settle it or raise its count;
- `Progress`: at each `pc` the first `done[w]` results have their rows, the one to
  record its object, and a handler that returns nil has all of them.  It holds
  although other handlers work on the same job, because rows and objects only grow
  (`StoresGrow`);
- `Settlement`: a permanent error has a cause, an ack after a failure follows the
  parked copy, and the three bounds on the fate of a message.

There is a lemma per part (`TypeStep`, `OwnershipStep`, `ProgressStep`, `SettlementStep`) with a
step per action.

Two more theorems of that module rest on `IInv`.

- `OrderSurvivesRestarts` is the action property `RestartsKeepOrder`.  As long as
  there were crashes and SIGTERMs only, a message is delivered again only after its handler is
  gone, so one handler at most works on a job (`Exclusive`) and what it knows of the status stays
  true: not completed once it has checked, processing once it has marked it.  Only a handler that was
  told to stop may be wrong, and every later call of it fails.  `OnlyRestarts` is that invariant,
  `HandlerKeepsOrder` what follows from it for the three writes.
- `ImplementsContractSafely` is `Spec => Contract!Safety`: each step of the worker is a step
  of `JobContract` under the refinement mapping, or changes nothing of it.  Recording the
  last row is the contract's store (`RecordRefines`), settling a message its retry, its
  giving up or its closing (`SettleRefines`).

`OcrWorkerProofs` proves the same of the OCR worker: `NothingLost`, `RetriesBounded`,
`ParkedForCause`, `CompletedHasText`, `CrashesKeepOrder` and `Contract!Safety`, from
`QueueAssumption` and `OcrAssumption`.  Its argument is ordered by what a step touches: a
handler that computes (`Computes`) leaves the queue alone, one that settles and the
broker leave the stores alone, and rows, objects and parked copies only grow (`Grows`), so
that the progress of a handler another one runs into is kept.

`StatusViewProofs` composes: the reader changes nothing of the workers, so `IInv`
holds under `ViewSpec`; what is complete stays complete between the two queries, hence
`CompletedViewIsWhole`, and rows only name stored objects, hence `LinksLead`.

`GatewayProofs` proves `AcceptedIsQueued`, `QueuedIsRunnable`, `OrphanWasReported`,
`ShutdownDrains` and `WindowHolds` for any clients, requests, limit, length of a window, bounds
and disturbances, from `LimiterAssumption` and `GatewayAssumption`.  Its `IInv` adds to them

- `Written`: a request at `insert` has its object, one past it has its row;
- `Awaited`: a message on its way belongs to a request that waits for its confirm, and
  a confirm to one that is on the queue and no longer on its way.  So a request that
  is told 502 left nothing behind that could still arrive, and one that is told 202 is queued;
- `Counted`, which gives the limit: a key lives at least until its window is over
  (EXPIRE comes after INCR and adds a whole window to a time in it, and a key without
  EXPIRE lives on); hence in the current window no number is given twice, requests
  counted there have different numbers up to the counter, and by injection into
  `1..Limit` at most `Limit` of them are let through.

`DivMonotone` and `DivFloor` are the two facts about window numbers this rests on.

`RealtimeProofs` proves `HubInv`, `NoStrayTimers`, `SubscriptionsKept` and the temporal `EventsInOrder`, for any jobs, tabs,
other programs, bounds and disturbances, from `RealtimeAssumption`: the sockets a tab opens
one after another differ from those of the other programs (`SocketOf` pairs the tab
with the number of its connection).  `IInv` has four parts:

- `HubInv`: the two indexes are one relation, which each of the hub's methods keeps (`SubscribeAgrees`,
  `UnsubscribeAgrees`, `RemoveAgrees`), and it has no connection the server has seen close;
- `TabOK`: what the socket, the heartbeat and the timer of a tab may be together;
- `Streams`: bus, outbox and tab hold the events in the order of their numbers, each part behind
  the next, and a stream that breaks off loses all it still held;
- `OnlyAsked`: a tab's socket carries and is subscribed to nothing but what the tab asked for.

`SubscriptionsKept` is the converse of the last one, and is proved beside `IInv`: what the tab asked
for is subscribed or its request is in the inbox, for the inbox loses nothing while the
link is up (`SendKeeps`), a new socket asks for everything (`ResubscribesAll`), and a tab never
unsubscribes (`OnlySubscribe`).

`GalleryProofs` proves `SettledPageIsAsked`, `NeverPastTheEnd` and `PagingNeverSkips`, from
`ListingAssumption` and `GalleryAssumption`.  The last one is the deep one: insertions at or
behind the front move jobs away from the front only (`InsertedAhead`), so that what the
walker has not seen is in the page it was sent or ahead of it (`Pages`); it needs that the
walker goes on by the echoed limit, not by the one it asked for.  `Current` says which call the screen waits for, `Counted`
that no answer knows of more jobs than there are.

`ControlRoomProofs` proves `OneAtATime`, `QueueTellsOutcome`, `RunnerIsAwaited` and `ArtifactsOfFocus`, from
`ControlRoomAssumption` (of which `Unread` only says that it is none of the statuses).  `LinedUp` puts the
queue in order: finished items, the one at work, then those that wait, and none waits without
a runner.  `OnePoll` says that one call at most can move the runner on and that it is for the
item at work, so that an answer which comes late, or belongs to a load, moves nothing.
`TrueCalls` says that an answer under way which says a job is settled is still true,
stale as it is, for a job that no worker retries never leaves a final status.

`RunnerIsAwaited` is the other half of `OnePoll`, that one call at least is there, and what makes
`EveryItemSettles` possible: a step either starts an item with its submission or goes on with
the one it has.  `ArtifactsOfFocus` is the positive side of the finding of `panel`: without
loads the focus follows the queue (`FollowsQueue`), every poll is for the job in focus, and the
panel is cleared before the focus changes.

`ForgeProofs` proves `QueuedIsRoutable`, `SettingsAsRequested` and `ArtifactsAsRequested` for every set of
forms of type `Form` (texts, numbers and lists of any size), any environment of the worker and
any secret, from `ForgeAssumption` and `RowAssumption` (a row is not the value that stands for
none).  `IInv` says at which of six places a job is and that what the worker makes comes
from the message made of the form.  The rest are facts about the functions on the way:
`RoundTrip` (a parameter survives parsing, omitempty and decoding, 0 standing for "not given"),
`OnlyFacts` (a filter keeps exactly the chosen elements, by an injection of places into
positions), `ApplyFacts` (the settings of each result) and `MadeFacts` (different results
have different keys).

Only model-checked is what needs fairness, which the prover does not support: that every
message settles and every job is closed (`SurvivesFewFaults`, the liveness half of `ImplementsContract`),
`EveryRequestEnds`, `RestoresSubscriptions`, `EveryItemSettles`.  Induction over data is out of its
reach too; no theorem here needs it, as filters and pages are stated by places.  The three
violated properties have their counterexamples.


## 5. Not modelled

Pixels, OCR text and confidences, wording of errors, tracing headers: no property
depends on them.  Metrics and logs do not feed back into the behaviour.  Of
configuration, only what sets the image processor up.  Client wrappers (`s3.go`,
`Connect`, migrations) have no state of their own.  In the realtime gateway,
the welcome message, `pong`, `/stats` and the health routes; in the browser, the history in
`localStorage`, the previews and every component that only lays out what it is
given.  Manifests: the workers' and gateways' restarts are assumed from them.

What reading the code for the models showed, beside the findings, and no run checks:

- SIGTERM cancels the context of the image worker's message in hand, so that its next
  call fails and the attempt is lost (`main.go:96`; modelled, as the `sigterm` disturbance).
- The image worker's metric counts a failure as parked from attempt 5 on, whatever
  `RABBITMQ_MAX_RETRIES` is (`main.go:121`).
- When the status update of a failure fails too, the message is parked and the row
  keeps `processing` (`main.go:177`, `worker.py:53-58`; modelled).
- Any exception of the OCR extraction counts as permanent, also that of a killed process
  (`worker.py:78`; modelled as `Rejectable`).
- `handleSubmit` checks neither the operations' names nor their uniqueness, which
  `job.schema.json` demands; the worker ignores the unknown ones and repeats the others.
- After an orderly close of its RabbitMQ connection the realtime gateway serves on without
  events (`consumer.ts:71`; modelled as `BusClosed`).
- An answer to `loadJob` is shown although another job has got the focus meanwhile
  (`App.tsx:223`; modelled as `Loaded`).

## 6. Plan

Done, in this order: the work queue and the image worker, the heart of the
system; its abstract contract; its proofs; the OCR worker on the same queue; the
gateway with its limiter, and their proofs; the status reader composed with the image
worker; the data path from the form to the artifacts; the listing and the gallery; the
realtime path; the control room.  Then the theorems: the safety of the contract for both
workers, restarts and crashes, the OCR worker, the realtime path, the gallery, the queue of
the control room and the data path, the subscriptions of a tab, and what the panel
shows.

Left: liveness stays with TLC.  What could still be proved is more of how modules fit together:
`ControlRoom` moves the statuses along the `Lifecycle` that the workers are proved to follow under
restarts, but Gateway and worker share no module in which a job goes from one to the other.
