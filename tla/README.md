# TLA+ models of WorldModel-Gym

The repository is a benchmark for planning agents (Python: `core/`, `agents/`,
`planners/`, `worldmodels/`), an API server that collects evaluation runs and
ranks them (`server/worldmodel_server/`), a web application that shows and submits
them (`web/`) and a mobile one (`mobile/`).  Two parts are hard to get right and
nearly impossible to test.  On the server, request threads, an asynchronous upload
handler, RQ workers and several replicas share a PostgreSQL database, an artifact
store and Redis, with no lock that spans two of them.  In the browser, handlers,
effects, timers, requests without an order and other tabs share state, and every
`await` is a place where the user goes on.  The modules here model both, operation
by operation.

## 1. Inventory

| component | code | state | operations | with whom |
|---|---|---|---|---|
| Run lifecycle | `main.py` create / upload / trigger, `runner.py`, `worker.py` | the `runs` row, three artifacts under `<run_id>/`, the RQ list and job hash, the row each session loaded | `trigger_demo_run`, `enqueue_run`, `run_benchmark_job`, `_set_status`, `upload_run_artifacts` | API threads, workers, Redis, store, database |
| Idempotency keys | `idempotency.py`, `main.py` `_begin_idempotent`, `_store_idempotent` | `idempotency_keys` rows, uncommitted changes of each transaction | look up, drop stale, save, purge | called by create and upload |
| Leaderboard paging | `main.py` `leaderboard`, `_leaderboard_keyset_clause`, cursor codec | none of its own; the client keeps the cursor | a page by cursor or by offset | reads rows that uploads and triggers change |
| Response cache | `main.py` `_TTLCache` | per-process entries, data-version stamp | `get`, `set`, `bump_version` | GET handlers fill it, uploads and seeding invalidate it |
| Rate limiter | `rate_limit.py`, `main.py` | per-process buckets, Redis sorted sets | `hit` | every request |
| API keys | `auth.py`, `cli.py` | `api_keys` rows | create, rotate, revoke, bootstrap, authenticate | CLI, start-up, every write |
| Start-up seeding | `seed.py`, `main.py` `lifespan` | the demo rows and their artifacts | `seed_demo_runs` | every replica that starts |
| Artifact storage | `storage.py` | files or S3 objects | save, read with retries, delete, probe | uploads, jobs, readers |
| Validation, errors | `validation.py`, `errors.py`, `schemas.py` | none | pure checks of a request | all endpoints |
| Observability | `otel.py`, `request_logging.py` | spans and log lines nobody reads back | - | - |
| Evaluation harness | `core/.../eval` | an episode's budget and step count, the metrics | `evaluate_episodes`, `aggregate` | environments, agents |
| Environments | `core/.../envs` | three small grid worlds | `reset`, `step` | harness, oracle |
| Planners, agents | `planners/`, `agents/` | a search tree, a policy | MCTS, CEM, trajectory sampling | harness |
| World models | `worldmodels/` | network weights | training, rollout | planners |
| Results pages | `web/app/{leaderboard,tasks,compare}/page.tsx`, `web/app/runs/[id]/page.tsx`, `web/lib/{api,compare,trace}.ts`, `providers.tsx` | the React Query entries, the state of the mounted page | choose a track, select, compare, open, retry; answers, failures, reconnects | read API; mount the player |
| Episode player | `web/components/trace/` | episode, cursor, playing and its timer | keys, buttons, strip, scrubber, selector, timer | mounted by the run viewer, fed by the trace query |
| Submission studio | `web/app/upload/page.tsx`, `web/app/api/proxy/` | the form, a submission between its two requests | edit, submit, leave, reload; answers | create and upload endpoints |
| Layers | `nav.tsx`, `command-palette/`, `shortcuts/`, `embed/`, `docs/mobile-nav.tsx` | which are open, the scroll style each has saved | open, close, Escape, navigate | all borrow `body.style.overflow` |
| Notifications | `web/components/ui/toast/` | the list and the map of timers | add, dismiss, time out | palette, code blocks, dialogs |
| Colour scheme | `web/components/theme/` | `localStorage`, per tab the provider's state and the class | set, cycle, toggle; storage events, system changes | tabs of one browser |
| Mobile app | `mobile/App.tsx` | tab, one spinner, one error, three results | select, load, retry; answers | API |
| Static pages | home, about, docs, changelog, visuals | none another part reads | - | - |
| Badges, previews | `web/lib/badge.ts`, `web/app/badge/`, `opengraph-image.tsx` | none | render | API, CDN |

### What is hard

* **Two stores, no transaction across them.**  Redis (the job), the artifact store
  and the row are written one after the other; a failure or another actor may
  come in between (`main.py:1028-1039`, `main.py:633-691`, `runner.py:290-311`).
* **Lost columns.**  A session writes only the columns that differ from the ones
  it loaded.  The upload handler loads the row, awaits the bodies, and writes
  (`main.py:594`, `main.py:659`): what it does not write is somebody else's.
* **Check, then act.**  `Job.fetch` then `q.enqueue`; the idempotency lookup, then
  the side effect, then the record; the cache miss, then the query, then `set`.
* **Exceptions outside the `try`.**  `_set_status(RUNNING)` (`runner.py:263`), the
  record's `flush` (`main.py:671`), `session.refresh` (`main.py:685`).
* **Time.**  Job timeouts, the record TTL, the cache TTL, the job hash's TTL.
* **Several replicas** that share the database and not the caches.
* **State after an `await`.**  `handleSubmit` (`upload/page.tsx:398-399`) sends two
  requests while the form stays editable and the page may be left; the loads of
  `mobile/App.tsx` share one spinner and cannot be cancelled.
* **Effects in a chain.**  A timer, an episode switch and a new trace meet in
  `episode-player.tsx:87` and `use-playback.ts`; each effect of a commit sees what the
  one before it left.
* **Shared things without an owner.**  Five layers save and restore one style; two
  tabs write one preference and hear of each other's writes late.

### What makes each component correct

* Lifecycle: a status that is published together with its results; a job that is
  executed once; a run that does not stay *running* for ever; a score that belongs
  to the document that is shown; a trigger that is not refused for ever.
* Idempotency: one side effect per key and TTL window, and nobody answered with
  another request's effect; nobody waiting for ever on a unique index.
* Leaderboard: a walk gives every run that stays, once, and ends.
* Cache: bounded staleness; own writes visible after the acknowledgement.
* Rate limiter: each window admits at most its limit, and rejects nobody before.
* Seeding: a seeded row has its artifacts, however many replicas start.
* Results pages: no skeleton stays for ever; what is compared is what was selected
  and is shown; the badge of the best is right while columns load; a trace is shown
  alike by every view of it.
* Player: the cursor stays in the episode, playback ends by itself, another episode
  starts at its beginning.
* Studio: the success card is true; one submission makes one run; what was published
  is not written again.
* Layers, notifications, colour scheme: the page is locked exactly while covered; timers
  and items match; tabs come to agree, and the paint agrees with the state.
* Mobile: the spinner turns while something loads; an empty list is not shown for one
  that was never received, unless loads overlap; the run shown is the
  one asked for.

## 2. Modules

| module | what it is |
|---|---|
| `RunLifecycle` | trigger, worker and upload on one run's row, artifacts and job |
| `KeyedWrites` | **abstract**: what an Idempotency-Key promises: one effect, and an answer that may be lost after it |
| `Idempotency` | **detailed**: the endpoints as transactions, statement by statement |
| `Leaderboard` | the keyset walk under concurrent changes |
| `ResponseCache` | the TTL cache of several processes, with the uploads that bump it |
| `RateLimiter` | the window in Redis and the in-process windows behind it |
| `Playback` | **abstract**: what `use-playback.ts` promises of a cursor over steps |
| `EpisodePlayer` | **detailed**: the player with its effects, controls and step strip |
| `TraceRecords` | operators: parsing a trace, its episodes, returns, events, step panels |
| `QueryCache` | operators: one entry of React Query under `providers.tsx` |
| `ResultsPages` | **composition**: leaderboard, tasks, comparison, run viewer and player over one cache and a server |
| `UploadStudio` | the submission form, its requests and what the server makes of them |
| `Overlays`, `Toasts`, `Theme` | layers, notifications, colour scheme |
| `Shell` | **composition** of the three: what surrounds every page, in several tabs |
| `MobileApp` | the mobile application |
| `MC*` | values for TLC, nothing else |
| `ResultsPagesProofs` | the theorems of the pages and of the player in them |
| `ClientsProofs` | the theorems of `UploadStudio` and of `MobileApp` |
| other `*Proofs` | the theorems of the module they are named after |

### `RunLifecycle`

One run: no handler touches the row of another.  `row` is the committed
`RunEntry`, reduced to what the code tells apart (status, the metrics document,
the ranking score, whether each artifact path is set); `artifact` the store;
`pending` and `job` the RQ list and hash; `trig`, `up`, `wk` the local state of each
request and worker, the loaded row (`seen`) included.

| action | code |
|---|---|
| `TriggerLoad`, `TriggerRefused`, `TriggerChecked`, `TriggerEnqueue`, `TriggerCommit`, `TriggerAborts` | `trigger_demo_run`, `enqueue_run` |
| `Dequeue`, `SetStatusLoad`, `SetRunning`, `Evaluate`, `JobSaves`, `SetCompleted`, `JobRaises`, `JobStorageFails`, `SetFailed`, `SetStatusRaises` | `run_benchmark_job` and its three `_set_status` calls |
| `WorkerCrash`, `RegistryCleanup`, `JobExpires` | RQ, as `runner.py` uses it |
| `UploadLoad`, `UploadRejected`, `UploadRead`, `UploadSaves`, `UploadStorageFails`, `UploadCommit`, `UploadCommitFails`, `UploadCrash` | `upload_run_artifacts` |

`Flush(current, seen, new)` is the ORM's UPDATE: a column is written when it
differs from the loaded value.  `Faults` and `Overlap` say what the environment may
do; they let a property that needs quiet be checked, and proved, exactly where it
holds.  `Torn` is the truncated file `write_bytes` can leave.

A metrics document is its producer and its score; a trace and a config carry the
tag of the upload or job that wrote them.  Readers (`get_metrics`) are the operator
`ServedMetrics`.

### `KeyedWrites` and `Idempotency`

`KeyedWrites` performs a write and records it in one step (`Perform`) and answers it in
another (`Acknowledge`), which a failure may replace; `Replay`, `Conflict`, `Exists` and
`Fail` are one step each.  TTL windows are numbered; a record is live in the window it
was made in.  `Idempotency` cuts the same request into the statements the code
issues under READ COMMITTED: `Lookup*` (`find_idempotent_response`), `DropStale`
(its DELETE), `CheckExists` / `CheckFree` and `InsertRun` / `InsertRunFails`
(`create_run`), `SaveArtifacts` (`upload_run_artifacts`), `InsertRecord` /
`InsertRecordFails` (`save_idempotent_response` and the unique index), `Commit`,
`Refresh` (`session.refresh`, then the answer), `Abort`.  A statement that meets another transaction's uncommitted change is not
enabled until that transaction ends (`KeyFree`, `RunFree`).  The refinement is
`AtomicWrites == Spec`: the abstract variables are variables of the detailed
module, written at
`Commit`, except the answer, which `Refresh` gives.  If the refresh raises (`main.py:578`),
the client is told 500 of a run that is there with its record, and its retry is replayed.

### `Leaderboard`

`table` holds the denormalized columns, `cursor` what `X-Next-Cursor` carries.
`Fetch` and `FetchLast` are one request each (the query is one statement, hence one
snapshot); `Submit` and `Delist` are the uploads and triggers between the pages.
The response cache is off (its own module is about it).  `KeysetClause` is
the OR of ANDs of `_leaderboard_keyset_clause`, `RankedBefore` the ORDER BY.

### `ResponseCache`

A GET is three critical sections: `Hit` or `Miss` (`get`), `Query`, `Fill` (`set`).
An upload commits, then bumps its own process (`Bump`), or fails between the two
(`RefreshFails`).  The data shown is the number of uploads committed when it was
read.  `Tick` is the clock; a GET takes at most `Slow` ticks from its query to its
`set`.  The history fields `floor`, `stamp`, `crossed` decide nothing.

### `RateLimiter`

`hit[h]` is one call of `hit`: `ReadClock` (the time and the member), `Shared` (the
MULTI/EXEC pipeline and the decision) or `SharedFails` (it raises, executed or not),
`Remove` (the ZREM of a rejected hit, best effort), `ReadFallbackClock` and then
`LocalRejects` or `LocalAdmits`, which hold the lock of the process's deques.  `zset`
and `expiry` are Redis, `bucket[s][k]` the deque of process `s` (a hit stands for the
time it read).  A deployment without Redis is one in which it raises every time.
`Tick` is the clock; between its reading and its window a hit takes at most `Lag`.
`retry_after` is a number in an answer and is left out.

### `EpisodePlayer` and `Playback`

A step is one event handler or timer with all that it sets off, because React is
through with the commit and its effects before the next event reaches a handler (what
a handler or the query's store sets is rendered at once, and its effects with it; the
effects of a timer's commit may wait for the next event, and commute with it).
Each effect is an operator of its own, on the commit before (`was`), the commit it runs
for (`is`, the values its closure holds) and what has been set so far: `ResetOnLength`
and `AutoAdvance` of `use-playback.ts`, `Rewind` of `episode-player.tsx`, each guarded
by its dependencies.  `Effects` runs them in the order the hooks are called.  `Settle`
commits what a handler set, runs the effects, commits what they set and runs the effects
of that; the theorem `EffectsRest` says that there is no third commit.  `timers` holds,
for every timer armed, the `lastIndex` its callback closed over, so that a timer left
over or not armed again would show.  Every handler ends in `Settle`: `Prev`, `StepNext`, `Toggle`, `Restart`, `Scrub`, `SelectEpisode`,
`ClickBar`, `Tick`, `TraceChanges`.  `Click*` are the buttons with their `disabled`
conditions, `PressKey` the keys, which have none.  `Remount` is the panel leaving and
coming back.  `BucketSize`, `Bars`, `CurrentBar` are `step-strip.tsx`.

`Playback` knows a length, a position and whether it runs.  The refinement is
`PB == INSTANCE Playback WITH length <- Length, position <- index, running <- playing`
and `ImplementsPlayback == PB!FairSpec`.

### `TraceRecords`, `QueryCache` and `ResultsPages`

A trace is a sequence of records of which a field may be missing (`Absent`), of the
wrong type (`Junk`), or the line broken (`Broken`).  `ParseTrace` drops what does not
parse, `NormalizeEpisodes` takes records with steps and flat ones alike; the rest are
the returns, outcomes and events as `trace.ts`, `step-utils.ts` and `step-detail.tsx`
compute them, each on its own.  `LineRecords` is what a record may hold.  A loop of the
code is a function of how many turns it made (`Only`, `Total` and `CumulativeReturns`
here; `TakeId` in `ParseRunIds` and `TallyOne` in `BestIndex` of `ResultsPages` are one
turn each), so that its invariant can be stated and proved.  `TracesAssumption` says
that the lengths the player may be given are those of the traces on the server.

`ResultsPages` keeps `query` (an entry per key), `view` (the mounted page and its state)
and `stored` (the server).  What a page shows is an operator of these (`BoardLoading`,
`BarShown`, `RunUnavailable`, `PlayerShown`, ...), and the guards of the user's actions
are what is shown.  `Render` is a commit: observers that appear ask for their data, and
the player is mounted, unmounted or handed another trace (`PlayerFollows`).
`ChooseTrack`, `ToggleSelected`, `ClearSelection`, `Compare`, `OpenRun`, `BrowseTasks`,
`BackToBoard`, `ChooseTab`, `RetryRun`, `RetryTrace` are the user; `Answer`, `Fail`,
`Reconnect` the network; `Submit` a run that is submitted meanwhile.

### `UploadStudio`

`page` is the form and what it shows, `tries` every submission with the stage of its
`handleSubmit` and the state of its two requests, `runs` the server.  A request is sent,
performed (`CreateRun`, `StoreArtifacts`) or refused (`Refuse`) and answered; it may
`Break` before the server performs it and be performed all the same.  `Created`,
`Uploaded`, `CreateFails`, `UploadFails` are handleSubmit going on.  The closure has the
form of the moment the button was pressed (`tries[n].form`); the fields stay editable
(`Edit`).  `Return` leaves a page whose handleSubmit goes on unseen, `Reload` ends it.
`Elsewhere` is another client.

### `Overlays`, `Toasts`, `Theme` and `Shell`

A layer is its name and the style it saved; `Show` and `Hide` are its effect and its
cleanup.  `Arrive` is the new pathname: unmounted layers first (`Unmount`), then the
drawers that stay.  Escape runs the cleanups of all layers one after the other;
`HideEvery` says at once what they leave, and `MCShell` has TLC compare it with the
cleanups in turn, for every list of up to four layers.  `Reachable` is what the keyboard
still gets at: every layer traps Tab but the drawer of the documentation
(`mobile-nav.tsx:40`), so the nav drawer, the theme button and the copy buttons can be
reached behind that one.  A notification is an id and whether it has a duration.  In
`Theme` a tab is closed, painted by the inline script, or hydrated; a write queues a
storage event in the other tabs, or is refused (`SetThemeFails`), which leaves the theme
set and neither stored, resolved nor painted; `unsaved` is that history.  `Shell` joins them where the code does: the palette toggles the theme
and notifies, copies and closes, opens the shortcuts; a reload takes layers,
notifications and the clipboard's pending answers with it.

### `MobileApp`

`Start` is what every load does before it waits, `Answer` and `Fail` what it does after,
in whatever tab the user is then.  `asked`, `raced` and `crossed` are history and decide
nothing: the run of the last load, whether that load began over an earlier load of a run,
and whether the last load of any kind began over another.

## 3. Runs

All bounds are constants in the `.cfg` files.  Deadlock checking is off where the
requests are finitely many and the system comes to rest.

| run | question and what it shows | bounds |
|---|---|---|
| `LifecycleSerial` | With one client at a time but every fault (storage, database, timeout, worker and API death): types, `SingleExecution`, `ScoreMatchesDoc`, and `JobSettles`: a trigger is never refused for ever | 2 triggers, 1 upload, 2 workers, 2 scores: a second trigger after any outcome of the first |
| `LifecyclePublished` | Without faults and overlaps: `ServedMatchesRow`, `PathsLeadToArtifacts`, for any order of two submissions (metrics only, trace only, everything) and a job | 2 uploads so that the second is a re-submission |
| `LifecycleOverlap` | Two triggers, two workers and an upload overlapping freely, storage and API faults: `CompletedHasResults`, `RunningHasWorker`, and `RunComesToRest`: where the row is in the end, whichever steps of the job raise | 2 triggers are needed for a duplicate job, 2 workers to execute both; 1 score, which none of the three reads |
| `KeyedCreates` | Creates racing and retrying under one key, an expiry in between, failing anywhere: `AtomicWrites` and what follows from it, and `EveryRequestAnswered` | 3 requests: original, retry and a third that meets what they left; bodies that share an id, and one without |
| `KeyedUploads` | `AckHoldsRecord` for uploads, with records that expire under running requests | 3 requests, 2 keys |
| `LeaderboardWalk` | `StayersGivenOnce`, `NeverGivenTwice`, `WalkEnds` | 3 runs, pages of 1, two of them created in the same instant, every tie of two scores and two returns, each run submitted up to twice |
| `CacheStaleness` | `StalenessBounded`, `StaleOnlyIfCrossed` in two processes | 2 GETs, 2 uploads, TTL 2, clock to 4: past the expiry of an entry filled after a change |
| `LimiterWindows` | `AdmissionBounded` for Redis and each fallback, `RejectedJustly` for the fallbacks | 2 processes, 3 hits, 2 keys, limit 1, window 4, lag 1, clock to 5: a hit before, in and after the window of another, late by one |
| `ResultsPages` | A session on the four pages: requests late, failing, retried; a run re-submitted, rows gone from the board, the connection back: `PlaysWithinEpisode`, `StripHoldsCursor`, `ViewsAgree`, `WinnerIsBest`, `ComparesWhatIsListed`, `SwitchRewinds`, `ImplementsPlayback`, `SkeletonsEnd` | 3 runs on 2 tracks, comparisons of 2, so that the cap binds; episodes of 2, 2 and 3 steps (equal lengths are the hard switch, 3 exceeds the 2 bars); 2 navigations, submissions or reconnects |
| `UploadStudio` | Submissions edited, broken, left, reloaded and tried again: `SuccessIsComplete`, `OneRunPerTry`, `PublishedRunsStay` | 2 submissions, 1 return or reload, 1 typed id and the generated ones, 2 interchangeable choices of metadata, 2 slots |
| `Shell` | Layers, notifications and colour scheme: `LockedWhileCovered`, `TimersMatchToasts`, `TabsAgree`, `PaintMatches` | 3 routes (two share the docs drawer, one has the embed dialog), 2 tabs, 2 notifications listed and 4 made, 7 gestures: three layers opened and closed around a navigation |
| `MobileApp` | Loads that overlap and end in every order: `SpinnerTells`, `EmptyIfOvertaken`, `RunShownWasAsked` | 2 runs, up to 3 equal requests in flight |

### Known disagreements

The models also show where the code does not do what a reader of its comments would
expect.  Each is a hazard in `PROJECT.json`; the properties above are stated, and the
runs configured, so that they hold beside it.

On the server:

* `q.enqueue` precedes the commit of *queued* (`main.py:1037`).  A worker that is quicker
  writes *running*, even *completed*, first, and the row says *queued* from then on;
  `models.py:38` promises `created -> queued -> running -> completed | failed`.
  `RunComesToRest` excludes it by name (`Overtaken`).  It also names `Forgotten`: with three
  triggers, two executions of one job can each skip the *completed* that the other wrote
  and a third wrote *queued* over, and the third's id is skipped once the hash expired.
* `Job.fetch` and `q.enqueue` are two round trips (`runner.py:151-167`), so overlapping
  triggers enqueue the job twice.  `SingleExecution` is checked for serial triggers;
  `CompletedHasResults` holds with duplicates too.
* The idempotency record is inserted after the artifacts are written, so an upload and
  its retry that overlap both write (`main.py:602`).  `AckHoldsRecord` is what
  remains: only the one the record names is told that its write was done.
* The cache's `set` stamps with the version of now (`main.py:194`), so rows read before
  a bump survive it.  `StaleOnlyIfCrossed` says that this is the only way.
* `_best_effort_delete` of a failed re-submission removes keys the committed row of an
  earlier one still names (`main.py:649`; `PathsLeadToArtifacts` with
  `Faults = {"storage"}`).
* Two processes that read the same microsecond at the same count add one member for two
  hits (`rate_limit.py:128`; `AdmissionBounded` with `SameInstant = TRUE`); a rejected hit
  counts until its ZREM, which may fail, so Redis may reject a hit although fewer than
  the limit were admitted (`rate_limit.py:142`).
* An overlapping job and upload leave the score of one with the document of the other
  (`ScoreMatchesDoc` with `Overlap = {"writers"}`); the same bytes sent as trace and as
  config have one fingerprint (`main.py:606`); a *queued* committed between load and
  commit of a re-submission hides it from the leaderboard, because *uploaded* equals
  what was loaded (`main.py:664`); an `IntegrityError` of the record's flush
  (`main.py:671`) is outside the `try` and leaves overwritten artifacts.

In the browser:

* `fetchTrace` has no timeout (`api.ts:251`), unlike every other read: a trace request
  that hangs keeps its skeleton.  `RequestsEnd` leaves trace requests out.
* The studio's create carries no Idempotency-Key (`upload/page.tsx:398`): when the answer
  is lost, a draft stays, and the next press makes another run or is refused.
  `OneRunPerTry` counts per press of the button.
* Layers closed in another order than the reverse of their opening leave a bare page
  locked or a covered one scrolling (`embed-dialog.tsx:84` and its siblings), because each
  restores the style it found; the nav drawer opened with the keyboard over that of the
  documentation is one way to it, since Escape then closes the lower one first.
  `LockedWhileCovered` is conditional on `orderly`.
* A `localStorage` that refuses the write leaves the theme button showing a scheme that
  is neither stored nor painted (`theme-provider.tsx:99-103`: the state is set first).
  `TabsAgree` and `PaintMatches` are conditional on `~unsaved`.
* The three loads of the mobile application share one spinner, and the first of two that
  overlap stops it for both (`mobile/App.tsx:154`).  Tasks still on their way, *Leaderboard*
  and back to *Tasks*: when the leaderboard answers, "No tasks available." (`App.tsx:223`)
  is shown though the tasks were never received, and it stays if their request hangs,
  which nothing times out.  `EmptyIfOvertaken` says that this is the only way to it.
* Two loads of runs in flight together on mobile may be answered the other way round
  (`mobile/App.tsx:141`); `RunShownWasAsked` is conditional on `~raced`.  `Retry` with an
  empty run id does nothing, and the error stays.

### Fairness

`RunLifecycle!FairSpec`: weak fairness for each worker's next step (RQ's loop; no
fairness for `WorkerCrash`, and `Dequeue` needs a live worker, which a restarted
container is), for the registry clean-up that RQ's workers run periodically, and
for handlers once they have begun.  Nothing makes a client send a request, a fault
happen, or a hash expire.  `Idempotency!FairSpec`: a handler whose next statement is
not blocked by a lock executes it; `Abort`, which also stands for the database's
deadlock detector, is not fair, so `EveryRequestAnswered` says that the locks alone
never form a circle.  It is checked for `Outlive = FALSE`, no record expiring while
a request with its key is in progress; with it, one transaction holds the deleted
stale record and waits for a run, the other holds the run and waits for the record,
and only the database's detector ends it.  `Leaderboard!FairSpec`: a client that
walks asks for its next page.

`ResultsPages!FairPagesSpec` adds `RequestsEnd` and `TimerFires`.  `RequestsEnd` says that a
request with a timeout is answered or fails: `fetchValidated` aborts after eight seconds.
Nothing makes the user retry, so `SkeletonsEnd` rests on the timeout alone.
`TimerFires == []<>~playing \/ []<><<Tick>>_playerVars` is weak fairness of `Tick` written
with its guard (`playing` enables it whenever the player is mounted, and it always
changes the state): the browser fires a timer that is armed and not cleared.
`Playback!FairSpec` has the same form, so that ENABLED does not have to pass through the
refinement mapping.  `UploadStudio`, `Shell` and `MobileApp` promise safety only: no
request of the studio or of the mobile application has a timeout.

## 4. Proofs

TLAPS proves the following for every value of the constants that satisfies the
named assumptions of the modules.

* `RunLifecycleProofs`
  * `TypeCorrect`: `TypeOK` is inductive.
  * `CompletedCorrect`: `CompletedHasResults` under every overlap and fault.  By itself
    it is not inductive: a session could flush *completed* over columns it believes
    unchanged.  `ResultsInv` adds that no loaded row is *ahead* of the committed one in
    the columns it names (`NotAhead`), so a skipped column is already there.
  * `RunningCorrect`: where workers do not die, time out or lose the database,
    *running* has a worker whose next status write will not be skipped (`Owns`).
  * `SerialCorrect`: with triggers one at a time, `SingleExecution`.  `SerialInv` ties
    the hash to where the id is: queued in the list, started in one worker, and not
    in flight while a trigger stands between its check and its enqueue.
  * `ScoreCorrect`, for `Overlap = {}` and every fault: `WriterInv` says that one upload
    or one job is in progress at a time, `ScoreInv` that the results a session loaded are
    still the committed ones, so its UPDATE writes score and document or neither.
  * `ServedCorrect`, for `Overlap = {}` and `Faults = {}`: `ServedInv` follows a writer
    through its saves.  A fault between the first save and the commit leaves a new
    document in the store under an old row, hence the condition.
  * `PathsCorrect`, for every overlap, crash and timeout, but no failing write and no
    failing commit: their clean-up is what deletes another request's artifacts.
    `PathsInv` extends the promise to the rows that sessions have loaded.
* `IdempotencyProofs`
  * `AbstractOnce`, `AbstractAnswers`: the promises hold of `KeyedWrites`; the
    invariant says that the effect of the present window is the one the record names.
  * `CreateRefines`: for the create endpoint, every transaction history, errors and
    expiry under running requests included, maps to `KeyedWrites`.  The step that
    matters is `Commit`: what it holds, the key's index entry (`KeysInv`) and the run's
    primary key (`RunsInv`), has kept both free since it inserted them.  `Refresh` is the
    answer, and a failure between the two a `Fail` of a performed write.
  * `CreateOnce`, `CreateAnswers` follow by composing the two.
  * `TypeCorrect` and `AckCorrect`, for creates and uploads: `TransactionInv` says that
    a transaction which holds a key holds it alone and that the committed record is still
    the stale one it found (`KeysInv`), and that the author of a record has committed.
    `OwnInv` follows a committed write until its record expires, acknowledged or not.
    Uploads do not implement `KeyedWrites` (two overlapping ones both write); this is
    what they keep of it.
* `LeaderboardProofs`
  * `KeysetIsOrder`: the OR of ANDs is the ORDER BY, for all integers;
    `RankingIsStrictOrder`.
  * `StayersCorrect`: `StayInv` says that on a page boundary a run that stayed was
    given exactly if it is not past the cursor.  `CursorCorrect`: the cursor descends.
  * `OnceCorrect`: a run that is not re-submitted is never given twice, even if others
    are.
* `ResponseCacheProofs`
  * `StalenessCorrect`: `StaleInv` dates every value held anywhere (entry, reader)
    against the commit that outdated it.
  * `FreshCorrect`: `FreshInv` relates an entry's stamp to what its process has
    acknowledged: an uncrossed entry under the current stamp shows all of it.
* `RateLimiterProofs`
  * `TypeCorrect`, and `DequesInvariant`: an admitted hit is in the deque of its
    process, once, until it is past the window give or take `Lag`, and nothing else
    is.  Deques are not sorted by time, because the clock is read before the lock is
    taken: what keeps eviction by the last hit harmless is that a late reading is
    late by at most `Lag`.
  * `RejectionCorrect`: a full deque is `Limit` admitted hits around the rejected one
    (`FullDeque`), and admitted hits stay so (`FinalCalls`).
  * `AdmissionCorrect`, for `SameInstant = FALSE`: the hits of a span that the newest
    admission belongs to are all among what its window counted.  For Redis, `Kept`
    says that an admitted member stays in the sorted set until it is past the window;
    it needs members to be distinct (`Numbered` within a process, `Instants` across
    them), or the ZREM of a rejected hit would drop an admitted one, and the sorted
    set to outlive them (`Sets`).  Distinct members also make the count an injection.
* `ResultsPagesProofs`, first the player on its own, for traces of any number of episodes
  of any length
  * `EffectsRest`: the effects of the second commit of `Settle` set nothing.  It and the
    next two rest on the lemma `EffectsLeave`: what the three effects together leave of
    each part of a commit, by what differs from the commit before.
  * `PlaysCorrect`: `PlaysWithinEpisode`.  Every handler is first brought to one of two
    forms, a `Settle` with a cursor in the old episode or a `Remount`; then two cases
    are left instead of a dozen.  The lemma `Rests` follows the two commits: another
    length stops a timer the first commit had armed, another episode of the same length
    rewinds in the first and arms the timer again in the second.
  * `RewindsCorrect`: `SwitchRewinds`, from the same lemma.  `StripCorrect`: `StripHoldsCursor`, from the
    division that rounds up.
  * `PlaybackRefined`: `FairPlayerSpec => ImplementsPlayback`.  Each step is a command, a
    load, an advance or a stutter; a `Tick` is an `Advance` in a reachable state, so the
    fairness of the one is that of the other.

  then the pages, for any runs, tracks, cap, scores and traces
  * `PagesInv`: what the cache has of a key is of the kind the server gives for it (a board
    has runs of its track), the selection is without repetition and within the cap, and
    the player has the lengths of the trace that is shown (`Given`).  Each action is
    first brought to one of a few forms (`EveryTurn`), then the invariant is shown of
    those.
  * `WinnerCorrect`: the tally after *i* turns of `bestIndex` knows the first unbeaten
    value among them, how many are present and whether two differ (`TallyTurn`).
  * `ComparisonCorrect`: `ParseProperties` says what `parseRunIds` keeps of any list; a
    selection within the cap loses nothing on its way through the link
    (`LinkKeepsAll`).
  * `ViewsCorrect`, for every list of lines, broken ones and records with missing or
    mistyped fields included: `ReturnsAgree`, `GoalsShown`, `BarsShowSuccess` (every step
    has its bar), `EventsListed`.
  * `PagesPlay`: whatever the pages do, the player in them makes a step of its own
    specification or none.  `PagesPlayerCorrect` and `PagesImplementPlayback` carry what
    was proved of the player over to the pages.
* `ShellProofs`, for any pages, tabs, schemes, capacity and numbers of gestures
  * `OverlaysCorrect`: while closings are in order, the layers are `Nested`: each has
    saved the style under it, which is empty for the first and *hidden* for the others.
    Unmounting and Escape need the same of lists from which several layers go at once
    (`HideEverySound`).
  * `ToastsCorrect`: ids grow with the list and none exceeds `made`, so a new timer
    belongs to no other item and the one cleared was that of the item removed.
  * `TabsCorrect`, `PaintCorrect`: `ThemeInv`, the two together with what the inline script
    has painted before the hydration (`PaintedFresh`).
* `ClientsProofs`, for the studio
  * `StudioInv` is the type, `TriesInv` and `CardInv`.  `TriesInv` ties each submission to
    the server (`Own`): the only run it made is the one it names, that run has no files
    until its upload is performed and then those of the form that was submitted, and an
    upload that was answered was of these.  `CardInv` says the card is of the page's last
    submission, which is over and whose upload was answered.
  * `OneRunCorrect`, `SuccessCorrect`, `PublishedCorrect` follow, for every number of
    submissions, pages, ids and files.
* `ClientsProofs`, for the mobile application
  * `TypeCorrect`, `SpinnerCorrect`, `EmptyCorrect`, `RunCorrect`, for any number of runs and
    of requests in flight.  `SpinnerInv` adds that
    loads which take turns leave at most one in flight (`Alone`); `EmptyIfOvertaken` follows
    from it and `ReceivedInv`, which is of lists no load of which is in flight.
    `RunShownWasAsked` needs `TurnsInv`: unless loads of runs raced, what is in flight is
    the run asked for last, and once nothing is, the card is of it or there is none.

Induction.  Loops over lists and sums have no bound here, and the theorems of the
library that take a predicate as a parameter cannot be applied.  `Induction` and
`TurnByTurn` are proved instead for a *set* of numbers: a set that has 0 and, with each
number, the next one is all of `Nat`, because otherwise it would miss a least one.
`Loop` gives the values of a function that is defined turn by turn, and each loop's
invariant is then the set of the numbers of turns after which it holds.

Every invariant, action property and refinement that a run checks is stated by a
theorem, under the conditions named above.  Only model-checked: liveness (`JobSettles`,
`RunComesToRest`, `EveryRequestAnswered`, `WalkEnds`, `SkeletonsEnd`), which is out of
the prover's reach, and so is ENABLED.  `CreateRefines` and the theorems that rest on it
are of the create endpoint.  The two runs that check `ScoreMatchesDoc` and `ServedMatchesRow`
have the conditions of their theorems.

Assumed, and not proved: READ COMMITTED as described in `Idempotency`; RQ's use of
a list and a hash; that a handler takes at most `Slow` between query and `set`, and a
hit at most `Lag` from its clock to its window; that a GET's query is one snapshot; that React is through with a commit
and its effects before the next event, and that React Query keeps at most one request per key in flight.

## 5. Plan

Done: lifecycle, idempotency, leaderboard, cache and limiter; then the player with its
refinement, the results pages, the studio, the shell and the mobile application; and the
proofs of every safety property the runs check.  Left,
in this order:

1. `Seeding` (replicas that seed at once, and die while they do);
2. `ApiKeys`: rotation in two commits, bootstrap key that retires itself,
   authentication between them, with an abstract "one live secret" specification;
3. `Episodes`: the harness loop, its budget and the three environments, with the
   oracle's guarantees as a property of the environments;
4. `TreeSearch`: MCTS with its budget, deadlines and back-up.

## 6. Not modelled

Learning agents and world models compute over real numbers.  Observability,
problem documents, headers, CORS and OpenAPI render state and keep none that another
part reads.  OFFSET paging promises nothing under changes.  `purge_expired` has no caller.
Migrations run before the processes start.  Text (cursor encoding, JSON, keys) is
abstracted to what it identifies.

Of the web application: the home page, about, documentation, changelog, charts and
visuals show what they are given; badges and preview images are rendered anew for each
request from one fetch.  Of the modelled pages, layout, formatting, accessibility
attributes, search boxes and filters over rows already fetched, the palette's own
queries and the return of the focus, and links of the nav bar from one results page to
another are left out.  The speed of playback scales a delay and decides nothing else.
In `toggleTheme` a refused write throws while `ThemeProvider` renders, and React gives up
the whole tree for `global-error.tsx`: a tab without a shell, left out.
A query's one retry is folded into `Fail`.  What the endpoints do inside one request is
one step in `UploadStudio` and `ResultsPages`: `RunLifecycle`, `Idempotency` and
`Leaderboard` take it apart.
