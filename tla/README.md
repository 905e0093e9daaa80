# Formal models of Better TTS UI Studio

TLA+ models of the backend (`src/backend`, Go) and of the parts of the
browser client whose control matters (`src/frontend/src`). Each module is
translated from the code at this commit; comments in the modules name the
functions they stand for, and `PROJECT.json` maps every definition to its lines.

    tlc -workers 2 -config task_faults.cfg MCSynthTask     # a run
    tlapm SynthTaskProofs.tla                              # the proofs

## 1. The system

A browser submits texts to a **web** process, one chunk at a time. The web
process inserts a `tts_jobs` and a `tts_chunks` row (Postgres), creates the task
(a `TaskItem` in RAM and the record `task:<id>` in Redis) and appends an entry to
the Redis stream `tts:jobs`. A **worker** takes the entry, runs `synth.Run` (call
the Engine, transcode, store the audio, write the row, announce the end) and the
browser follows the task through SSE or polls. A **cron** process gives up on
rows that stay unfinished and sweeps temporary files. Several web processes and
workers may run; they share nothing but Postgres, Redis and the object store.

| Component | State | Operations | Interacts through | Module |
|---|---|---|---|---|
| Task and its run (`state/`, `synth/pipeline.go`, `handlers/unified.go`, `handlers/tasks.go`, `db/`) | row, audio object, Redis record, one item per process, cancel flag, Engine context | submit, GetOrCreate, SetOwner, Get, Cancel, WatchCancel, Run, Notify, status | SQL, GET/SET, PUBLISH/SUBSCRIBE, the stream | `SynthTask`, `ChunkLifecycle` |
| Queue and workers (`queue/`, `worker/`, `synth/local.go`) | stream, consumer group, slots, runs in progress | Enqueue, EnsureGroup, Consume, handle, stop, GoLocal, WaitLocal | Redis stream | `JobQueue` |
| Reconciler (`cron/reconciler.go`) | none of its own | one UPDATE of stale rows | SQL | `SynthTask` |
| SSE streams (`handlers/tasks.go`, `state/task_pubsub.go`) | viewers of a task, one subscription and its generation, buffered channels | open, snapshot, forward, fan out, close | Redis channel, channels in RAM | `SseStream` |
| Task map (`state/task_manager.go`) | items in RAM, age and viewers, one lock | Get, GetOrCreate, Cleanup | read by every handler | `TaskMap` |
| Sessions (`handlers/auth.go`, `db/sessions.go`, `lib/api.ts`) | session rows, families, the cookie jar of the tabs | login, refresh with rotation, logout, purge, expiry | SQL, cookies | `AuthSession` |
| Accounts and user cache (`handlers/auth.go`, `middleware/auth.go`, `middleware/user_cache.go`) | user rows, access tokens, cached users | register, approve, login, look up, put, invalidate | SQL, Redis | `RequestGate` |
| Limits (`middleware/ratelimit.go`, `middleware/concurrency.go`) | Redis windows, windows in RAM, slots, trusted proxies | allow, reap, ClientIP, take and give back a slot | Redis script, RAM | `RequestGate` |
| Manifest and preset voices (`state/manifest.go`, `types/manifest.go`, `handlers/engine_sync.go`, `internal/presetvoicecache`) | current manifest, tagged voice lists | discover, reload, validate, resolve, get, store | Engine HTTP, RAM | `EngineManifest` |
| Voices and uploads (`handlers/tts_clone.go`, `handlers/upload.go`, `storage/`, `cron/`) | voice rows, objects, Engine registrations | upload and its undo, delete, sweep | SQL, store, Engine | `VoiceLibrary` |
| Job rows and history (`db/`, `handlers/history.go`) | job and chunk rows | EnsureTTSJob, RegisterJobAndChunk, summaries, detail, pages | SQL | `JobRows` |
| Streaming panel (`StreamingPanel.svelte`, `lib/api.ts`) | chunk list, position, pause and running flags, EventSource; the detail the App keeps | start, attempts, pause, resume, play, close, read a detail, mount it again | HTTP, SSE | `StreamingPanel` |
| History modal (`HistoryModal.svelte`) | list, cursor, requests under way | open, load more, close | HTTP | `HistoryModal` |
| Transcoding, presence, start-up, generated code, other views, example engine | see section 6 | | | |

Behaviours that are hard to test, with their lines, are the `hazards` of
`PROJECT.json`, each with the properties that are about it. In short: the task
record is a read-modify-write over Redis without a version; a cancel races the
run through four places (flag in RAM, record, channel, row); Redis keeps nothing
over a restart; deliveries are never retried, while the client library sends commands
again that may have been executed; viewers and runs subscribe without waiting for the
confirmation; two items of one task can exist; refresh tokens rotate while several tabs
use them; caches are filled from reads that may be old; a file and its row are
written by two systems; the browser's loops outlive the clicks that started them.

What makes each component correct:

* task: "done" only over stored audio; the stores agree once the run is over; a
  cancel reaches the run; no row stays unfinished; a finished row stays finished;
* queue: no job disappears without a named cause; none runs again but for an XADD whose
  answer was lost; what waits is started;
* SSE: a viewer that was there before the end hears of the end; one subscription
  per watched task; none without viewers;
* task map: the item somebody uses is the one in the map; a late look-up sees the end;
* sessions: a family has one deadline and one owner; a session nobody left
  survives; who logged in or out last is obeyed;
* user cache and limits: whoever holds a token is served; at most the limit per
  window between two restarts of a counter, with Redis and without; slots come back;
* manifest and its cache: never a contradictory one, never an older one by itself;
  a replaced list of voices is not served beyond its bound;
* voices: a row always has its file; no file is left behind silently;
* rows, panel, history: both views of a job agree; no chunk is synthesized twice
  without a reason; pages neither skip nor repeat.

## 2. Modules

| Module | Models | State |
|---|---|---|
| `ChunkLifecycle` | what a chunk row promises: created, perhaps withdrawn, reported on at most once per run, "done" only over durable audio | abstract specification of `SynthTask` |
| `SynthTask` | one task across all processes, in steps of one Redis command, SQL statement, store write or critical section | implements `ChunkLifecycle` |
| `JobQueue` | jobs between the web process, the stream, the group and the workers | |
| `SseStream` | the viewers of a task at one web process, the Redis subscription they share, its generations | |
| `TaskMap` | the items of one task in one process: two may exist, one of them no longer in the map | |
| `AuthSession` | families of refresh tokens and the tabs of one browser | |
| `RequestGate` | what a request to `/api/extract-text` passes: token, user cache, slots, counters | |
| `EngineManifest` | the manifest, its reloads, the cache of preset voices | |
| `VoiceLibrary` | uploads, deletions, the sweeper and restarts | extends `EngineManifest` |
| `JobRows` | the rows of jobs and chunks, and the two views of them | |
| `StreamingPanel` | the chunk loop of a browser over the rows | extends `JobRows` |
| `HistoryModal` | the paged list of a browser over the rows | extends `JobRows` |
| `MC*` | model values for TLC, one for each specification | |
| `*Proofs` | the theorems about `SynthTask` (with `ChunkLifecycle`), `JobQueue`, `SseStream`, `TaskMap`, `AuthSession`, `RequestGate`, `VoiceLibrary` (with `EngineManifest`), and in `JobViewsProofs` about `StreamingPanel` and `HistoryModal` on `JobRows` | |

Each component is cut where its code is: a place of `pc`, `at` or `loop` is a
point where the code waits (a Redis or SQL command, a call of the Engine, a lock,
an `await`) and lets others go on.

### SynthTask

`row`, `stored` and `key` are the chunk row, the audio object and the Redis
record; `ram[p]` is the `TaskItem` in the map of process `p`. The main thread of a
process (`pc[p]`) serves the submission (`Register`, `GetOrCreate*`, `SetOwner*`,
`Send`: `UnifiedHandler.Synthesize`) or runs the task (`GetOrCreate*`,
`Watch*`, `CallEngine` ... `NotifySet`: `synth.Run`); after a failed `Send` the
submitting process runs the task itself. `cpc[w]` is a cancel request
(`TasksHandler.CancelTask`), `PollReads`/`PollApplies` a lookup by a poll, an
owner check or a stream, `Hear` the goroutine of `WatchCancel`, `Reconcile` the cron
job. `Crash`, `LoseKey` (expiry, Redis restart) and `LoseMessage` are the environment.

Every place where the code lets go of control is a place of `pc` or `cpc`:
between GET and SET in `GetOrCreate`; between the update of the item and the
marshalling in `Notify`, two critical sections of `TaskItem.mu`; between the SET
and the PUBLISH, two commands of one pipeline that is not a transaction. Failed
calls follow the code: errors of a SET are ignored, of an UPDATE logged, a failed
GET reads like a missing key, a failed store write becomes an error.

Abstractions, each with its reason:

* Progress, texts, formats and audio bytes are left out: no step branches on them.
* One task: tasks share only the slots (`JobQueue`) and the lock of the task map;
  what the lock does to this task is kept (`MapLocked`).
* One item per process. `TaskManager.Get` can install two for one task in a race
  and `Cleanup` can evict a live one; `TaskMap` is about that.
* The task id is the server's own UUID; one that a client supplies is not modelled.
* `Subscribe` only writes its command: a subscription is `"asked"` until Redis has
  executed it (`WatchJoins`), which may be after the re-read. Without Redis
  `WatchCancel` polls instead; that deployment is not modelled.
* A second entry of the task in the stream, from an XADD that the client has sent
  again (`Send`), is a second message for a worker; `JobQueue` has the stream itself.
* The two lookups at the start of `CancelTask` (owner, then status) are one.
* The reconciler may act at any moment: `updated_at` is not refreshed between the
  insert and the last write, so any unfinished row may be old enough.

### JobQueue

`stream`, `last` and `group` are the Redis stream, the position of the group in
it, and whether the group exists; an entry is a task and a number that tells copies
of it apart; `wpc[k]` follows `worker.Run` and
`queue.Consume`, `slots[k]` the tokens of the slots channel, `running[k]` the
goroutines in `synth.Run`, `inline` the runs of `synth.GoLocal`. `XAdd` trims as
`MAXLEN ~` may: down to the cap or not at all, or anything in between. The client is made with the
default number of retries, so a command without an answer is sent again: an XADD then
adds a second entry and is reported as a success, or is given up, and the web process
runs the task itself. A read whose answer is lost takes its entry along, whether it is
sent again or fails, since nothing reads the pending list; the pending list itself is
therefore left out. A lost answer to the creation of the group ends the worker although the group exists. An entry that cannot
be decoded does not occur, since only `Enqueue` writes entries. The deadline of
`WaitLocal` is one of the ways in which the web process dies (`WebDies`).

`acked` records what `XACK` does; no step reads it, as in the code.
`lost`, `unanswered` and `starts` are history: the jobs a fault, a burst or a stop
signal took, how many XADDs of a job were executed without their answer arriving, and
how often a run was begun. The properties are about them.

### SseStream

`subs`, `live` and `gen` are `TaskItem.subscribers`, whether `pubsubCancel` is set,
and `pubsubGeneration`; `fwd` holds every forwarder that was ever started, with the
messages Redis has sent it (`queue`) and the one it has taken and not yet handed on
(`hand`). `vpc[v]` follows `StreamTaskProgress`: `Look`, `LookApplies`
(`TaskManager.Get`), `Subscribe`, `Snapshot`, `Receive` or `Leave`, `Unsubscribe`;
a browser that has not heard the end looks again. `NoStream` ends a request that
only looked. `npc[n]` follows `Notify` of a run or a cancel, in this process or
another. `Init` chooses whether Redis is configured and which notifiers are here.

Abstractions, each with its reason:

* An update is its number: every call of `Notify` in the program announces a
  final status, so "done" stands for all three.
* The task is in the map of the process, with one item (see `TaskMap`).
* A channel holds one update instead of ten, so that it can be full.
* `Notify` marshals the item and sends its SET in one step: what may happen in
  between is in `SynthTask`. Its SET may fail, its PUBLISH may fail alone.
* Redis executes a SUBSCRIBE some time after `Subscribe` has returned
  (`ForwardJoins`), since nothing waits for the confirmation; `SynthTask` has the same
  for `WatchCancel`.
* A viewer reconnects as a new request with a new channel; `MaxOpens` bounds how
  often, over all viewers.

`since`, `late`, `owed` and `setBack` are history. `setBack` marks that a `Get` has
put an old record over a final status: a lookup that has read before the end and
applies after it. The process then lives with the old status until it looks again.

### TaskMap

`map` is the entry of one task in `TaskManager.tasks`, `items` every `TaskItem`
that was ever built for it, `lock` the run that keeps `TaskManager.mu` over the two
round trips of `GetOrCreate`. A lookup is `Get` in its steps: `GetLook`, `GetReread`
(the record of an item that is not final is read) and `GetApply` (a round trip later
it is put over the item, whatever that has become meanwhile), or `GetFetch`, `GetInstall`,
`GetReadBack` (the map is read once more, without the lock) and `GetAnswer` or
`Subscribe`. `Cleanup` applies its two conditions to age, status and viewers.
`Elsewhere` is what other processes record.

Time is counted in ticks; only the comparisons with `taskRetention` and
`taskMaxLifetime` read it. That Go may end the process for the read without a lock
is told in the findings; the model takes the value the map has at that moment.
`severed`, `undone` and `robbed` are history: items that left the map while in use, a
final record that was overwritten by one that is not, and lookups whose final answer
the late read of another one has overwritten.

### AuthSession

A token is the number of its row, its claims are user and deadline. `row` is
`auth_sessions`, `refresh` the cookie of the jar, `pc`, `tok`, `sess` and `answer`
one request per tab: where its handler stands, the cookie it was sent with, the row
it has read, the cookie it will set. `RefreshRead` is `Refresh` up to the
transaction, `RefreshRotate` `RotateRefreshSession`, `Refused` the retry of
`doRefresh` in `lib/api.ts`, `Lost` an answer that never arrives.

* A purge comes with a login, as in the code; it removes the rows that are past
  their deadline.
* Users are approved and stay so; passwords and signatures are taken to work.
* `RevokeFamily` exists in SQL and is called by nobody: reuse of a replaced token
  is refused and has no other effect.
* `ended`, `raced`, `cut`, `wish` and `crossed` are history: which families had a
  logout, overlapping requests, a lost command or answer; whose session the last
  login or logout left, and whether a refresh was under way at that moment.

### RequestGate

`account`, `token` and `cache` are the user rows, the holders of an access token
and the records `auth:user:<name>`. A request looks its user up (`LookupHit`,
`LookupMiss`, `LookupPut`), is judged (`RequireActiveUser`), waits for a slot
(`TakeSlot`, `LeaveQueue`), is counted (`Allow`) and works (`Work`). `Counted` is both
the Lua script and `keyedLimiter.allow`, which do the same to their windows. A call
goes to Redis, or to the RAM of its process when there is no Redis or it does not
answer in time; in that case Redis may have counted it all the same. When only the answer
is lost, the client sends the script again, and it meets its own first copy (`AllowResent`).

* `ClientIP` is an operator over the hops of `X-Forwarded-For`. The proxies it trusts
  are chosen at the start, independently of whether there is a Redis.
* The shipped Redis keeps nothing on disk (`docker-compose.yml:136`): `RestartRedis`
  empties its windows and the user cache, `RestartProcess` the windows of a process and
  its slots. `life` tells the counters before a restart from those after it. A Redis
  that keeps its data over a restart has merely been away, which needs no step.
* The `select` between a slot and the end of the request is a free choice; the
  order in which Go serves waiting senders is not modelled.
* `log`, `life`, `turnedAway` and `keptOut` are history.

### EngineManifest and VoiceLibrary

The Engine is external: it goes through `Declarations`, one per deployment.
`manifest` is the index of the one the process holds. `Discover`, `ReloadAsk`,
`ReloadSet` follow start-up and `ReloadManifest`; `ViewLookup`, `ViewFetched`,
`ViewFailed`, `ViewStore` follow `GetVoices` and the cache. `Pick`, `PickStrings`,
`ModeOf`, `SupportsCloning`, `ReferenceFormats` and `Validate` are the rules of
`types/manifest.go` on what the properties tell apart: modes, cloning, presets,
reference formats.

`VoiceLibrary` extends it: an upload goes through `UploadStart`, `UploadNamed`,
`UploadJudged` (two looks at the manifest), `UploadPut`, `UploadClone`,
`UploadInsert`, and `UploadUndo` when a step after the file has failed. A deletion
removes the row and then the file. `Leave` ends the context of a request, which
cuts off the S3 store and the database but not the local store nor the Engine. `Restart` forgets
whatever the web process was doing.

* Object names are fresh UUIDs and the Engine's ids are taken to be fresh, too; a
  voice is named by its upload. Voices of different users are not told apart.
* The local `Put` is one step: the rename decides. A crash before it leaves a
  `.tmp-*` file that nobody sweeps, which no reader sees.
* Nothing writes a `TempKey` in this version; the sweeper finds what earlier
  versions left. `UploadTempVoice` changes the Engine only, and is left out.
* An Engine that is set back to an earlier version string may have its old voices
  served until the time to live is over; `Declarations` may say so.
* `since`, `asked`, `under`, `unheard` and `leaked` are history.

### JobRows, StreamingPanel, HistoryModal

`JobRows` has the two statements of `RegisterJobAndChunk` (`EnsureJob`,
`CreateChunk`) and the two views that must agree: `Summary`, grouped by SQL, and
`DetailStatuses`, put together in Go from `Best`. `TaskEnds` is what
`ChunkLifecycle` promises: a row is withdrawn or reported on, and a withdrawn one may
still be reported on. Two faults are added: the UPDATE of a stored result fails, which
is logged, and done is announced all the same (`EndUnsaved`, `pipeline.go:112-131`); and a
second run of a task, of which `JobQueue` tells, ends otherwise than the first (`EndAgain`).
`strayed` are these tasks, and `Told` is what the stream says of a task: done, or strayed.

`StreamingPanel` extends it. `detail` is `reloadedJob` of the App: read from the rows at
one moment (`ReadDetail`), there at a later one (`DetailComes`), and applied whenever the
engine panel is mounted, at once or after other views (`Remount`), until the panel is
closed. A chunk that got its row since is pending in it. `loop` is `generateChunksLoop` between two awaits:
waiting for the answer to a submission, for the stream, or the two seconds before another
attempt. `panel` are the variables of the component. There are two loops since nothing keeps
`InitJob`'s answer from starting another one after a Resume; `orphans` are
submissions that a closed panel is still going to make. The stream may report a
cancel before its row is written. Text splitting, audio elements and the wording of messages are left
out; `InitAnswered` goes on whether or not `InitJob` succeeded, as the panel does.

`HistoryModal` extends `JobRows` as well: `Serve` is the handler with its cursor
(`Older`, `Ordered`), `Receive` and `FetchFails` the two ends of `loadHistory` and
`loadMore`. `Zone` is the offset that the cursor's literal `Z` hides.

`restored`, `doubled`, `dropped`, `strayed`, `there` and `crossed` are history.

## 3. Runs

| Run | Instance | Shows |
|---|---|---|
| `task_races` | two web, one worker, two cancels, polls, no failure | `DoneIsInHistory`, `StoresAgree`, `EndIsVisible`: what readers see agrees; `OnlyTheGapsLoseCancel`: a cancel is missed in three named gaps only |
| `task_faults` | one web, two workers, one cancel, one failure, fair | `DoneIsDurable`, `ImplementsChunk`, `EventuallySettled` |
| `queue_jobs` | two jobs, two workers with one slot, cap 1, one fault, one Redis restart, fair | `NoJobVanishes`, `NoSecondRun`, `NoLossBelowTheCap`, `EveryJobStarts` |
| `sse_streams` | two viewers, two notifiers, two connections, one failed command, fair | `OneSubscription`, `NoOldNews`, `LatecomersSeeTheEnd`, `EndComesThrough` |
| `task_map` | two lookups, one run, three items, retention 0, lifetime 1, two ticks, one fault, fair | `CopiesHaveACause`, `GetFindsItsItem`, `LateLookupsSeeTheEnd`, `LookupsEnd` |
| `sessions` | two tabs, two users, three tokens, lifetime 1, two ticks, one fault | `OneDeadline`, `SessionSurvives`, `JarIsLive`, `SafeOneAtATime`, `LastWordCounts` |
| `extract_route` | three connections to two processes, a new user, one slot, limit 1, window 2, skew 1, three calls, one restart, with Redis and without, two trusted proxies among three addresses, fair | `EveryWindowHolds`, `RefusedOnlyWhenFull`, `ActiveIsServed`, `ForgedHopsAreIgnored`, `WaitersGetThrough` |
| `engine_voices` | three declarations (one contradictory, two of one version), two reloads, a viewer, an upload, a deletion, time to live 0, calls of one tick, S3 store, one fault | `OldVoicesExpire`, `RowsAreUsable`, `FilesHaveOwners`, `JudgedByItsMode`, `ReloadNeverDowngrades`, `HitsMatchTheManifest` |
| `panel_chunks` | two chunks, three submissions, two attempts, two jobs of which one is another user's, one detail at a time, one fault | `DetailAgrees`, `ChunksAreTheOwners`, `ReadyIsInHistory`, `WorkIsNotRepeated` |
| `history_pages` | eight jobs (five of one user, four of these of the same moment, two of another's, one yet to come), pages of two, two requests, one fault | `PagesMissNothing` |
| `cancel_lost` | violation | `NoCancelFallsThrough`, a claim of a comment |
| `sse_missed` | violation | `EveryStreamEnds`, a claim of a comment |

The bounds, and why they are enough. Two web processes show every race between
two of them, a third adds a repetition; each request thread occurs once per
process. Three tokens are a login and two rotations, or two sessions of two users;
two tabs race, and the third request of a race is the retry that `doRefresh` makes.
One slot and two connections to the same process make one wait, and the third connection
is counted elsewhere; a limit of one and three calls fill a window, drop from it, are counted
twice across a restart and refuse. The second worker of `task_faults` takes the second
entry of an XADD sent again. A window of two ticks with a skew of one lets stamps
arrive in the wrong order. Three items are two lookups and a run that each
build one. Three submissions are two chunks and a retry, a chunk, its
retry and the orphan of a closed panel, or two chunks and the second one again, from a
detail that was read before it. `Later` says whether jobs of one moment occur: in
`history_pages`, where they matter, they do. Five jobs in pages of two have a boundary inside the
four of one moment. `MaxFaults` and `MaxRestarts` bound what the environment does; the
counts are in the guards of the actions that use them. The theorems of section 5
hold for every value of the constants, these bounds among them.

`TypeOK` is in no run: it is proved for every specification that has a proof module.
Where a run uses symmetry (tabs and users, administrators) it checks safety only.
`CHECK_DEADLOCK FALSE` everywhere: the instances are bounded, and where all has been
done nothing has to happen.

### What disagrees with the code's own words

`findings` of `PROJECT.json` quotes every line. Two are runs of their own:

* **cancel_lost.** `GetOrCreate` reads the record and writes its own copy with an
  unconditional SET (`task_manager.go:43-81`), and so does `SetOwner` (`124`). A
  cancel stored and published in between is overwritten, and `WatchCancel`, which
  subscribes and re-reads afterwards, finds nothing. The comment at
  `task_item.go:189` says that no execution falls through both gaps.
* **sse_missed.** A stream looks the task up, subscribes, and sends the copy in RAM
  without reading the record again (`tasks.go:369`, `403`, `407`). An end that
  another process publishes between the first two steps is in the record, but not
  in the copy and not in the subscription; no later update comes, and the stream
  stays open. `api.ts:344` relies on the snapshot. What does hold is
  `LatecomersSeeTheEnd` (a lookup after the publication finds it) and
  `EndComesThrough` (a publication after the subscription arrives).

The others are told by what a property has to except:

* `OnlyTheGapsLoseCancel`: a run past its last look at the cancel flag writes "done"
  over "cancelled", though `task_manager.go:178` counts on finished tasks not changing. And
  a cancel that is stored and published after the re-read of `WatchCancel`, but before Redis
  has executed its SUBSCRIBE, reaches nobody: `task_item.go:186-190` says that the
  subscription has been confirmed by then, which `Subscribe` does not wait for. This is the
  third gap, `unheard`.
* `LateLookupsSeeTheEnd`: a lookup puts what it has read over the item a round trip later,
  "processing" over "done" if need be (`task_manager.go:187`).
* `NoSecondRun`: an XADD that was executed and not answered is sent again.
* `ReadyIsInHistory`: a chunk is ready in the panel though the UPDATE of its row has
  failed, and the history will report it as failed (`pipeline.go:112`).
* `EveryJobStarts`: after a Redis restart the group is gone until a worker is
  started again; new jobs wait.
* `NoJobVanishes`: an entry is acknowledged when its run was begun, or dropped at a
  stop signal, not when its outcome was written (`job_queue.go:95`).
* `CopiesHaveACause`, `GetFindsItsItem`: two items of one task do occur, and `Get` can
  return a nil item with `true`.
* `SafeOneAtATime`, `JarIsLive`: two overlapping refreshes leave two live tokens, a
  refresh that has read its token before a logout leaves one after it, and a second
  refusal does not show that a session is dead.
* `HitsMatchTheManifest`: an entry is stamped when it is stored, not when it was fetched.
* `FilesHaveOwners`: the clean-up of an upload ends with the request of a client that has left.
* `WaitersGetThrough` is what holds of the slots, which one account can fill.
* `WorkIsNotRepeated`: a chunk that is playing is synthesized again, a panel
  closed during the wait before an attempt submits once more, and one that is mounted
  again from an older detail submits what has been submitted since.
* `PagesMissNothing` needs a process in UTC (`Zone = 0`).

Divergences that need no run: `docs/ARCHITECTURE.md:118` and `docs/BACKEND.md:82` give
a chunk row the status "processing", which nothing writes (rows go from "pending"
to their outcome); `docs/BACKEND.md:15` calls the queue at-least-once, while a
delivery that is lost is never repeated; the voice of a deleted row stays in the
Engine (`tts_clone.go:303`); `GetVoices` lower-cases the mode it compares
(`unified.go:68`); the fill-in of audio in `Get` (`task_manager.go:193-203`) keeps audio in RAM,
which `pipeline.go:90-94` says is not done; `auth.go:457-458` speaks of an
approved user who stays blocked until the cache expires, which cannot happen
while `Login` refuses whoever is not approved (`ActiveIsServed`).

Seen in the browser's code while modelling, each kept in the model as it is: a
reloaded chunk is shown as ready whatever its row says (`StreamingPanel.svelte:107`);
"All chunks synthesized successfully!" is shown after chunks have failed, and after
a 401 (`240`, `250`); a Resume while `InitJob` is under way starts a second loop
(`292`); `loadHistory` is not held back by a request of `loadMore`, so that a late answer can
be applied to another list (`HistoryModal.svelte:45-84`, the `crossed` of the model).

## 4. Fairness

`SynthTask!Fairness`: a goroutine that can go on does; every Redis and SQL call
and the Engine client have timeouts; the cron process repeats its query for ever;
some worker takes a waiting message. Nobody has to submit, cancel or poll, and
nothing has to fail. That Redis ever executes a SUBSCRIBE is not assumed. A dead process
is not revived in this module.

`JobQueue!Fairness`: a worker that is down is started again (`restart:
unless-stopped` in `docker-compose.yml`); its loop goes on; runs end, since the Engine call
has a timeout; the web process goes on to `Enqueue`. Weak fairness is enough,
except that two workers that both wait for the same entry take turns by whatever
Redis does: either of them may take it.

`SseStream!Fairness`: a notifier that has begun, a request before it waits for
updates or after it has been told to end, and the forwarders go on. Nobody has to
connect or to leave, and a waiting stream is not made to end by anything but an
update: this is what `sse_missed` is about.

`TaskMap!FairSpec`: a call of `Get` goes on, and a run that holds the lock of the map
goes on to release it, since both calls of Redis have timeouts. No lookup and no run has to
begin, `Cleanup` need not come, and a lookup that waits for the lock has no claim on
it beyond weak fairness: the run that holds it does so once.

`RequestGate!FairSpec`: a request that can go on does, each step by itself. `Work`
ends, since `/extract-text` works on a bounded body; `TakeSlot` needs only weak
fairness because the bounded number of calls lets the others run out; in the code a
blocked sender on a channel is served in its turn.

`EventuallySettled` needs the reconciler, not the runs: with a crash or a lost message it
alone ends the row. `EveryJobStarts` excludes the jobs in `lost` and the time without
a group. The other modules state no liveness: a browser need not go on, and an
upload or a deletion may stop with its process.

## 5. Proofs

Assumptions on the constants, all evaluated by the runs: `ProcessAssumption` (web
processes and workers are different, requests arrive at web processes),
`QueueAssumption` (at least one slot, a cap of at least one), `StreamAssumption` (a
capacity of at least one), `ItemAssumption` and `TimeAssumption` of the map
(nobody is not a run; retention is no longer than the lifetime), `SessionAssumption`
(nobody is not a user), `GateAssumption` (finitely many connections, a slot and a
limit of at least one, a skew within the window), and of the voices
`DeclarationsAssumption`, `TimeAssumption`, `ViewModeAssumption`, `VoiceAssumption`
(types, at least one declaration), and of the views `RowsAssumption` and
`PanelAssumption` (types, nobody is not a user, at least one chunk and one attempt). The
bounds of the counters are numbers, of any size. Sets of processes, workers, tasks,
viewers, tabs, users, uploads and deletions may be infinite; the jobs, too, but for
the theorem `Pages`.

`SynthTaskProofs`:

* `TypeCorrect`, `Spec => []TypeOK`.
* `DoneIsAlwaysDurable`, `Spec => []DoneIsDurable`. The property speaks of four
  kinds of copies but is not inductive: a copy in transit (`held`, `cheld`,
  `seen`) or a run between its store write and its row may spread "done" later.
  `Backed` adds them: as long as the object is not stored, nothing anywhere says
  done and no run is past its store write. With `DoneRowHasPath` and
  `RowComesFirst` it is `IInv`; the steps are proved action by action, with
  lemmas for what `Apply` and the small helpers return.
* `Refinement`, `Spec => ImplementsChunk`: each step maps to a step of
  `ChunkLifecycle` or to a stutter; `open` maps to the runs that have not written
  their row yet.
* `FinishedRowIsFinal`: `ChunkLifecycle!SettledForGood` for `SynthTask`, through
  the refinement.
* `DoneShowsInHistory`, `OutcomesAgree`, `EndShows` and `CancelReaches` are about what the
  copies say as long as nothing has failed. They speak of the record, the row and the
  readers only; `Calm` adds every place in between: what a run announces is
  what it has written (`Outcome`), "done" or "error" is said nowhere before
  the run has said it (`Heard`), every trace of a cancel comes from one (`Begun`), and once
  a cancel is stored, and no older copy was written over it, whoever still writes the
  record has read it since (`Lasting`) and the call is cut or about to be (`Reached`). `EndShows`
  excepts the gaps of the record only: a run that was never cut ends with an outcome of
  its own. `CancelReaches` excepts the late SUBSCRIBE, too.

`JobQueueProofs`:

* `NoSecondRun` and the bound on the slots follow from two facts that are
  inductive. An entry is in one place at a time (`OnePlace`): it is in the stream
  once, it is delivered once because nothing counts as delivered while there is
  no group, two workers never hold the same one, and it is not begun
  while it waits or is at hand; hence the tokens in a slots channel are
  the cardinality of the runs under way. And of a task, the runs begun, the entries
  that may still be begun and the XADD still ahead are one more at most than the
  XADDs without an answer (`BegunOnce`); the lemmas `CountStays` and `OneMore` move
  one of them along. `TypeCorrect` needs the first, too, since a run that ends takes a token out.
* `NeverRunTwice`, `OnlyBurstsLoseJobs` and `JobsAreKept` follow from it; `XAddStep` collects
  what the trim does to the stream.

`SseStreamProofs`:

* `OneSubscriptionEver`: the property speaks of the open forwarders only; it is
  inductive once the outdated ones are known to be of smaller generations, no two
  of the same (`Generations`), and `live` is known to follow the viewers
  (`LiveIsWatched`).
* `NoOldNewsEver`: with Redis, numbers only grow along the way from the queue of
  the open forwarder over its hand to the channels (`ForwardsInOrder`,
  `HandedOn`, `Channels`), and `Generations` says that no other forwarder hands
  anything on; without Redis, each notifier has a number of its own and has not
  yet served the channels it still lists (`OwnNumbers`).
* `TypeCorrect` needs `RecordsRead`: a `Get` applies a status it has read, never the
  absence of one.
* `Latecomers` from `EndIsKept`: until a command fails or the record is set back, whoever has
  notified left a final status in the item or at the key (`Told`), and that is
  what a viewer who comes after the end reads, wherever it stands.

`TaskMapProofs`:

* `TypeCorrect` with `Places`: what a lookup or a run holds at each place, and
  that the map stays empty while a run holds its lock.
* `Copies` and `FindsItsItem` speak of items that are written to, watched or about to be
  returned. They become inductive with `Traced`: an item that a lookup has in
  hand is in the map, or its leaving was noted.
* `LateLookups` needs `LateSoFar`: a late lookup has read the end wherever it
  stands, also between its read and the moment it applies it, and what it has built says
  the end, too, unless the late read of another lookup was put over it.

`AuthSessionProofs`:

* `TypeCorrect` and `Deadline` from `IInv`: rows are numbered as they are minted and
  their families agree (`Ledger`), nobody carries a token that was not minted
  (`Carried`), and what a handler has read agrees with the rows of its family and
  with what other handlers have read of it, also when the row has been purged
  meanwhile (`Held`). The last is why two racing rotations keep one deadline.
* `Survives`: `SessionSurvives` is inductive together with `IInv`; the rotation that
  touches no row still inserts a live one of the same deadline.
* `CookieIsLive` and `SafeAlone` from `Browser`. Of a family in which no two requests ever
  overlapped, one token at most is live, and it is the one that the only request
  carries or an answer is going to set (`Alone`); until an answer or a command is
  lost, the jar has it otherwise, and a logout leaves none (`Closed`). A token on its way
  to the browser is nobody else's and not revoked (`Newborn`), and one that was
  rotated is purged together with its replacement (`Paired`); so the jar's token is
  dead only for a reason that `JarIsLive` names (`Jar`).
* `LastWordHolds` from `Word`: as long as no refresh was crossed, all that any tab holds or
  is going to set is of the user of the last login.

`VoiceLibraryProofs`:

* `MInv` for the manifest and its cache: what is held was accepted (`Declared`), an
  entry is stamped after its voices were given and a fetch under way is younger than its time-out
  (`Fetched`). `Expire` is part of it; `NoDowngrade` and `HitsMatch` are action
  properties and follow from what a step can install (`InstallStep`) or serve (`ServeStep`).
* `VInv` for the voices: which of file, row and registration exist at every step of an
  upload and a deletion (`Story`), and what was judged when (`Judging`). A deletion can only
  meet uploads that are over, since it begins with a row.

`RequestGateProofs`:

* `HoldersAreServed` from `Persons`: only approved accounts have tokens, and nothing
  older than the approval is in the cache or in the hands of a request, because no
  request gets so far without a token.
* The slots taken are the cardinality of the requests past the queue (`Slots`), and
  no call is made beyond the bound (`Calls`).
* `WindowsHold` and `OnlyTheFullAreRefused` from `Counts`: what a counter holds was
  logged, and what was logged in the present life of a counter within the window of any
  call still to come is in it; no call was logged in a life still to come, so a restart
  begins with nothing. The lemmas `AtMost`, `FullLog`, `RoomLog` and `CountCall` relate the cardinalities of
  a counter and its log. The width is `Window - Skew`, since a call may find
  members dropped by one that was counted before it with a later stamp.
* `HeadersCannotLie` and `ForgedHops`: which hop of `X-Forwarded-For` counts, for headers
  of any length, where TLC enumerates short ones. The lemmas `LastOne`,
  `LastHopTells` and `FirstHopCounts` say that it is the last one that is neither
  empty nor a trusted proxy, whatever is written in front of it.

`JobViewsProofs`, first the panel:

* `TypeCorrect` and `Owners` from `RowsOK`: a request that has come to the owner of its job finds
  the user of the browser there (`Settled`), whatever becomes of the row.
* `ViewsAgree` from `RowsOK` alone: the number of indexes with a row that is done, which SQL
  counts, is the number of indexes whose `Best` row is done, which Go keeps; with
  the cardinalities of `FiniteSetTheorems`.
* `ReadyIsDone` and `NoSecondSynthesis` from `PanelOK`. Neither is inductive: what can be
  played and was not there from the start is said to be done (`Playable`), because a loop
  waited for its task, and done in its row unless the task has strayed; and a chunk is
  submitted again only when nobody waits, or knows. So
  a task that is still wanted is said to be done or a loop waits for it (`Accounted`), if
  nobody waits for it any longer its chunk is shown as ready (`Shown`), and as long as
  there was one loop only, it is on no chunk that has another wanted task (`Single`).

Then the modal, which is another specification on the same rows and comes in by `INSTANCE`:

* `Pages`, for a process in UTC and finitely many jobs (`Settings`). The property speaks of
  the list between requests; `PagesOK` adds the answer on its way: a first page is
  `Complete` by itself, a later one `Continues` the list as it stands, of which the
  request holds the last job. That it does is in `Ordered` (`OrderedFacts`: every
  job has one place, from the lemma `Places` on finite strict orders) and in the
  cursor (`OlderIsNewer`, where UTC is used); `Appended` puts the two together.
  It also shows that the filter of `loadMore` never drops a job there; `PagesStay`
  that a job created meanwhile changes nothing that is said of older ones.

The invariants were model-checked before they were proved.

Only model-checked: liveness (`EventuallySettled`, `EveryJobStarts`, `EndComesThrough`,
`LookupsEnd`, `WaitersGetThrough`), which is out of the prover's reach. Every invariant and
every other action property of the passing runs is a theorem.

## 6. Not modelled, and what is left

| Part | Why |
|---|---|
| Transcoding | a child process without state of its own |
| Presence of users | a sorted set with scores by time; no invariant worth a run |
| Start-up, configuration, routing | wiring, read once |
| Body limit | a comparison |
| Generated code | the SQL is modelled where it is used |
| Example engine | replaced in a deployment |
| Other browser views, splitting of texts | rendering; pure functions on strings |
| Fallback of the Engine client from gRPC to HTTP | decided once at start-up |
| Download of audio | reads only; its transcoded copies are a cache over stored audio |
| Validation of a synthesis request | decides on one request and keeps nothing |
| `WatchCancel` without Redis | polls its own RAM; one process only |
| A failing `InitJob` | the job then keeps the first chunk's text; texts are left out |

Left for proofs: an abstract specification of `JobQueue` (a task runs at most once, and
what is lost was trimmed) and one of `SseStream` (a viewer sees a growing prefix of
the numbers, then the end), with the refinements; they would state in one
place what the invariants say one by one.
Left for models: a composition of `StreamingPanel` with `SseStream`, in which
the stream that never ends (`sse_missed`) leaves the loop waiting for ever, and of
`AuthSession` with two browsers.
