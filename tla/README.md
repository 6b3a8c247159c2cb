# Ember Bridge: specification and verification

Ember Bridge is a desktop program (Rust, with a React window) that lets a web
application send embroidery designs to machines on the local network. It serves
a small REST API on the loopback interface and talks to two kinds of machine:
Brother machines over their own HTTPS protocol, and EmberConnect dongles over
HTTP and, for setup, USB serial. This directory holds TLA+ models of the parts
of it that are concurrent, fallible or stateful, what TLC finds about them on
small instances, and what TLAPS proves about them in general.

Paths below are relative to the repository; `server/…`, `brother/…` and so on
are under `src-tauri/src/`.

## 1. Inventory

| Component | State | Operations | Talks to |
|---|---|---|---|
| Upload queue, `server/jobs.rs` | counter, record map, order vector, channel, receiver | `enqueue`, `update`, `prune`, `start_worker`, `run_upload` | HTTP handlers (callers), registry and clients (calls), progress callback |
| Pairing, `server/pairing.rs`, `routes.rs`, `App.tsx` | one slot; the banner's copy of it | `begin`, `poll`, `pending`, `respond` | config (allowlist, token), browser tabs, desktop window |
| Configuration, `config.rs` | RwLock'd config, `config.json`, temp file | `load_or_create`, `get`, `update` | every handler, the pairing release |
| Brother client, `brother/client.rs` | none of its own; the machine's memory | `info`, `storage`, `upload` | the machine |
| EmberConnect client and tokens, `emberconnect/` | token map shared by all clients, its file; serial per client | `info`, `storage`, `upload`, `pair`, `TokenStore::{get,set,forget}` | the dongle, USB setup |
| Machine registry, `machine/mod.rs` | list of backends | `identify`, `discover_all` | backends |
| Discovery, `brother/discovery.rs`, `emberconnect/discovery.rs`, `routes.rs` | running flag, result cache, probe tasks | `discover` | network |
| Log, `logging.rs`, `LogsPage.tsx` | ring buffer, sequence counter, the page's last number | `push`, `since` | all |
| USB setup, `dongle_setup/` | session lock, request ids, line buffer | `dongle_info`, `_scan`, `_provision`, `_update_firmware` | serial port, token store |
| Access control, `server/auth.rs` | none | `require_token`, `cors` | every request |
| HTTP server, `server/mod.rs`, `state.rs`, `error.rs` | health record | `serve` | everything |
| Brother protocol, `brother/protocol.rs` | none | parsing, multipart bodies | client |
| Desktop UI, `src/` | page state, polled values | `usePolling`, pages | REST API |
| Shell, `lib.rs` | | start order, tray, window | worker, server |

What is hard about each, and what makes it correct:

* **Upload queue.** Handlers run in parallel. `enqueue` takes an id, registers
  the job under two locks, and sends the upload *after* it let go of them, so
  other calls register, prune and send in between. A body stream of a failed
  attempt may report progress late. *Correct* means: no job lost or run twice, one
  upload at a time, first come first served for sends that do not overlap, the
  map and the vector never disagree, pruning takes the oldest finished jobs and
  nothing else, every job ends, and a late report disturbs none of this.
* **Pairing.** Tabs of several origins, their calls split at awaits, a banner
  that shows an older state of the slot, requests that expire. *Correct*: the
  token goes once, only to an origin whose own request was approved, by the user or by
  a page that was given the token before (the route of the answer asks for the token alone).
* **Configuration.** Writes fail, the process dies between two file operations.
  *Correct*: the file is always whole, the token never changes, whatever was
  answered with success survives.
* **Brother client.** Transmissions are lost, late, refused, retried; the
  machine stores what the client gave up on. *Correct*: success means stored, the
  number of copies is bounded, a refused design leaves nothing, uploads end.
* **EmberConnect.** The upload worker and status calls share one token, which
  each forgets and replaces on a 401. *Correct*: that race alone never makes a
  read fail or lose an attempt, and calls end.
* **Discovery.** A sweep is a handler the browser can drop at any await, while
  the probes it spawned run on. *Correct*: one sweep at a time, the flag never
  left up, bounded traffic, a cache made of whole sweeps.
* **Access control and the server.** Two middlewares, routes without a token,
  preflights, an allowlist that changes between its reading and the answer.
  *Correct*: nothing acts without the token but pairing, and that only for an allowed
  origin, pages read only what their origin was allowed to, every request ends, the
  verdict on an address does not depend on which backend is asked first.
* **Log.** The sequence number is taken outside the lock, an answer is made of
  two reads, and the page's polls overlap. *Correct*: the page shows each entry
  once and misses none the ring keeps, but for one stored between those two reads.
* **USB setup.** Commands time out with the dongle still at work; its answers
  come late, torn or not at all; the end of an update is not matched by number; two
  commands let go of the lock before the port; a restart starts the numbers over.
  *Correct*: no command takes the answer to another one, what is reported as done was
  done, every command returns unless the dongle never stops talking to an update.
* **Polling.** Answers arrive out of order. Modelled where it decides something:
  the pairing banner and the log page.

## 2. Modules

| Module | What it is |
|---|---|
| `UploadService` | abstract specification: the status of each job as callers of the API see it |
| `PairingGrant` | abstract specification: what pairing promises users and pages about each request |
| `DurableConfig` | abstract specification: entries saved as a whole, in one step |
| `SweepService` | abstract specification: a list of machines replaced by whole sweeps only |
| `JobQueue` | the queue of `server/jobs.rs`, with the start order of `lib.rs` |
| `Pairing` | pairing slot, handlers, banner |
| `ConfigStore` | `config.json` and its in-memory copy |
| `BrotherUpload` | `BrotherClient::upload` against a slow machine |
| `EmberConnect` | calls of `EmberConnectClient` sharing a `TokenStore` |
| `AccessGate` | `require_token` and `cors` as operators on a request |
| `Discovery` | the network sweep with its flag, probes and cache |
| `ApiServer` | start of the server, a request's way through the gate, and the handlers of `Discovery`, of the allowlist and of `identify`: composes `AccessGate` and `Discovery` |
| `LogView` | ring buffer, log handler and log page |
| `DongleLink` | the USB setup commands over the serial link |
| `…Proofs` | inductive invariants, theorems and, where there is an abstract specification, the refinement of the module named |
| `MC…` | the instances TLC checks |

Definitions marked `\* mutant` are plausible bugs of the definition that follows
them. No specification uses them; each shows that a property would notice.

### JobQueue and UploadService

`records` is the map (its domain is the set of known ids), `order` the vector,
`channel` the mpsc channel, `rx` whether the receiver is still in its `Option`.
An `enqueue` call is named by the id it took: `AllocateId` (fetch_add),
`Register` (both locks: insert, push, prune) and `Send` are its three steps, and
`allocated` and `unsent` are the calls that stand between them. A worker task goes
`Receive`, `Begin`, `Identified`, any number of `Retry`, then `Finish` or `Fail`: the
retries are those of `with_retries`, inside the backend's call. Each attempt has a body
stream with its own clone of the progress callback; `Progress` is that callback, run by
whoever polls the stream. A failed attempt may leave its stream over (`AttemptFailed`),
also past the end of the job, until the HTTP stack lets go of it (`DropStream`), and
`update` looks at no state. The stream of the attempt that was answered is taken to be read
to its end: a machine answers a design it has. `left` is history: the jobs that ever left a
stream over.
Design bytes, names, addresses and times are left out; a job's progress counts
in `Size` units. `prune` is given by the positions it drops and what is left of the
vector, in order.

`UploadService` says the same to a caller: a job is unknown, queued, uploading,
done, failed or forgotten; only ended jobs are forgotten, and only so that `Keep`
ended ones stay; no queued job starves. `JobQueue` implements it under the
mapping `Status`; the mapping takes a pruned job to "forgotten".

### Pairing

`slot` is the RwLock'd option; a request's age is only whether it has expired. A
tab's call is `Call` (the allowlist is read and let go), then `Begin` or `Poll` under
the slot's lock, then, for a consumed approval, `Release` (the token is read and
sent). Between these the settings may change (`SetAllowed`), the request expire
(`Expire`) and the browser drop the call (`Abandon`: the handler stops at its next
await). `BannerFetch` is what the server answers to a poll of the banner and
`BannerShow` the moment the window shows it; answers on their way are a set, so they
overtake each other as overlapping polls do. `Click` disables the buttons until
`Respond` is through. The banner is not the only one to answer: `POST /api/pairing/respond`
takes the token for it, so a page that has the token answers the live request too
(`RespondAsPage`); who has it are the origins in `Paired` and those it was released to
(`Holding`). `consent`, `vouched` and `released` are history.

`PairingGrant` knows requests, what the user and the holders of the token said of them, and
the tokens given: a request is asked, decided as the user said of it or by a holder on his own
word, given its token once, or lapses. `Pairing`
implements it under `Standing`, which follows a request from the slot to the call that
consumed it (`Holders`): the slot is emptied before the token is read, so the slot alone does
not tell. A replaced request, one past its time and one whose call was dropped have all
lapsed. Banner, its answers and the allowlist are not in `PairingGrant` at all.

### ConfigStore

`memory`, `disk` and `tmp` hold a config, `Missing` or `Torn`. An update holds the
write lock from `Mutate` to `Rename`; each file operation may fail (`GiveUp`) and the
process may die between and during them (`Crash`). `Rename` is atomic, as on the
file systems the program runs on. `shown` and `answered` are history: tokens a
client has been given, and updates a caller was told succeeded, as long as no later
update of the same thing was tried. The saved machines are a set of addresses.

`DurableConfig` has no files: a change of one entry is made, then saved as a whole or
failed, and a crash goes back to what was saved last. A change that failed is not taken back
and may be saved by a later one, as in the code. `ConfigStore` implements it with the file as
what is saved and the memory as what is in use (`Content`); the temp file does not show. That
two updates concern the same thing (`KeyOf`) is that they change the same entry.

### BrotherUpload

The numbered comments follow those of `upload`. `Send` puts a transmission on `wire`
or loses it; the machine `Store`s or `Refuse`s it in its own time, also after the
client `GaveUp`. Reads change nothing and are one step that succeeds or fails, their
three attempts included. A design takes one file name of the machine, and free
memory is the number of free names. `FreeReported` says whether a session answer may
leave the free memory out (`upload_freesize` is an `Option`).

### EmberConnect

Each client's call goes through `/api/info` and then `/api/files` (a status call) or
the transmission (the upload worker). `ReadToken` reads the shared map; a 401 leads
through `Forget`, `Pair` and `SetToken`, after which a read repeats its request with
the token it was given, and a transmission leaves that to its next attempt. The
dongle mints a token per pairing, while its window is open or over USB (`UsbPair`,
`UsbSet` in `dongle_setup/mod.rs`), keeps the older ones, and forgets all in a `Reset`.
`Restart` loads the map from the file, which a failed `persist` may have left behind.
`trouble` is history: a loss or a reset since the call began.

### AccessGate, Discovery and ApiServer

A request is what the middlewares look at: path, host, origin, the token in either
header, whether it is a preflight. `AccessGate` translates each helper of `auth.rs`;
headers are abstracted to what their parsing tells apart, so "another host that starts
like ours" is a value of its own.

`Discovery` has one record of progress per call. A probe is a backend and an address
(`Swept`, `Heard`): a dongle in the /24 is dialled by the sweep and asked again once it was
heard, and would be listed twice if both backends took it for theirs. `Start` takes the flag or `Refuse`s.
Probes of the /24 `Acquire` a permit of their sweep's own semaphore and end in their own
time (`ProbeEnds`), also after `Drop`, which is the handler being dropped: `ScanGuard`
frees the flag, the tasks stay. Then `Browse` hears dongles and `Ask` asks them in turn,
and `Publish` writes the cache under its lock before `Finish` frees the flag.

`SweepService` has one sweep at most, whom it has yet to hear of, and the list. `Discovery`
implements it with the sweep that may still publish (`Active`): refused calls, dropped sweeps
and what their tasks still find are stutters, permits and stages are not seen.

`ApiServer` extends both. `Bind` or `BindFails` is the one attempt of `serve`; then calls
go through `Cors` (which reads the allowlist), `RequireToken`, their handler, and back
through `Reply`, which adds the headers decided on at the start. `GoAway` may come at any
await. `UpdateSettings` changes the allowlist; `Identify` and `AskBackend` ask one backend
after the other. `Vet` is the origin check of the two pairing routes. The routes whose state
is in `JobQueue`, `Pairing` and `ConfigStore` go through the same gate and answer with any of
their statuses (`Respond`, `StatusOf`). `everAllowed` is history: the lists in force while a
call was under way.

### LogView

`push` is `TakeNumber` (the atomic counter) and `Store` (under the lock), a poll is
`Ask`, `ReadEntries` (`Since` lists the entries at the positions it takes, in their order),
`ReadLastSeq` and `Show` or `Fail`; two polls may be under way at
once, since the timer of the page does not wait. `Reopen` mounts the page again. `overrun`
and `overlapped` are history: numbers an answer's `lastSeq` covers that were not stored when
its entries were read, and whether two polls of one visit overlapped.

### DongleLink

A command goes through the lock `SESSION`, `Open`, numbered requests (`SendRequest`,
then `SkipLine` for what is not their answer and `ReadLine` for what is) and, for an
update, `Stream`; `Deadline` is its timeout, `LinkFails` any error of the port.
`dongle_provision` pairs over the same link (`Provisioned`, `Paired`). `Return` drops the
link, then the lock, but in `dongle_info` and `dongle_scan` (edition 2021, the link is a
temporary of the closure's last expression) the lock goes first and `Close` drops the port
later. `SESSION` is one for all ports; one dongle is modelled. The dongle is external: it
takes one request at a time, answers after the command that asked has gone if it is slow,
and may tell of its progress for ever (`Chatter`). Opening the port may empty the pipes or
not, as no error of `clear` and DTR is looked at (`link.rs:69`), and it never takes back
what the dongle has taken up. `Say` tears or loses lines. `by` and `straddled` are history:
the request whose answer was taken, and whether the app was restarted with something under
way.

## 3. Runs

| Run | Checks | Bounds and why they are enough |
|---|---|---|
| `job_queue` | the queue's safety, every step of its pruning, and that it implements `UploadService` | 4 jobs, 2 calls at once, cap 1, 2 possible workers: pruning needs two finished jobs and the one being registered, and the fourth is queued, unsent or running meanwhile, before or behind a dropped one in the vector. One unit of progress tells "not all" from "all". One job leaves streams over (`MaxLeft`): it is retried, done, failed or pruned under them. |
| `pairing` | that pairing implements `PairingGrant`: token release, consent, verdicts | 3 tabs (two of one origin whose polls race, one of another), 2 requests so that an old banner meets a new request and a page that got the token answers for another, 2 banner answers that overtake, 2 different clicks. Nobody has the token at first (`Paired`). The two like tabs are symmetric. |
| `pairing_replace` | finding 1 | the same, one banner answer |
| `config_store` | file and token through crashes, and that it implements `DurableConfig` | 2 addresses and 1 origin: updates of one thing and of different things; 2 crashes, 3 tokens: a first launch that fails twice |
| `brother_upload` | copies, success, refusals, end | 2 uploads of 2 attempts, 3 names: a copy of the first arrives at any point of the second |
| `brother_stored_as` | finding 2 | the same |
| `ember_connect` | the shared token | the worker's upload and a status call, 3 read and 2 upload attempts as in the code, 2 tokens, 1 reset |
| `ember_resend` | finding 3 | the same, 3 tokens |
| `api_server` | gate, sweeps, cache, verdict, end, and that discovery implements `SweepService` | 2 calls that may sweep and one visit of a page; 2 addresses and 1 permit, so that a probe of a dropped sweep is under way or waiting while the next sweep runs; one of the two addresses may be heard too; 2 backends; a visit is one of ten requests, with every kind of route and every reason to be refused; 2 allowlists, so that a list changes under a request |
| `log_view` | what the page shows | 4 entries through a ring of 2, a page of 2, 2 pushes and 2 polls at once, 1 failed poll, 1 reopening: every entry can be stored late, overrun, or fall between two reads |
| `dongle_link` | answers, success, end | 2 commands of 2 callers, so that the second meets what the first left behind; an image of 2 chunks, pipes of 2, 1 pull, 1 restart; what else the dongle says is not bounded. With 3 commands (image and pipes of 1) the safety properties hold as well; for every number they are proved. |
| `dongle_port_taken` | finding 4 | the same |

Bounds are in the guards: `MaxJobs`, `MaxCalls` and `MaxLeft` (ids, calls, jobs that leave streams over), `MaxRequests`,
`MaxBannerPolls` and `MaxClicks`, `MaxTokens`, `MaxCrashes`, `Uploads`, `MaxResets`, the set `Calls`,
`MaxEntries`, `MaxPushes`, `MaxFailures`, `MaxOpenings`, `MaxCommands`, `MaxPulls`,
`MaxRestarts`. None of them blocks an operation in progress, except that a
pairing request past `MaxRequests` waits, which concerns no liveness property.

Deadlock is not checked: an idle server waits for its next request, and at a bound
no further request comes. That nothing waits for ever where something is due is what
`ImplementsService`, `EveryUploadEnds`, `EveryCallEnds`, `EveryRequestEnds`,
`KeptIsShown` and `EveryCommandEnds` say.

### Properties worth a remark

* `HeldExactlyOnce` ties the records to the places an upload can be in. It is what
  the release of the locks before the send could break.
* `RealTimeFIFO` is stated with the sends finished when an id was taken (`earlier`),
  because ids, registrations and sends of overlapping calls come in any order.
* `RetentionIsExact` is about every step: what a step forgets was finished, older than
  what finished jobs remain, and exactly the cap remains.
* `ImplementsService` includes the abstract fairness: no queued job starves, and every
  job that was sent ends.
* `ReleaseNeedsConsent` (and `VerdictIsAnswered`) relates a release (a verdict) to the
  click, possibly several steps and several stale answers earlier, or to the word of a page
  that had been given the token before that release: no chain of pages starts by itself.
* `ImplementsGrant` is about every step: no step of the slot, the banner or a dropped call
  makes a request change its standing other than as `PairingGrant` allows. A token is given
  from "Approved" only, which lies behind a click on that very request, or a holder's word.
* `ImplementsDurable` says besides `AnsweredSurvives` that a change touches one entry and
  that nothing is ever saved but what is in use, by the change under way.
* `CopiesBounded` counts the transmissions still under way, after the upload returned
  as well.
* `FailsOnlyOnTrouble` says that the race for the token is harmless to reads. For a
  transmission that is false (finding 3).
* `TrafficBounded` counts the probes under way of all sweeps, dropped ones included: each
  sweep brings a semaphore of its own, so the bound is `CONCURRENCY` per sweep begun.
* `ImplementsSweeps` says of every step what `WholeSweepCached` says of a state, and also
  that no backend asks an address twice and that the list stays when a sweep is dropped.
* `OnlyTokenHoldersAct` is about every route but the health check: what was more than
  refused was asked for with the token, or to pair, by an origin some list in force
  meanwhile allowed.
* `VerdictIsOrderless` compares the verdict with all backends' outcomes, of which
  `identify` has asked only some when one claims the device.
* `ReadableWasAllowed` allows a list that has been replaced since `cors` read it: that is
  what the code promises, and all it can.
* `ShownOnce` and `KeptIsShown` except overlapping polls, with which both fail; the
  first rests on the page asking after the counter read *after* the entries.
* `MissedOnlyIfOverrun` is what is true of polling "incrementally" (`logging.rs:5-6`): the
  time between the two reads of an answer is the only way to miss an entry for good. It rests on the page
  being no shorter than the ring (`LogAssumption`; 1000 and 1000 in the code).
* `AnswersOwnRequest` and `OkMeansDone` except a restart of the app with a request or an
  answer under way, with which both fail, as the numbers start over and a request's number is all
  that tells answers apart. Within a run of the app the second holds although the end of
  an update takes any line with an `ok`.

### Fairness

* `JobQueue`: `Register` and `Send` of a call that began (`enqueue` has no await in
  it), and the steps of the worker, whose network calls have timeouts and a bounded
  number of attempts. Nothing is assumed of callers, progress or the machine.
* `BrotherUpload`: the client's next step, for the same timeouts. The machine may
  never store, refuse or answer.
* `EmberConnect`: the next step of each call. Nothing of the dongle.
* `ApiServer`: the runtime runs tasks that are ready, and probes and browsing end by
  their own timeouts. Nothing of clients.
* `LogView`: a push has no await between its number and its storing; the page's timer
  goes on, and the server on the loopback interface answers.
* `DongleLink`: each command runs on a thread of its own. The deadline of a request
  passes; that of an update's end passes when no line of JSON comes for long enough
  (`Deadline`), for each line renews it (`mod.rs:202`); a write that finds the pipe full or
  the port gone fails. **Assumed of the operating system**: `flush` (`link.rs:97`, `137`)
  returns, which has no deadline. The lock is `std::sync::Mutex`, which is not fair: that
  every command gets it rests on there being finitely many (`MaxCommands`). Nothing of the
  dongle or the cable: that is why `EveryCommandEnds` excepts a dongle that tells an update
  of its progress for ever, without which TLC finds it violated.
* `Pairing` and `ConfigStore` state no liveness: a user may never answer.

## 4. What is proved

Eight modules hold proofs, each for every value of its module's constants: every property
of the passing runs but the liveness properties. Four of them are refinements of an abstract
specification, proved as a whole but for `ImplementsService`, whose fairness is left to TLC.

| Theorem | Property |
|---|---|
| `JobQueueProofs`: `TypeCorrect`, `NoJobLost`, `OrderConsistent`, `DoneComplete`, `SendsInOrder`, `UploadsAreSerial`, `RetentionExact`, `QueueIsService` | `TypeOK`, `HeldExactlyOnce`, `OrderMatchesRecords`, `DoneIsComplete`, `RealTimeFIFO`, `OneUploadAtATime`, `RetentionIsExact`, the safety half of `ImplementsService` |
| `PairingProofs`: `TypeCorrect`, `TokenNeedsConsent`, `PairingGrantKept`; `TokenReleasedOnce`, `VerdictsAreAnswered`, `OneAnswer` | `TypeOK`, `ReleaseNeedsConsent`, `ImplementsGrant`; `ReleasedOnce`, `VerdictIsAnswered`, `AnsweredOnce` |
| `ConfigStoreProofs`: `TypeCorrect`, `NeverTorn`, `TokenStays`, `AnsweredStays`, `StoreIsDurable` | `TypeOK`, `ConfigNeverTorn`, `TokenIsForever`, `AnsweredSurvives`, `ImplementsDurable` |
| `BrotherUploadProofs`: `TypeCorrect`, `StoredIfOk`, `AtMostOncePerAttempt`, `RefusedIsNotStored` | `TypeOK`, `OkMeansStored`, `CopiesBounded`, `RefusedLeavesNothing` |
| `EmberConnectProofs`: `TypeCorrect`, `RacesAreFree` | `TypeOK`, `FailsOnlyOnTrouble` |
| `ApiServerProofs`: `TypeCorrect`, `OneSweepAtATime`, `TokenGuards`, `PagesReadTheirs`, `OrderDoesNotMatter`, `TrafficIsBounded`, `ListIsAWholeSweep`; `CacheIsWhole` | `TypeOK`, `FlagIsTheSweep`, `OnlyTokenHoldersAct`, `ReadableWasAllowed`, `VerdictIsOrderless`, `TrafficBounded`, `ImplementsSweeps`; `WholeSweepCached` |
| `LogViewProofs`: `TypeCorrect`, `RepeatsNeedOverlap`, `OnlyOverrunIsMissed`; `PollsOnward` | `TypeOK`, `ShownOnce`, `MissedOnlyIfOverrun`; `PollPointAdvances` |
| `DongleLinkProofs`: `TypeCorrect`, `TakesOwnAnswer`, `DoneIsDone` | `TypeOK`, `AnswersOwnRequest`, `OkMeansDone` |

What stands behind a semicolon is proved and not among the properties of a run. `ReleasedOnce`,
`VerdictIsAnswered` and `WholeSweepCached` state on the concrete state what the refinements
imply, which the runs check instead; `AnsweredOnce` says of the slot what `PairingGrant` says of
a request's standing, and also that a slot past its time stays as it is. `PollPointAdvances` is
about the point the page polls from, on which `ShownOnce` rests.

Each module proves an inductive invariant `IInv` with one lemma per action and draws its
theorems from it. What it adds to the properties, which are hardly ever inductive alone:

* `JobQueueProofs`: where an id can be (`IdInv`: above the counter nowhere, before its
  registration neither known nor sent), who owns the receiver (`WorkerInv`), what a record
  says by where its job is (`StateInv`: sent or unsent means queued, in hand means
  uploading; so pruning, which takes finished jobs, never takes one of these), and that
  every stream left over was left by its job (`StreamInv`). `FifoInv` adds for the order that
  whatever was sent before an id was taken stands before it in the channel or has left
  it. `RegisterOrder` shows that pruning keeps the order vector a list of the remaining
  jobs without repetition.
* `JobQueueProofs`, pruning and refinement: the finished jobs up to each position are counted
  by a number that starts at 0 and rises by one at most, so it meets the excess at some
  position (`Meets`): what is dropped is the finished jobs up to there (`DroppedIsExcess`), and the rest are as many as
  the cap (`PruningIsExact`). The induction is the well-foundedness of the naturals, used
  through a least counterexample (`Least`). `QueueIsService` maps registering to `Submit`,
  the worker's `Begin` to `Start` (nothing else uploads: `IInv`), its end to `End`, and all
  else to a stutter.
* `PairingProofs`: no id is anywhere before it was handed out (`IdInv`), slot, banner and
  answers name one origin per id (`NamesAgree`), the click under way is the user's
  (`ClickInv`), and a call that goes to read the token is alone with its id, which was
  approved, has left the slot and has not been released (`TokenInv`). The last is why two polls of like tabs
  cannot both release. The refinement has one lemma per action: `StandingKnown` says in
  which cases a request has which standing, and each lemma names the one request whose
  standing the action changes (`StandsStill` where it changes none).
* `ConfigStoreProofs`: who holds the write lock has written what the memory holds before
  it renames, with its own update in it (`WriterInv`); only a first launch runs without a
  file, and serves nobody until it has one (`FirstLaunchInv`). For the refinement,
  `ApplyIsOneChange` shows that every update, as the code makes it on the whole config,
  changes one entry of it, and `WriterSeen` what is seen of the writer at each file operation.
* `BrotherUploadProofs`: copies and transmissions under way number at most the
  transmissions begun (`CountInv`), which is what bounds them after the upload returned;
  what each stage has sent (`PhaseInv`), that "stored" is only said of what is
  (`ReplyInv`), and that only earlier uploads have returned (`ResultInv`). The count rests
  on the library's facts about cardinality, `OnWire` being a set that loses or gains one.
* `EmberConnectProofs`: the token a call was just given is good, or the call has met a
  reset (`FreshInv`); hence a 401 on it is trouble, and the race is not.
* `ApiServerProofs`: `SInv` is about the sweeps alone (`StageInv`: what is undone at each
  stage, so that a cache is only written when nothing is), `CallInv` says what the gate has
  made sure of wherever a request is, `ListInv` which lists a request has met, `HealthInv`
  that nothing is asked of a server that does not serve. `TrafficInv` bounds each sweep by
  its permits, and `FibresBound` adds the sweeps up. For the refinement, `Seen` ties the one
  active sweep to what is open and found, `NotSeen` covers refused calls and the tasks of
  dropped sweeps, and `DonglesLast` is why none is asked twice by the same backend: what was
  heard is not asked before the sweep of the /24 is over. `VetOK` is about pages that pair.
* `LogViewProofs`: while polls take turns (`OnePoll`), the page has the ring's entries in the
  ring's order (`PageInv`, with `Follows` and `Past`, which survive that entries are stored
  late and out of the order of their numbers), and an answer continues the page (`AnswerInv`,
  `ReadInv`, `AnsweredInv`). What is being pushed was never shown (`RingInv`). `RingIsKept`
  is a pigeonhole argument: the page cuts off its oldest entries only, and it is no shorter
  than the ring, so what it cuts off the ring has dropped. `NthPosition` and `SinceInOrder`
  show that `Since` lists the positions it takes in order and each once, by counting the
  positions up to each.
* `DongleLinkProofs`: who talks holds the lock and the port, and who has the port open talks
  or is closing it (`LockInv`), requests and answers under
  way have numbers below the next (`NumberInv`), a yes is only said of what was done
  (`YesInv`). The heart is `LinkInv`: while a command waits for the answer to `r`
  (`WaitingInv`), `r` is the last in the pipe, with the dongle, or answered, its answers are the last
  ones and only the first of them can be a yes; hence while it streams (`StreamingInv`)
  every answer in the pipe is about `r`, which is why the update need not look at the
  number.

Assumptions, all named in the module that declares the constants and evaluated by the
runs: sizes, caps and retries are naturals, and positive where zero makes no sense
(`ConstantsAssumption`, `TabsAssumption`, `BoundsAssumption`, both `RetriesAssumption`,
`SweepAssumption`, `LogAssumption`, `LinkAssumption`), the page is no shorter than the ring
(`LogAssumption`), the app's token is none of the others
(`TokenAssumption`), requests, backends and lists are of their kind (`ApiAssumption`), and the
marker for nobody is no command (`NobodyAssumption`).

Only model-checked, because it is out of the prover's reach: liveness under fairness, that is
`EveryUploadEnds`, `EveryCallEnds`, `EveryRequestEnds`, `KeptIsShown`, `EveryCommandEnds` and
the fairness half of `ImplementsService`.

## 5. Findings

Each is a run TLC finds violated by what the code does.

1. **An approval can be overwritten** (`pairing_replace`). `begin` replaces any slot
   that is not a live pending request. The comment on the slot says a page "can only
   replace its own expired/answered requests".
2. **The receipt can name another design** (`brother_stored_as`). The name is the first
   file that was not listed before, which may be an earlier upload stored late.
3. **Re-paired and not re-sent** (`ember_resend`). In the last attempt the upload pairs
   and fails. With a status call that drops the token at the wrong moments this happens
   without any loss or reset during the upload.
4. **A USB command can find the port taken** (`dongle_port_taken`). `dongle_info` and
   `dongle_scan` release `SESSION` before their port is closed, so the command that waited
   for it may fail with `port_open_failed`, where the comment on `SESSION` says that commands
   "must queue here instead of failing to open the port".

Further observations, which the models permit and no run is spent on:

* A page that was paired can approve another page's request without the window: the route
  asks for the token only (`routes.rs:379`), where `pairing.rs:15-17` says that "Approval
  requires a human click in a window no web page can script" and `pairing.rs:152` says of
  `respond` "desktop UI only". `ReleaseNeedsConsent` says what holds nevertheless.
* A failed write leaves the new config in memory (`config.rs:107`, "persist it atomically").
  `AnsweredSurvives` says what holds nevertheless.
* An upload the client gave up on can take the memory after the next one checked it
  (`brother/client.rs:296`), although uploads are serialised against that (`jobs.rs:4-6`).
* A log entry can be passed over: `lastSeq` is read after the lock of the entries was
  released (`routes.rs:446`), and a push has its number before it is stored
  (`logging.rs:66`), so a page that polls "incrementally" may go past an entry it was not
  shown. `MissedOnlyIfOverrun` and `KeptIsShown` say what holds nevertheless.
* `TokenStore::forget` drops whatever is stored, not the token that was refused.
* A retried transmission can be stored twice, and one that the Brother machine answered
  with an error status is sent again (`CopiesBounded` says how far this goes).
* The ring may hold entries out of the order of their numbers ("oldest first",
  `logging.rs`); overlapping polls duplicate rows and can move `lastSeq` back.
* Sweeps are "collapsed into one" (`routes.rs:217`), but the probes of dropped ones go on
  beside the next, so traffic does stack, up to `TrafficBounded`.
* An answer carries the header of a list that may have changed since `cors` read it.
* `identify` says "not a machine" of a device whose own backend's probe was lost while
  another backend got an answer.
* Request numbers of the USB link start over with the app: an answer to the previous run
  can be taken for one of this run ("must never be mistakable", `link.rs:12-14`).
* `READ_POLL` (200 ms) is the timeout of writes as well. A dongle that is busy longer
  makes a stream fail.
* A dongle that never stops telling an update of its progress holds `SESSION`, and with it
  every other USB command (`mod.rs:202`).
* When the port vanishes before the last line of an update is read, an installed update is
  reported as failed; a provision that timed out may have been committed.

## 6. Not modelled

A panic of the worker task (it would leave every later job queued, since `enqueue`
ignores a failed send); power loss before data reaches the disk; a second instance of
the program; an end of `axum::serve`, which does not return; the text of Brother's
protocol (request bodies, tag extraction), of messages, logs and errors; constant-time
comparison; the registry's tables of models and manufacturers; the Tauri shell (tray,
window, autostart); rendering, and pages that only show what they poll. `PROJECT.json`
names each with its reason.

## 7. What is left

The modules planned at first are written, and `Polling` went into the modules where the order
of answers matters. What would come next:

1. A composition of `JobQueue`'s worker with `BrotherUpload` and `EmberConnect`, each shown to
   implement one abstract upload.
2. An abstract specification of the USB setup commands, implemented by `DongleLink`.
