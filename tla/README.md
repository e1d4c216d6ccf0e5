# A specification of Retraced in TLA+

Retraced is an audit log service. Clients send it events; it stores them in
Postgres, normalizes them, indexes them in Elasticsearch and lets people search
them. The API and the processors are stateless Node.js processes of which any
number may run; everything they share is in Postgres, in the topics of nsqd and
in Elasticsearch. None of the paths below is a transaction across two of those
stores, and few are a transaction in one. What this project specifies is what the
code keeps true in spite of that, and where it does not.

All source paths are relative to the repository (`src/...` is the TypeScript).

## 1. The system

### Event intake: `handlers/createEvent.ts`, `headless.ts`

`createEvent` (POST one event) gives the event an id and starts two *persisters*:
an insert into the table `backlog`, at once, and a publish to the topic
`unsaved_events`, from a timer when 80 % of the request's time is gone. The
first to succeed acknowledges the request and clears the timers; the request is
rejected when both have failed. `createEventBulk` and `saveEvent` (the latter for
events that Retraced logs about itself) insert into `ingest_task` and publish task ids to
`raw_events`, the bulk handler twice, without waiting for the publish.

State: per request the two calls, the timer, the promise; publishes under way.
Hard: a persister's effect and its answer are apart, so both may take effect; neither has a timeout, so
one may never report; the process can die at any point; unawaited publishes are lost silently.
Correct means: an acknowledged event is never in nobody's hands; every request ends if its persisters do.

### Ingest workers: `_processor/workers/ingestFromBacklog.ts`, `ingestFromQueue.ts`

The first moves up to 1000 backlog rows to `ingest_task` every second, in one
statement, and then publishes the task ids one by one to `raw_events`. The second
inserts what `unsaved_events` delivers. Both rely on `ON CONFLICT DO NOTHING` and
on a unique index on the event id.

Hard: rows are committed before their ids are published; an insert can commit
and report an error; nsqd redelivers what was not finished in time.

### Consumer loop: `_processor/index.ts`, `_processor/persistence/nsq.ts`

Handlers are called with a message, `finish` it on success and on errors without a
`retry` flag, and `requeue` it otherwise. nsqjs gives a message up when it comes
back after the last attempt. `unsaved_events` has 20 attempts, `raw_events` one;
`normalized_events` has several channels, of which the one of the Elasticsearch saver has
three attempts.

### Normalization: `_processor/workers/normalizeEvent.ts`, `NormalizeRepairer.ts`

A worker reads the row of a task id, upserts the actor, group, target and action
(each counts the event), blanks `original_event`, sets `normalized_event`, and
publishes the result to `normalized_events`: several awaits and no transaction.
The repairer republishes ids of rows that have been raw for too long.

Hard: one task id is published up to twice, then again by the repairer, and read by
five handlers per processor. Correct means: nothing published that is not stored,
nothing undone, bounded duplicates, and everything held is eventually normalized.

### Index aliases: `ElasticsearchIndexRotator.ts`, `saveEventToElasticsearch.ts`, `models/environment/create.ts`, `delete.ts`

Each environment has a search alias over all its indices and a write alias over
the newest. Rotation creates an index and swaps the write alias with a request it does not await;
the repair (at every processor start, and each minute) removes
surplus write aliases and restores a missing one; deletion removes both and the index.
The viewer's search, ad-hoc searches and active searches read the search alias. GraphQL searches, counts and exports go through
`scope()`, which names the write alias (persistence/elasticsearch.ts:134).

Hard: the aliases are read in one request and changed in another, by handlers
of several processors. Correct means: one write alias, and what is
saved can be searched, which is true of the former searches only.

### Environments and deletion requests: `handlers/admin/*`, `models/deletion_request`, `models/deletion_confirmation`

An empty environment can be deleted at once, a populated one by a *deletion
request* that every other team member confirms and that has to be neither too
young (the backoff) nor too old.

Hard: requests are checked and then inserted, read and then deleted; the team
and the environment change meanwhile.

### Projects, teams and invitations: `AdminController.ts`, `headless.ts`, `models/project`, `models/user`, `models/team`, `models/invite`

A project has environments (each with an index, a token, templates), members
(`projectuser`) and the environments each member has access to
(`environmentuser`). A project is created by a user, with two environments, or
is the *headless* one that processors and the bootstrap command create at start
under configured ids. Almost every change is reported to an audit log, which is
another project of the same API, if its ids are configured; by default they are not, and nothing is reported.

Hard: a call is up to ten statements with no transaction, `Promise.all` answers
at the first error while the other statements go on, the members are copied
into a new environment while they change, several processes bootstrap at once.
Correct means: what was answered is done, members and only members have access,
what changed was reported where reports are on, a bootstrap ends unless its ids are another project's.

### Searches: `models/event/*`, `handlers/graphql/*`, `handlers/viewer/searchEvents.ts`, `models/saved_export/render.ts`

Structured queries are translated for Elasticsearch by one function and for
Postgres by another. Results are paged by a cursor (GraphQL `search`), by a
cursor and offsets (`searchPaginated`), by offsets (the `searchEvents` endpoints),
by a position among aggregated values (`counts`) and by a scroll (exports). No state but the index, and what the client holds.

Hard: the index grows under the client, and a rotation replaces the one that all but the viewer read; times have ties, a total is
counted after its page was read.

### Active searches: `handlers/enterprise/pumpActiveSearch.ts`, `models/active_search`

A cursor, token and start time, in Postgres over a saved search; each call returns
a page and moves the cursor.

Hard: the cursor holds a time and two kinds of time are in play; several calls may run at once;
events are indexed meanwhile and out of order.

### The viewer: `handlers/createViewer*.ts`, `handlers/viewer/*`, `security/vouchers.ts`, `pruneViewerDescriptors.ts`, `models/eitapi_token`

A publisher creates a *descriptor* for one actor; the viewer trades it for a voucher and calls
the API with that. A descriptor is good for five minutes, may be revoked, and is pruned after a day.
Viewers manage the enterprise tokens of their group, naming them by id, and each call is itself an event in the audit log.

Hard: clocks of different processes; descriptors revoked and tokens changed
between the awaits of a call, or not the viewer's to change; the event of a search is not awaited.

### Daily reports: `scheduleDailyReportsDue.ts`, `analyzeDay.ts`, `saveActiveActor.ts`, `models/environment/daily_report.ts`, `cancelEmailReport.ts`

Every hour the subscribers whose local time is about to be seven are grouped by
their offset from UTC, and each group gets a message whose handler counts the
events of the day before and mails the result.

State: `active_actor` rows, `action.last_active`, the flags of each subscriber, two topics with one
attempt. Hard: date arithmetic over zones of quarters of an hour, whose clocks change twice a year; events of the past or the future;
ticks that are late; subscribers who move, unsubscribe or bounce between the schedule and the mail; flags written back from stale reads.

### The rest

| part | state | why it is or is not worth a model |
|---|---|---|
| NSQ writer `persistence/nsq.ts` | a cached promise | the close callback may clear a newer writer; planned |
| Database commands (`_db`) | operator-run | reindexing beside live traffic is a hazard; planned |
| Entity upserts | `event_count` | nothing reads the count to decide anything; part of `Normalization` |
| `indexEvent`, `saveActiveGroup`, `saveUserReportingEvent` | single inserts | redelivery only; `saveActiveActor` stands for them |
| Templates, saved searches, exports | rows written by one statement | nothing interacts; creation of templates is in `ProjectAdmin` |
| Geo data, telemetry, HTTP routing, mail layout | none | pure input and output |
| Warp pipe `streamEvent` | redis sessions written by a service outside this repository | its protocol cannot be read here |

`PROJECT.json` lists all 27 components with their sources and status, and 40
hazards, each at its line with the properties that cover it or the reason why none does.

## 2. Modules

| module | what it is |
|---|---|
| `IngestStore` | what intake and normalization share: `ingest_task`, `raw_events`, and the count of faults |
| `EventIntake` | API persisters, backlog movers, queue consumer |
| `Normalization` | normalizeEvent and the repairer |
| `IngestPipeline` | `EventIntake` and `Normalization` composed over the one store; fairness; the refinement |
| `AuditLog` | the abstract promise: held, confirmed, normalized |
| `IngestProofs` | its theorems |
| `IndexAliases`, `AliasProofs` | rotation, repair, saver, creation and deletion against Elasticsearch |
| `EnvironmentDeletion`, `DeletionProofs` | deletion requests, confirmations and the deletion call |
| `ProjectAdmin`, `ProjectProofs` | projects, environments, tokens, templates, members, invitations, bootstrap |
| `SearchIndex` | what searches can find: times, order, visibility |
| `EventSearch` | structured queries on two backends, and the five ways to page through what they find |
| `ActiveSearch` | the cursor of an active search |
| `Searches`, `SearchProofs`, `WalkProofs` | `EventSearch` and `ActiveSearch` composed over the one index |
| `ViewerSessions`, `ViewerProofs` | descriptors, vouchers, viewer calls, enterprise tokens |
| `DailyReports`, `ReportProofs` | ticks, jobs, counting, mail, subscriptions |
| `MC*` | definitions of constants and symmetry sets for TLC |

The modules are written by three rules.

*One await, one action.* Between two awaits a Node.js handler is atomic; at each
await anybody else may run. A handler is therefore a program counter (`pc`, `job`,
`append`, `creating`, ...) and one action per await, and what it read earlier
is part of its state. A single SQL statement and a single request to Elasticsearch is
atomic.

*The effect and the answer are two actions* where the difference matters: in
`EventIntake`, `AppendCommit` and `PublishCommit` are the effects, `AppendReply`
and `PublishReply` what the API hears; `AppendFail` after the commit is a lost answer, `AppendHang` one that never comes.
Where a failed statement may have committed and nobody distinguishes the two
moments (`IngestRetry`, `InsertDirectlyFail`, `SaveFail`), one action chooses.

*What goes wrong is counted.* Each failed query, refused publish, dead process
or slow handler takes one of `MaxFaults`, so that
properties can say how much damage a number of faults can do. This is why
`DiscardNeedsFaults` and `OvercountIsBounded` mention `faults`.

Event content is abstracted to an event id. A row of `ingest_task` is named by its event
(the unique index makes this sound), its state is no row, `raw` or `normalized`.

### EventIntake

| action | code |
|---|---|
| `CreateEvent`, `Resolve`, `Reject` | `persistEvent` and its `success` and `fail` closures |
| `AppendCommit/Reply/Fail/Hang` | `appendEventToBacklog` |
| `PublishTimer/Commit/Reply/Fail/Hang` | the delayed persister `publishEventToQueue` |
| `CreateEventBulk`, `SaveEvent`, `InsertDirectlyFail` | the two direct inserts |
| `NsqPublish`, `NsqPublishFail`, `ApiCrash` | the unawaited publishes and the death of the process |
| `MoveRows`, `MoverProduce`, `MoverFail` | `ingestFromBacklog` |
| `Deliver`, `Discard`, `Respond`, `MessageTimeout` | the consumer loop for `unsaved_events` |
| `IngestInsert/Conflict/Retry/Produce/ProduceFail/Crash` | `ingestFromQueue` and what the loop does with its outcome |

A handler that outlives its message goes on running beside the redelivery
(`MessageTimeout` leaves it in `ingesting`) and its late `finish` has no effect
(`Respond` compares attempts).

### Normalization

`ReadTask`, `UpsertEntities`, `UpdateTask`, `ProduceNormalized` are the awaits of
`normalizeEvent`. `ReadNothing` is the delivery that finds a normalized row: `JSON.parse('')`
throws before the code's own branch for "already normalized" (normalizeEvent.ts:39-43), which
is therefore unreachable. `counted` counts for any one entity of the event; the
others are counted alike.

### IndexAliases

A handler of a rotation or a repair is a `job` with what it has `seen`. The
swap of a rotation goes to `swaps` when it is issued and takes effect, or fails, at any later time.
`PutAliases` is Elasticsearch's atomic alias request as the code uses it: it fails as a whole if an index it names
is gone. `AutoCreate` is the server's default: a
write to a missing alias creates a concrete index of that name (`strayed`), after which the
alias cannot be put back; nothing in the repository's configurations disables it. `Spare` leaves
index names for the repair, whose new indices are otherwise unbounded. `docs` holds what each index contains;
`UnderSearchAlias` and `UnderWriteAlias` say what a search of either alias returns.

### EnvironmentDeletion

One environment, a team that changes, and per user one `createDeletionRequest`
call and one `deleteEnvironment` call at a time. Time is the `age` of
a request: in its backoff, ripe, expired; each request ages at its own pace, in one order.
The transaction of `createDeletionRequest` becomes visible in
`CommitRequest`. Lines 57 to 88 of `deleteEnvironment.ts` have no action, because no
execution reaches them (see `backoff` below).

`DeleteFail` covers both the statement that fails and the process that dies.

### ProjectAdmin

One project, up to `Calls` calls at once, each a record of its kind, its step and what is left to do in it (`todo`).

| action | code |
|---|---|
| `CreateProject`, `InsertProject`, `CreateIndex`, `InsertEnvironment`, `InsertToken`, `Abandoned` | `models/project/create` with `models/environment/create` and `models/api_token/create`; the environments of a project go through their steps side by side, as `Promise.all` has them; after an error the others go on, answered to nobody |
| `Bootstrap`, `GetProject`, `GetEnvironment`, `GetToken` | `headless.ts` and `AdminUserBootstrap`: look for each row, make it if it is not there; run again after an error |
| `AuditEvent`, `CheckAccess` | the event each endpoint saves first, if `settings.reports`, and `checkAdminAccess` |
| `CreateEnvironment`, `PopulateEnvironment`, `DeleteEnvironment`, `DeleteRows` | the handlers of an environment and what they cascade to |
| `AddUser`, `InsertProjectUser`, `PopulateUser`, `DeleteMember`, `ListEnvironments`, `DeleteEnvUser`, `DeleteProjectUser` | joining and leaving |
| `CreateTemplates`, `CreateApiToken`, `DeleteApiToken`, `CreateInvite`, `DeleteInvite`, `Login` and their steps | the rest of `AdminController` that changes state |
| `Refuse`, `Fail` | a foreign key or a unique index that refuses, and a statement that fails |

`undone`, `audited` and `raced` are history: what was deleted, what the audit log was told, who was given access while being removed.
`settings` is what the processes were started with, any combination of it: whether the project is the headless one, whether calls
are reported (`audit()` returns without a word when one of three variables is missing, headless.ts:31-33, which is the default), and whether the
configured environment or token is another project's, at which every attempt of a bootstrap throws (headless.ts:155, 175) and is retried for ever.
The environment has a configured id: that `HEADLESS_PROJECT_ENV` may be missing although the check asks for `HEADLESS_ENV_ID` alone (headless.ts:16,
125) is left out; each start then looks for the id `''` and makes one more environment.

### SearchIndex, EventSearch, ActiveSearch, Searches

`SearchIndex` chooses `created` and `received` at the start; events become visible
in any order. `CanonicalTime` is what `processEvent` derives from the two. `current` is the part of `index`
under the write alias, which a rotation empties. Every search reads, at its step, one or the other (`Found`): GraphQL and exports on Elasticsearch read
`current`, the viewer, active searches and Postgres all of it.

In `EventSearch` a walk is one client that goes through the result of one query in one of five ways,
on either backend, in either order. A query maps each keyword to what is asked of it, a document each field to its
words; `EsClause`, `PgClause` and `SearchMatches` are the three translations of a query the code has, with the
differences they have (`crud` and `description` among them). Two of them are not there, as words have no spaces or colons here: Postgres
concatenates the parts of a location without a space between them (filter.ts:277), and cuts a value at its first colon (filter.ts:281).
`EsBehind`, `PgBehind`, `EsAtOrBehind` and `PgAtOrBehind`
are the four conditions that stand for "after this cursor". A page and its total are two steps.

In `ActiveSearch` a page is any prefix of the matches in
canonical order, ties in any order (`IsPage`), as Elasticsearch sorts them. The client presents the
last token it got, may have several calls under way and may start over. `late`
and `given` are history: events that were indexed after one received at their time or
later, and what the client was handed.

`Searches` composes them over one index: a behaviour either walks or pumps, as the two share nothing else.

### ViewerSessions

The true time is one of a few minutes, and each process's clock is ahead of it by its `lead`, chosen at the start.
`CheckViewerAccess` reads the descriptor as every endpoint does at its start; `Read`, `CreateToken`,
`UpdateToken` and `DeleteToken` are what the endpoints then do. A token is a row of an id and a group, of one environment of one project. The id is whatever the
request says: `CheckViewerAccess` takes any, and each statement finds the row of that id and of the viewer's group (`Own`) or none, which is an
error to an update and goes unnoticed in a deletion. `SaveAndAnswer` awaits the event and answers,
`AnswerSearch` answers and leaves the event in `saving`, where `SaveInBackground` or `ProcessDies` finds it: the
rejection of that promise is caught by nobody and ends the process. `DeleteEnterpriseToken` is the publisher's.

### DailyReports

Time is in quarters of an hour and passes hour by hour (`HourPasses`), with a tick of the report topic in each.
`ScheduleReports` reads the clock and selects the subscribers of the offsets that are due; `ProduceDay` publishes one job of
them; `CountActions`, `SelectStopped` and `SendMail` are the awaits of `analyzeDay`, `Delivered` the mailer's
answer, whose rejections turn a subscriber off in a step of its own (`TurnOff`). `NormalizeEvent` and `SaveActiveActor` are
what a report counts: an event is of the time its publisher says, up to `Delays` before or after the moment it is normalized (`at`), while its
action is last active at that moment. `GetEnvUser` and `UpdateEnvUser` are the two statements of a cancellation, which writes
back the other flag as it read it. `UpdateUser` is a change of time zone, `ClocksChange` one of the clocks of somebody who stays, of whom
`was` keeps the offset before it and `turn` the first day reported with the new one. Clocks change once for each user, by at most an hour, between ten in
the evening and four in the morning, while no report is under way and in runs without faults. The date arithmetic is that of the code,
mistakes included.

## 3. Runs

Run one with `tlc -workers 2 -config <run>.cfg <module>.tla`; each takes less than four
minutes on two workers.

| run | module | outcome | distinct states |
|---|---|---|---|
| `intake` | `MCEventIntake` | pass | 208,269 |
| `pipeline` | `MCIngestPipeline` | pass | 293,051 |
| `published` | `MCIngestPipeline` | violation | |
| `aliases` | `MCIndexAliases` | pass | 347,510 |
| `graphql` | `MCIndexAliases` | violation | |
| `aliases_live` | `MCIndexAliases` | pass | 205,641 |
| `deletion` | `MCEnvironmentDeletion` | pass | 311,162 |
| `backoff` | `MCEnvironmentDeletion` | violation | |
| `project` | `MCProjectAdmin` | pass | 524,984 |
| `searches` | `MCSearches` | pass | 3,171,320 |
| `viewer` | `MCViewerSessions` | pass | 3,622,677 |
| `reports` | `MCDailyReports` | pass | 3,067,627 |

`CHECK_DEADLOCK FALSE` is in every cfg: with all events handled and the bounds
used up, the system has nothing more to do.

### What the passing runs show

* `intake`. Two events, two processor replicas, `BacklogLimit` 1, two messages in
  flight, two attempts, two faults. `AckedIsHeld`: whichever persister answered, the event is
  in the backlog, in `unsaved_events` or in `ingest_task`, or its message used up
  its attempts. `DiscardNeedsFaults`: which takes that many faults. `SinglePublisher`:
  when both persisters succeed and the two movers race for the row, only the one
  whose insert did not conflict publishes the task id. Two events are enough for one
  statement to take part of the backlog; two replicas and two jobs for every race
  between movers; two faults and two attempts for a message to be discarded.
* `pipeline`. One event through everything, two concurrent calls of `normalizeEvent`, up to two copies of its id on the topic, two faults, `FairSpec`.
  `DuplicatesAreOverlaps`: an event is published again only by calls that
  overlapped the first, so never more often than calls can run at once.
  `OvercountIsBounded`: the same for entity counts, plus one per failed run.
  `NormalizedIsFinal`: no late insert, move, retry or repair undoes a row. The repairer may put back what intake's ids have left of the two copies,
  so that its id takes part in every race of two calls; the proofs are for any number of them.
  `InductiveInv` is the invariant the proofs use; its part `RawHasRow`
  says that no task id is in anybody's hands before its row is committed, and its part
  `PublishedIsStored` that consumers of normalized events find the row in its final state. `RequestsEnd`: a request is
  answered or dies with its process, unless a persister hangs and the other one hangs, too, or fails. Two faults are what it takes for both to fail, so that
  the count of failures rejects the request (`Reject`), for one to fail and the other to hang, and for both to hang. `KeepsTheLog`: the pipeline implements
  `AuditLog!Spec`; the mapping is `HeldEvents`, `AckedEvents`, `NormalizedEvents`.
  The refinement is false once a message may be discarded, so the run has
  fewer faults than attempts, as the theorem `Refinement` does.
* `aliases`. Three indices, two handlers, one event, one fault (a fault is also what an
  overlapping second rotation costs). `OneWriteIndex`: the write alias names one index
  unless something failed. `WriteIsSearched`: nothing is written outside the search alias.
  `SavedIsSearchable`: a saved event stays under it, and so is found by the searches that read it, unless a deletion took its index or it strayed into
  a concrete index. Neither says anything of GraphQL, counts and exports (see `graphql`). `NoLossWithoutCause`: without a fault or a deletion, no event is given up and none strays.
* `aliases_live`. One handler at a time. `AliasesSettle`: from whatever overlapping
  rotations or a failed deletion left, the repair ends with one write alias for good. With two concurrent
  repairs this does not hold when `cat.aliases` may list the aliases in a different order each time: each
  trims what the other keeps, and both then restore a different one. The tick has one consumer
  per processor group and `maxInFlight` 1, so the run has one worker; the unconditional repair at
  the start of a processor is an overlap that it leaves out.
* `deletion`. Two members, two requests, one fault. `RequestAsksTeam`: a request that shows has a
  confirmation for everyone it was to ask, whichever call failed or died.
  `OnlyExpiredRequestsGo`: calls that delete a row they read earlier never take a younger one. Two requests
  are an old one and the one another admin puts in its place.
* `project`. Two calls at once, three in a behaviour, two users, the headless environment, the two default ones and one
  more, two templates, one fault. `EveryMemberHasAccess`: a member who joins while an environment is created gets access
  from one of the two copies, or one of the calls collides and is answered with an error. `StrangersWereRaced`: access that outlives a membership was given
  while the member was being removed, which happens. `ChangesAreAudited`: the report comes
  first. `IndicesArePaidFor`: an index too many, or one that is missing, comes of a call that failed. `AccountsAreOverlaps`: the
  check of the address and the insert are two statements, so that as many sign-ins as run at once succeed, and no more.
  `AnsweredIsDone`: a call that is answered without an error has done everything. `BootstrapEnds`: a bootstrap
  ends however another one, a failure or a deletion gets in its way. Three calls are two that overlap and
  one before or after them. Invitations and sign-ins, which touch nothing the others do, run
  apart from them to keep the run small. All settings of the processes are tried; `ChangesAreAudited` is about those that report at all, and
  `BootstrapEnds` about those whose ids are not another project's.
* `searches`. Three events, three times, pages of one, two pumps, two tokens, one fault, two queries with and without a
  group, and a rotation at any moment; publishers say nothing of an event's time, or that it was created at time 1. `CursorWalkIsExact`: following cursors, or a
  scroll, a client is given nothing twice while events are indexed in any order; a scroll gives it everything that was there when it began, a cursor
  what of that is still in the index it reads when it ends: on Elasticsearch a rotation takes the rest out of a GraphQL search's sight.
  `OffsetWalkIsStable`: offsets repeat and skip only when an event lands before one that was given, or, in a paginated GraphQL search, at a rotation. `CountsAreComplete`: with no more
  values than buckets, and nothing indexed or rotated meanwhile.
  `BackendsAgree`: Elasticsearch and Postgres match the same documents for one word per keyword; with two they differ, one takes any
  and the other all. `CursorIsComplete`: a client whose token is
  the current one has been given everything behind the active search's cursor. `PagesAreFresh`: a client that waits for each answer gets no event
  twice. Three events are enough for one to be skipped between two that are given, and for one to be indexed between them.
  The cursor of an active search is a time of creation where the search filters on the time of receipt. `PagesAreFresh` is therefore about events
  that say no time of their own, and `CursorIsComplete` about events whose times, own or not, are in the order of receipt and not after it. The latter
  is also for events received one at a time
  and indexed in that order, because the cursor is the time of the last event plus one millisecond: another event
  of that millisecond, or one indexed late, is behind it and is never given.
* `viewer`. One descriptor, two groups, one token id, two calls, two API processes and the pruner, clocks up to two minutes apart, the minutes 0, 4, 6 and a day
  and two minutes later, one fault. `VouchersEndWithTheirSession`: no call that began after a revocation, or five minutes and the clocks'
  difference after the descriptor's creation, is answered. `UsableUntilExpired`: the pruner takes nothing an API process would accept.
  `AnsweredIsLogged`: who is answered is in the audit log, except searches when something fails. `LogIsTrue`: what the
  log says was created or updated was there, in the viewer's group, and of an id it says was deleted nothing is left in that group.
  `DeletionsLeaveATrace`: what viewers deleted was of the group of one whose call is under way or in the log, unless something failed.
  The four minutes are before and after the lifetime and after the pruning, for each pair of clocks. The token is of the viewer's group, of the other, or not there;
  one id is enough, since rows of different ids or groups share nothing.
* `reports`. Two subscribers, offsets of five and four hours west and three and five and three quarters east, one event, of when it arrives, of eight hours
  earlier or of twenty later, two jobs, hours 40
  to 84, which is two reports for each offset, one fault; or, without a fault, either's clocks put an hour forward or back, west of UTC, between the two reports.
  `OneReportPerDay`: nobody misses a report or gets two without a fault, whatever clocks do.
  `CountedOnce`: no event is counted in two reports, but for one case. A report is made with the offset of the moment (`utc_offset` of `pg_timezone_names`), so that the ranges of
  two reports share an hour when the clocks are put back in between (`Doubled`).
  `OnlyEastMissesEvents`: up to three hours east an event that was normalized by the time it is of is
  counted in the report of its day; further east it may not be, because the offset is added where it should be
  subtracted (analyzeDay.ts:31); and when clocks are put forward there is an hour between two ranges that no report counts (`Skipped`).
  `StoppedMeansNone`: an action is not called stopped in a report that counts it, unless all it counts came
  before the time it is of: an event of the next day moves `last_active` on the day it arrives, and is counted in the report of the next, which finds the action
  last active on the day before.
  `NoLateMail`: a mail to someone who unsubscribed was scheduled within the hour before. `CancelledForGood`:
  a cancelled subscription comes back only when the user's two cancellations overlap. The event arrives at the
  boundary between two ranges, five hours west, or when a report is made three hours east.


### What the failing runs show

Each checks a sentence of the repository; TLC finds a behaviour that contradicts it.

* `published`. "This will handle cleanup in case processing fails" (NormalizeRepairer.ts:16-17).
  When a run fails after updating the row and before publishing, the row no longer looks
  raw, no repair selects it and the event never reaches `normalized_events` and the index.
* `graphql`. "The second alias will add the new index to the collection of indices that are searched by the graphql search
  endpoints" (ElasticsearchIndexRotator.ts:36-38). `scope()` names the other alias (elasticsearch.ts:134): one rotation, without any fault, and what was saved before it is
  found by no GraphQL search, count or export, while the viewer's and active searches still find it.
* `backoff`. "... until its deletion request backoff period has passed" (deleteEnvironment.ts:52-53).
  A `moment.Duration` of zero is truthy: a ripe request is refused like a young one.

### Sentences that do not hold and have no run

The models contain these behaviours, or leave them out where they concern one statement; the properties hold in spite of them.

* "System is in disarray: more than one ES alias found" (models/environment/delete.ts:84). One faultless rotation leaves two indices under
  the search alias, as the rotator's comment says it should, and the environment cannot be deleted any more.
* "Resume the search where we left off" (pumpActiveSearch.ts:74). The cursor holds
  a `created` time, the search filters on `received`: an event created before it was received is
  repeated, with a page of one event for ever.
* "A deletion request already exists for that resource" (createDeletionRequest.ts:52): two concurrent calls pass the check, and there are two.
* "Cannot delete a populated environment. Create a deletion request." (deleteEnvironment.ts:31): events indexed
  after the check go without a request.
* "yesterday" of a report (analyzeDay.ts:31) is another range for every offset but zero.
* The shipped `src/deploy/crontab` has no entry for the topic of the daily reports, and misspells that of the rotation (`toic=`).
* "Headless Retraced audit logging is enabled" (headless.ts:119): `headless.ts:16` asks for `HEADLESS_ENV_ID` and `headless.ts:125` uses
  `HEADLESS_PROJECT_ENV`; with the first alone each start adds an environment.
* "Deleted an Enterprise IT Integration API Token" (viewer/deleteEitapiToken.ts:29). When a viewer names another group's token, or one that is gone, the statement, which looks
  for the viewer's project, environment and group, deletes nothing, its result is ignored, and the audit log records the deletion.
* `updateExport` sets a column that migration 1486488020 dropped (models/saved_export/update.js:17).
* `hasNextPage` (graphql/schema.ts:271) is computed from a total that was counted after the page (graphql/search.ts:116-119).
* `renderSavedExport` reports nothing of what it exports.
* The report of a day calls an action stopped that it counts, if its events came before the time they say they are of (see `reports`).

### Fairness

`FairSpec` of `IngestPipeline` has weak fairness for

* statements and publishes under way and their answers (a promise settles, unless a fault has made it hang), and the request's timer;
* `MoveRows` and its publishes (the `every_second` tick), deliveries, and the timeout of messages
  nobody handles any more (nsqd's own timer);
* the steps of handlers that nothing interrupts: the ingest job and `WorkerStep`.

There is no fairness for new requests, for the direct handlers' publishes, for crashes, failures, or for
the timeout of a message that is still being handled. The repairer's selection of one event is strongly
fair, because it selects the oldest rows first (`ORDER BY age`): a row that stays raw becomes
the oldest. This needs rows that can be normalized; a row that never can be stays the oldest (a
hazard without a property yet).

`FairSpec` of `IndexAliases` has weak fairness for the repair's start (`every_minute`), the steps of
handlers, swaps under way and the steps of a deletion, and none for rotations, deletions or events.
The misspelt crontab makes rotations possible in the model, never assumed.

`Spec` of `ProjectAdmin` has weak fairness for the steps of a bootstrap: the process that runs it is being started, its
statements settle, and an attempt that failed is made again. Failures are bounded, so that one attempt is left alone at last; one with another project's ids
fails each time, and nothing is claimed of it.

### Assumptions about what is outside the repository

Postgres: one statement is atomic, unique indexes and foreign keys hold, a committed statement may look failed to the client.
nsqd: it delivers at least once, in any order, and holds what it accepted. nsqjs: `finish` and `requeue` act on the
delivery they belong to. Elasticsearch: `_aliases` is atomic and fails as a whole for a missing index; removing
an alias that is not there is harmless; writing under two indices without a write index fails; a search sees any
set of indexed events in the sort order, ties in any order; an aggregation without a size has ten buckets; a scroll is a snapshot.
Node.js: an unhandled rejection ends the process. Time zones: clocks change at night, by an hour at most, and once while a user is watched. Clocks: API processes and pruner are less than 1435 minutes apart.

## 4. Proofs

Eight modules hold theorems, each proved for every value of the constants that the named assumptions of the modules allow.
TLC evaluates those assumptions in the runs. They are facts of any deployment: limits are positive, `Calls` and `Workers` are finite, offsets
are those that time zones have and the jobs at once are finitely many (`ReportsAssumption`), a query has finitely many words and a document finitely many actions (`TextAssumption`).
Each proof is that of one inductive invariant (in `ReportProofs` and `WalkProofs`, of several): a lemma for the initial states, one per action,
lemmas for the actions that touch nothing some conjunct reads, and a corollary per property.

### IngestProofs

For any set of events, any movers, any finite set of workers and any bounds:

| theorem | says |
|---|---|
| `Inductive` | `Spec => []InductiveInv` |
| `TypeCorrect` | `Spec => []TypeOK` |
| `Custody` | `Spec => []AckedIsHeld` |
| `DiscardsArePaidFor` | `Spec => []DiscardNeedsFaults` |
| `RawMessagesHaveRows` | `Spec => []RawHasRow` |
| `FewDuplicates`, `FewOvercounts` | the bounds of `pipeline` |
| `StoredFirst` | `Spec => []PublishedIsStored` |
| `RowsAreFinal` | `Spec => NormalizedIsFinal` |
| `OnePublisher` | `IntakeSpec => []SinglePublisher` |
| `Refinement` | `MaxFaults < MaxAttempts => (Spec => Log!SafeSpec)` |

The assumptions are `BoundsAssumption` (`IngestStore`),
`IntakeAssumption` (`EventIntake`: limits are positive) and `NormalizationAssumption` (`Normalization`:
`Workers` is finite, `NoEvent` is no event).

    InductiveInv == TypeOK /\ CustodyInv /\ AttemptsAreFaults /\ RawHasRow /\ OverlapInv /\ StoredInv

* `CustodyInv` says what makes `AckedIsHeld` true. An acknowledgement is backed by a persister that saw success or by a
  row; a backlog insert that landed is in the backlog or has become a row; a message that was finished has a
  row, because its handler found or inserted one. The last needs that a job that publishes has inserted its row.
* `AttemptsAreFaults` bounds the attempts of a message by the faults. The subtle case is a handler that crashed:
  the message is still in flight and its timeout costs no further fault, hence the case distinction on `Handled`.
* `RawHasRow` is inductive given the rest: whoever is about to publish has seen the row committed.
* `OverlapInv` is the counting argument behind duplicates. Until the row is normalized nothing is published; from then on no
  run starts, so publishes so far plus runs under way are bounded by the number of workers, and each publish or
  failure moves one from the second to the first or drops it.
* `StoredInv` orders the upserts, the update and the publish of one run across runs of the same event.

`OnePublisher` is about intake alone, because a repairer may publish a task id again, and has an invariant of its own, `PublisherInv`: while there is
no row nobody publishes; who inserts the row is the only publisher, mover or job, until the topic has the id; the
direct handlers insert events that `createEvent` never saw. A last lemma counts.

`Refinement` maps each step to `Keep`, `Confirm`, `Normalize` or a stutter; `MaxFaults < MaxAttempts` excludes
the discard, which would drop a held event.

### AliasProofs

`AliasTypes`, `OneWrite`, `WritesAreSearched`, `SavedIsFound` and `NothingIsLost`: the type invariant and the four properties of
`aliases`, for any indices, handlers, events and faults.

    Inv == TypeOK /\ UsedInv /\ DetachInv /\ EventInv /\ SearchInv /\ SavedIsSearchable /\ CalmInv

* `SavedIsFound` is about the search alias. GraphQL and exports read the write alias, of which nothing of the kind is true (`graphql`).
* `SearchInv` strengthens `WriteIsSearched` to what will be written: the swaps under way and what a repair has seen
  are under the search alias, unless a deletion detached an index.
* `CalmInv` describes a system without a fault and without a deletion, where the other invariants only bound the damage: one index
  is written, a job has seen what is there, at most one swap is under way and replaces exactly that index. This is what
  makes `OneWriteIndex` and `NoLossWithoutCause` inductive; an un-awaited swap keeps both because a second rotation while it is under way counts as a fault.
* `DetachInv` and `UsedInv` tie a deletion and the names it draws to the aliases.

### DeletionProofs

`DeletionTypes`, `RequestsAskTheTeam` and `YoungRequestsStay`, for any users and requests.

    Inv == TypeOK /\ CreatingInv /\ PurgingInv /\ AsksInv

`CreatingInv` says that a request being created is its creator's own, does not show, and has so far asked only whom it is to ask; with it
`CommitRequest` makes a request show complete. `PurgingInv` carries what a call read over its awaits: the request it is about to
delete was over a month old, and a request never grows younger, so that it still is or is gone. `AsksInv` is `RequestAsksTeam`
as an equivalence, in the form a step can preserve.

### ViewerProofs

`TypesAreCorrect`, `SessionsEnd`, `PruningIsLate`, `AnswersLeaveATrace`, `TracesAreTrue` and `DeletionsAreTraced`, for any groups and tokens and for any clocks less than 1435 minutes apart
(a day less the lifetime), which is the one fact about time the proof of `PruningIsLate` needs.

    Inv == /\ TypeOK /\ DescriptorInv /\ UsableUntilExpired /\ SessionInv
           /\ TokenInv /\ LogInv /\ AnsweredIsLogged /\ DeletionsLeaveATrace

`SessionInv` is `VouchersEndWithTheirSession` for calls at every step: the check is made once, at the start, and what happens to the
descriptor after it changes neither the time of the call nor that of the descriptor. `TokenInv` says that the token of a call past its change is, or was,
a row of the viewer's group if the call made or updated it, and is not if the call deleted it: an id that was ever used is not drawn again.

### ProjectProofs

`AdminTypes`, `ReportsComeFirst`, `StrangersWereGivenIt`, `FewAccounts`, `FailuresPay`, `MembersHaveAccess` and `AnswersAreDone`, for any users,
environments, templates and failures, and any finite set of calls. The first four follow from

    Inv == TypeOK /\ CallInv /\ ChangesAreAudited /\ StrangerInv /\ AccountInv

* `CallInv` says of each call at which step it can be, what it is about, and what it has done so far: a call past its report has
  reported, if its process reports at all, and a call that makes environments has its project. It carries `ChangesAreAudited` over the awaits
  between the report and the change.
* `StrangerInv` follows a member who is being removed: access that is neither on the list of what is still to be taken nor a member's
  was given after the list was read, and who got it is in `raced`.
* `AccountInv` adds the accounts and the calls that found none and are about to insert one; no call enters that step once there is
  an account, so that the sum never exceeds the calls.

The other three rest on `MadeInv`, which adds `ShapeInv`, what the fields of a call can be, and `AloneInv`: while a user's project is being
created no other call is under way, since nobody has its id. Their proofs do not look at the actions again: `StepIs` shows once that every step takes one call `c` to a
record `k` in one of eleven ways (`StepOf`: it starts, goes on without touching rows, fails, makes the project, an index or an
environment, deletes one, joins, gives or takes access, leaves).

* `IndexInv` counts: an index has its row, or a call that is between the index and its row, or a failure; without a failure a row has its index.
* `MemberInv`: while nothing has failed, a member lacks access to an environment only while a call is `populating` for the one or the other, or is
  removing the member (`Covered`). What makes it inductive is the order of the code: the row of the member and the row of the environment are each inserted before
  the other side is listed, so that of two that cross at least one sees the other, and if both do the second insert fails.
* `DoneInv` says what `createProject` has made at each of its steps, and that an invitation that is being mailed has its row or had it deleted.

### SearchProofs

`PumpTypes`, `NothingIsSkipped` and `NothingComesTwice`, about active searches, for any events, times, page sizes, tokens and calls. The
walks of `EventSearch` are steps that leave the pumps alone.

    SearchInv == /\ Types /\ CallsOK
                 /\ TimesInOrder => StartsReached
                 /\ Unique /\ TimesInOrder => CompleteInv
                 /\ OnlyReceived /\ ~ overlap => FreshInv

* `CompleteInv` says at each step of a call what its client has, or is about to have, of what is behind the time it searches from.
  The token is the key: a cursor's position belongs to the client whose last answer carried the cursor's token, and a second call
  that moves the cursor takes the token away, so that nothing has to be said of the client that lost it.
* `FreshInv` is the opposite bound for a client with one call at a time: all it has is behind the time its next call searches from.
* `StartsReached` keeps a cursor from running ahead of what was indexed, without which an event in order could be behind it. It needs times that are in
  the order of receipt and not after it, whoever says them; `NothingIsSkipped` assumes no more of them, and `NothingComesTwice` that there are none but those of receipt.

### WalkProofs

`CursorsAreExact`, `OffsetsAreStable`, `CountsAreWhole` and `BackendsAgreeOnWords`, about the walks of `EventSearch`, for any events, times,
documents, queries, either order and any page size, while active searches go on, events are indexed and the index is rotated between any two reads.

An answer is a slice: the elements with so many before them. The module begins with strict total orders of a finite set, of which it
shows that the numbers of predecessors are 0, 1, ..., one each (`Ranks`, `RanksCount`, by the least element of the rest), so that a slice
that is not full reaches the end (`SliceSize`). Events by time and id are such an order (`OrderIs`), and so are buckets by size and action
(`BucketsAreOrdered`). Everything else says where the client stands:

* `WalkBase`: what a walk holds is indexed; it asks one of `Asks`; between answers it holds no page.
* `SearchWalk`: what the client has is not behind its cursor, what it lacks of the start is; between the reads of one request, it is behind
  the whole page, which then is full. Nothing is said of positions, so that indexing an event disturbs nothing. It is said of `Still`, what of the start
  is in the index that is read, so that a rotation, which only shrinks that, disturbs nothing either (`SearchRotated`).
* `ScrollWalk`: the client has the first n of the snapshot, n being how many it has (`Prefix`).
* `PaginatedWalk`, `PageOK`: what the client has is below the offset in the order of what lies at or behind its cursor, what it lacks of the
  start is not. The first answer sets the cursor and with it changes what is counted: it has to be shown that its first edge was of
  rank 0, and that nothing of the start is cut off. `Undisturbed` says that the ranks that matter stay when an event is indexed that
  does not precede them. The total, counted after the page was read, is at least the size of the start.
* `ViewerWalk`: the same of the viewer's offsets, whose pages are ordered only if no two times are equal (`OffsetPageIs`).
* `CountsWalk`: the client has the buckets of rank below the offset.

`BackendsAgreeOnWords` needs no more of the state than `WalkBase`: with one value of one word (`OneWord`), any of the words, all of the words
and all words of any value are the same condition (`ClausesAgree`); of `crud`, one of several values of one word (`AnyWord`).

### ReportProofs

`DailyTypes`, `EachDayIsReported`, `NobodyIsToldTwice`, `EventsAreReported`, `StoppedIsStopped`, `LateIsWithinTheHour` and
`CancelledStays`, so that every invariant of `reports` is proved, for any subscribers, offsets in quarters of an hour, events, delays of either sign,
jobs at once and faults, any number of days, and clocks that change once for each subscriber. `Types` is kept by itself; each property has an inductive invariant of its own that rests on it.

* `Clocks` says when clocks change: by an hour at most, after the last report made by the old ones and before the first by the new. The other invariants
  rest on it wherever they speak of a day's offset.
* `Once` is behind `CountedOnce`. Without a fault, one tick is handled at a time, the reports of one tick are for disjoint users, and where a report
  is made the local time is in the last hour before seven (`ReportTime`, from the arithmetic of `OffsetsWithLocalTimeDuringUTCHour`). What was counted for a
  user is before the end of the last reported day's range (`Told`, `Last`), by the offset that day was reported with, and while a report is being made before its
  beginning. An event is counted again only if the two ranges at a change of the clocks share it, and only by the later of them. An hour that
  passes turns the one bound into the other, as a report is made at one quarter of that hour only, whatever the offset.
* `Stops` bounds `last_active` from below by the time at which each event was normalized, and so, for an event that did not come before its time, by the start of any range it is
  counted in: an action that is found to have stopped before a range has nothing else counted in it.
* `Late` says that who is off was off when the mail's recipients were chosen only if that was in this hour; no hour passes
  while a report is under way without a fault.
* `Losses` is behind the first half of `OneReportPerDay`, and holds whatever fails. A day that is over and not mailed is lost unless it is
  yesterday, on time, and its tick, its report or its job is still there (`OnItsWay`); as many are lost as faults happened, at most.
  The hour at which a day becomes over is one at which it is on time (`NextDay`), and whoever is on time is selected: the offsets of the 24 hours
  leave none of -12 to 14 hours out (`HoursAreAll`, the converse of `ReportTime`). `Staying` says that a report that is due is the user's.
* `Few` is behind the second half. `Mails` adds up the mails that are sent, under way and due; there may be one and one for each fault. Of a
  day that is not over there is none, and only faults have made any before it is time for it; until that has passed, one may still
  come of each tick (`FewAt`). Ticks left over, and reports due at midnight, are paid for by the faults that kept them (`OneAtATime`).
* `Completely` is behind `OnlyEastMissesEvents`. Without a fault, events are saved within the hour (`SavedAtOnce`) and no report is made
  before six of the day after (`NotBefore`). Up to three hours east, before the clocks change and after, the range has ended by then (`DayIsOver`: the
  hours are whole), so that the rows of an event of that day (`OfDay`) that a report has counted are all there will be (`AllCounted`). Every time is of some day,
  by the clocks its report is made by, but those that clocks put forward skip (`HasADay`).
* `Cancels` excludes that a cancellation which read the other report as on meets one that is done.

### Model-checked only

Liveness (`RequestsEnd`, the liveness part of `KeepsTheLog`, `AliasesSettle`, `BootstrapEnds`), which TLAPS cannot prove under fairness.
Every invariant that a passing run checks is a theorem.

## 5. What is left out

Event content, the hash, ids, syntax of queries, formatting and logging. Time, except as order, as timers that
may fire at any moment, and where a module says so. The environment of an event (environments do not share rows or aliases). Postgres and
Elasticsearch failing for good. In `IngestPipeline`, consumers of `normalized_events`; their redelivery is in
`IndexAliases` for the index saver and in `DailyReports` for the active actors.

Not modelled, for what they are: the Warp pipe (its protocol is another service's), geo data and telemetry (pure I/O), HTTP routing, mail layout and the
GraphQL schema (conversions). Single statements on rows of their own: deleting templates, saved searches, listings, `updateApiToken`
(reads a row and writes it back), `updateExport` (only fails), `searchAdHoc` (a scroll over the search alias, as exports have one over the other). `withRetry` of the Elasticsearch client repeats `index`, `search`, `scroll` and
`indices.create` on a new client (elasticsearch.ts:88-92). A repeated `index` writes the same document again, a repeated creation is refused like the first or finds its index there and
fails; in the models each of them fails at its first error, which leaves more to the handlers. Saving an actor returns early for an event that has none (saveActiveActor.ts:9-11): the events of
`DailyReports` have one.

Not modelled yet: the NSQ writer's replacement, the reindexing command, `indexEvent` for `PG_SEARCH`, document counts across
rotations, poisoned rows in `Normalization`.

## 6. Plan

1. `Reindex`: the command beside live traffic. Every event saved before it started is found after it; events saved meanwhile may not be.
2. `NsqWriter`: the cached writer and its replacement. A produce call ends, and no writer is used after its close.
3. `EventIndexing`: how many documents an event can have under redelivery across rotations.
4. Poisoned rows in `Normalization`, against the repairer's limit; the count under concurrent upserts, as a refinement of `counted`.
