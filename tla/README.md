# tg-video-bot: formal model

TLA+ modules for the Telegram bot of this repository, the TLC configurations that
check them on small instances, and theorems that TLAPS proves for every instance.
Everything is translated from the Go source; `PROJECT.json` maps each definition to
the lines it stands for.

## 1. The system

A user sends the bot a link, as a message or as an inline query. If the video is in
the Redis cache, the answer is its Telegram file_id. Otherwise the link becomes a job
of a worker pool: yt-dlp downloads the video, the worker uploads it to a storage
channel, writes the file_id to the cache and to the user's history, sends the video to
the user's PM, and records the outcome in PostgreSQL.

| Component | State | Operations | What makes it correct |
|---|---|---|---|
| Worker pool (`worker/pool.go`) | `inProgress` (sync.Map of URLs), `jobs` (buffered channel), one job per worker, `inlineMessageIDs` | `Enqueue`, `IsInProgress`, `worker`, `process`, `SetInlineMessageID` | one download per URL at a time; no claim without a job; every accepted job answered, recorded and cleaned up after |
| Downloader (`downloader/ytdlp.go`) | a temporary directory per download | `Download`, `Cleanup` | no directory outlives its job, except when the process dies |
| Process (`cmd/bot/main.go`) | the context, the signal goroutine, a goroutine per update | start, dispatch, shutdown | nothing promised is lost (it is not so, see 4) |
| Handlers (`bot/bot.go`, `bot/inline.go`) | none of their own | `handleMessage`, `handleInline`, `handleChosenInlineResult`, commands | the answer agrees with what the pool and the cache did |
| Inline history (`cache/redis.go` and its callers) | Redis list `history:<user>`, counter `inline_ver:<user>` | `AddVideoHistory`, `GetVideoHistory`, `ClearVideoHistory`, `IncrInlineVersion`, `GetInlineVersion`, `addToHistoryIfNew` | a listing that misses a new video is under an older version; the list is cut and expires |
| Cache and rate limit (`cache/redis.go`) | keys `file:<hash>`, `rate:<user>` with lifetimes | `GetCachedVideo`, `SetCachedVideo`, `RefreshFileIDTTL`, `IncrRateLimit` | hits are right; the limit is neither exceeded nor applied early |
| Users, statistics, administrators (`db/`, commands in `bot/bot.go`) | PostgreSQL tables `users`, `admins`, `downloads`; `ADMIN_IDS` | `UpsertUser`, `RecordDownload`, `isAdmin`, `/addadmin`, `/removeadmin`, `/stats` | rights come from configured administrators; known names stay; the numbers of `/stats` fit together |
| Text helpers (`pool.go`, `ytdlp.go`, `bot.go`) | none | `truncateRunes`, `sanitizeError`, the line yt-dlp prints, `downloadWord`, `formatUptime` | texts fit Telegram's limits; numbers read right |
| Configuration (`config/config.go`) | read once | `Load` | defaults and limits make sense |

How they interact: `main` starts a goroutine for every update, so handlers run
concurrently with each other and with the workers. They share the pool's map and
channel and nothing else in memory; everything else they share is in Redis, where each
command is atomic and a sequence of commands is not. No lock spans two commands or two
calls of the pool. Calls to Telegram, Redis, PostgreSQL and yt-dlp may fail, and most
failures are only logged.

What is hard here: the claim, send and rollback of `Enqueue` against workers that
release claims; `IsInProgress` followed by `Enqueue`; four ways out of `process` with
deferred calls; a shutdown that waits for nobody; a panic on a nil `msg.Video`;
sequences of Redis commands that interleave or stop halfway; and the inline version,
whose use depends on the order of commands on both sides; lifetimes that several users
set for one key; a right that is checked in one SQL statement and used in another.
`PROJECT.json` lists each
hazard with its line and the properties that cover it.

## 2. The modules

| Module | Models | Extends / uses |
|---|---|---|
| `DownloadService` | what the pool promises: claims, a queue in order of acceptance, single starts and finishes, death | |
| `WorkerPool` | the pool, the downloader's outcomes and the process | refines `DownloadService` |
| `WorkerPoolProofs` | types, claims, directories, answers, backlog, the implementation of `DownloadService`: theorems about `WorkerPool` | `WorkerPool` |
| `WorkerPoolStores` | what the pool leaves in Redis and PostgreSQL: theorems | `WorkerPoolProofs` |
| `InlineHistory`, `InlineHistoryProofs` | one user's history list and inline version, command by command | |
| `VideoBot`, `VideoBotProofs` | the handlers, the cache and the rate limit around the pool | composes `DownloadService` |
| `TgVideoBot` | the whole process: the handlers of `VideoBot` on the pool of `WorkerPool` | `WorkerPool`; refines `VideoBot` |
| `TgVideoBotProofs` | the pool's invariants beside the handlers, and the handlers' on the pool: theorems | `WorkerPoolStores`, an instance of `VideoBotProofs` |
| `CacheLifetime`, `CacheLifetimeProofs` | the lifetimes of a cached video and of a rate counter, on a clock | |
| `AdminCommands`, `AdminCommandsProofs` | administrators, users and `/stats` | |
| `TextHelpers`, `TextHelpersProofs` | the pure functions | |
| `MCWorkerPool`, `MCInlineHistory`, `MCVideoBot`, `MCTgVideoBot`, `MCCacheLifetime`, `MCAdminCommands` | symmetry sets, bounds and bounded checks of the pure functions for TLC | |

A definition named `Wrong...` (or `ShortLTrim`, `ShortWindow`, `NoWindow`) is a
slip next to the code. No specification uses it: `PROJECT.json` says which property it
breaks when it takes the place of a definition.

**WorkerPool.** An *update* is one goroutine that calls `Enqueue` once; it also names
the `Job`, the temporary directory and the uploaded file_id, since each job makes at
most one of each. `call[c]` is where the call stands: `claimed` after `LoadOrStore`,
`full` when the `select` took its default branch and the claim is not yet given up, then
the result. `wpc[w]` is the next shared step of a worker in `worker` and `process`, one
step per call that leaves the process. Each such call may fail. Where the code only logs
the failure (`notify`, `RecordDownload`), the state says that the call was made. Calls
on the cancelled context cannot succeed: Redis writes and yt-dlp. `RecordDownload` has a
context of its own. Of the history the module keeps which jobs have `pushed` an entry
and which have `bumped` the version: the list itself, which is trimmed, expires and is
cleared, is in `InlineHistory`. `Exit` is `main` returning on `ctx.Done()`;
`UploadPanics` is the nil `msg.Video` of `pool.go:146`, with the deferred calls of the
panicking worker; `Restart` is the restart policy of `docker-compose.yml`.
`os.RemoveAll` is taken to succeed. The capacity of the channel is a parameter, which
the code sets to four times the number of workers.

**DownloadService.** The abstract pool: stages of a request and a queue. It keeps one
fact of the implementation that callers can see: a request that met a full queue still
looks in flight (`bounced`) until its claim is rolled back. A refused request was a
`duplicate`, or met an `overflow` and held the claim for a while. `WorkerPool!Stage` is
the refinement mapping: a request is `running` if a worker has it, `queued` if the
channel has it, and else what `call` says.

**InlineHistory.** An *add* is a goroutine that puts a video into the history: a worker,
or the goroutine started by a cache hit, which looks first (`addToHistoryIfNew`). A
*query* is an empty inline query. Every Redis command is a step and may fail, which
ends the add, as does a crash (`Fail`). Users have keys of their own, so one user
stands for all. Expiry of the list has the same effect as `/clear` (DEL); the 30-day
expiry of the version key is not modelled, nor are the retries of the Redis client.

**VideoBot.** An update is a message or an inline query with a valid link. Its handler
asks the cache, the rate limit (inline only), `IsInProgress` and `Enqueue` in the order
of the code, one step each, and answers. The pool's steps are those of
`DownloadService`, taken by `Pool!Claim(c)` and the like; `Publish` is the
`SetCachedVideo` of a running job, which `WorkerPool` shows to happen under its claim
(`CacheWriteUnderClaim`). Keys expire at any time, which covers every lifetime the
code sets. A rate counter is the set of requests counted, its value the size.
`SetInlineMessageID` looks for a `Job` in the values of `inProgress`, where `Enqueue`
has put an empty struct (`InProgressJob`). `before[c]` is a history variable: the requests
for the URL that were over when the handler of `c` missed the cache, so that
`TurnedAwayForAReason` can demand a rival from the time after that.

**TgVideoBot.** The two modules above, put together: `WorkerPool` has the pool, the
workers, the process and the stores, and the handlers take the actions of `VideoBot`, with
`WorkerPool!Stage` for the stages, the channel for the queue and one `cached` for both. A
handler asks `IsInProgress` of the keys of the map (`CheckInProgress`) and calls `Enqueue`
step by step (`HandlerEnqueues`); a worker's `SetCachedVideo`
is what a handler may find (`PoolStep`); both end together (`HandlersEnd`). Keys expire
while the workers run (`RedisStep`), which the pool alone has no use for. A signal stops
workers only: handlers have `context.Background()`.

**CacheLifetime.** A *query* is a message or an inline query for one link; its handler, its
download and the goroutine after a cache hit are one sequence of Redis commands, each of
which may fail. The clock drops a key when its time has come. `RefreshFileIDTTL` is three
commands (`RefreshGet`, `RefreshLRange`, `RefreshExpire`), and may end by giving a
lifetime to a key that was stored, or replaced, after it looked. LRANGE may find the
video hot or not: the list itself is in `InlineHistory`. The inline queries are those of
one user, so there is one counter. `IncrRateLimitFails` covers a pipeline that
breaks off anywhere; the handler then lets the query through. The properties refer to
histories: `usedAt`; `asked` and `askedAt`, the queries whose `IncrRateLimit` has
returned and when; of these the `failed` ones, the `limited` ones, and the ones `excused`
because the pipeline before theirs failed; and the queries that were `overtaken` by a
download between their lookup and their claim.

**AdminCommands.** A *command* is an update with `/addadmin`, `/removeadmin` or
`/stats`. Its upsert runs in a goroutine of its own, at any time. Each SQL statement is
a step that may fail; `/addadmin` and `/removeadmin` may also be executed and reported
as failed, when the answer misses the limit of two seconds. `grants` records who
appointed whom, for `AdminsAreAppointed`: every set of users that contains `ADMIN_IDS`
and is closed under `grants` contains the table. The check in `isAdmin` and the
statement after it are not one transaction: `overtaken` remembers the commands that were
past `isAdmin` when their sender was removed, the only ones that `RemovedAreStopped`
lets go on. First names are stored or not, since the property tells no more apart; the
username column is handled by the same CASE.

**TextHelpers.** A text is a sequence of runes, and a piece of fixed wording, like the
prefix that `sanitizeError` drops, is one rune. Bytes that are no UTF-8, floats (uptime
is in whole seconds) and the parsing of numbers are left out.

## 3. The runs that pass

| Run | Instance | States | Shows |
|---|---|---|---|
| `pool_safety` | 3 updates, 2 URLs, 1 user, 2 workers, 1 place | 2.2 M | types, `SingleFlight`, `ClaimsAreOwned`, `TmpDirUnderClaim`, `AcceptedIsAccountedFor`, `StoresAgree`, `CacheWriteUnderClaim` |
| `pool_liveness` | 2 updates, 2 URLs, 1 worker, 1 place | 114 k | `AcceptedFinishes`, `AcceptedIsAnswered`, `RefinesService` |
| `history_safety` | 3 adds, 1 query, 3 files, list of 2 | 382 k | types, `MissedMeansOlder`, `HistoryIsCut`, `HistoryExpires` |
| `bot_safety` | 3 updates, 2 URLs, 1 user, 1 place, limit 1 | 2.0 M | types, `AnswersAgree`, `TurnedAwayForAReason`, `HitsComeFromJobs`, `RateLimitIsExact` |
| `bot_on_pool` | 2 updates, 2 URLs, 1 user, 1 worker, 1 place, limit 1 | 518 k | `ImplementsVideoBot`, `OneOutcomePerRequest`, `HitsWereUploaded` |
| `cache_lifetime` | 3 queries, limit 1, lifetimes 2 and 3, hour 2, clock to 4 | 1.9 M | types, `PerHour`, `QuietUserIsFree`, `UseKeepsCached`, `ReplacedByLatecomersOnly` |
| `admin_commands` | 3 commands, 2 users, one in `ADMIN_IDS` beside a word, 1 download | 1.7 M | types, `AdminsAreAppointed`, `RemovedAreStopped`, `NamesStayKnown`, `StatsAddUp` |

The pool's runs and `admin_commands` also evaluate the assumptions of `MCWorkerPool` and
`MCAdminCommands`: the text helpers against reference definitions on short texts and on
numbers around the turns of minutes, hours, days and decimal places.

**Bounds and why they are enough.** In `pool_safety` and `bot_safety`, one request fills
the one place of the queue, a request for the other URL meets the full queue, and a
third asks for either URL while the second still holds its claim: both reasons for
`Enqueue` to return false, and the rollback against a competitor. Two workers make
releases of one URL race with claims and receptions of the same or the other.
`pool_liveness` has the smallest instance in which a request waits behind another; that
the order of a longer queue is kept is proved (`PoolImplementsService`). A full queue
beside busy workers needs more requests than fit; whether the queue is full does not
depend on the workers, and the proofs of section 5 cover those instances. The histories
and versions of users never meet, so one user suffices. Three adds overflow a list of
two. The updates are finitely many, because each makes one call; nothing else is bounded
in the pool, and the process may die and restart any number of times. `bot_safety` has
bounds of its own in `MCVideoBot`: at least one of the three requests is a message, one
`IncrRateLimit` fails, and a loading stub is picked when no handler is left, since
nothing reads what that changes. `bot_on_pool` needs one request that is downloaded and
one that meets it at each of its points: in the cache, in the map, in Redis, at the end
of the process. The constraint of `MCTgVideoBot` leaves out what only one of the parts
looks at (entries of the history, the choice of a stub) and two inline queries without a
message; the proofs leave nothing out. Symmetry is used in the runs without liveness
properties only. In `cache_lifetime` two queries miss, one of them late, while a third
hits and prolongs; a clock of two lifetimes lets keys expire and come back. One pipeline
breaks off there (`OneFailure`); a second one changes the counter as the first does. In
`admin_commands` an outsider can be appointed, appoint and be removed. Three constraints
of `MCAdminCommands` keep it small: one `/stats`, which needs no second to interleave
with (`OneStats`), one update with a name (`OneName`), one `/removeadmin`
(`OneRemoval`); the proofs do without them. `history_safety`, `cache_lifetime` and
`admin_commands` check no deadlock, because all their goroutines may be finished.

**Fairness.** `FairSpec` has weak fairness for the steps of an `Enqueue` that has
begun, for each worker goroutine, and for `main`'s reaction to a cancelled context: the Go
scheduler runs what can run, and the calls return. The last is an assumption: the code
gives yt-dlp and the Telegram client no timeout. No update, signal or restart is ever
forced (`unless-stopped` does not restart a bot that was stopped by hand).

## 4. The runs that show a disagreement

Each checks one statement of a comment, a document or a text of the program.

| Run | Statement | What the code does |
|---|---|---|
| `pool_shutdown` | `main.go:96` "Graceful shutdown", `bot.go:160` promises the video | `main` returns without waiting: accepted requests are lost |
| `history_duplicates` | `bot.go:220-221` adds only what is not in the history | the check and the push of a hit are two commands: a worker, or another hit, pushes in between, and the video is there twice |
| `history_result_ids` | `README.md:132`, `inline.go:95-96`: a new version after each download | the push is visible before the bump, which a failure may skip, and `/clear` does not bump: one result id, two videos |
| `bot_queue_full` | `bot.go:163` "the queue is full" | said to a request that lost the race for its URL |
| `bot_chosen_result` | `pool.go:225-226` finds the job of a result id | `Enqueue` stores no job, so none is ever found |

Met while reading, without a run: `README.md:110` gives `RATE_LIMIT_PER_HOUR` a default
of 50, `config.go:54` one of 5; `bot.go:260` and `bot.go:388` place the added
administrators in Redis, and they are in PostgreSQL; messages are not rate limited at
all. `inline.go:190` speaks of so many videos an hour, and `IncrRateLimit` counts every
inline query that misses the cache, before `IsInProgress` tells whether it starts a
download: repeating the query for one video, as the loading stub invites one to
(`inline.go:88`), uses up the limit (`RateLimitIsExact` says which queries are turned
away). `redis.go:114` says that the counter "resets automatically after 1 hour", and
every request renews that hour, so that the counter of a user who keeps asking does not
reset (what holds instead is `PerHour` and `QuietUserIsFree`). And `PerHour` counts only
queries whose `IncrRateLimit` succeeded: while Redis fails, every query passes
(`inline.go:68`). `README.md:17` gives the three newest videos of a user a longer life,
and the next hit of anybody for whom the video is not among them cuts it back to
`CACHE_TTL_HOURS` (`redis.go:106`; `UseKeepsCached` is what is left). `ytdlp.go:229`
cuts the error message because Telegram rejects bad UTF-8, and `ytdlp.go:94` then
appends the whole output, which `pool.go:115` sends (`NoticeOutgrowsSanitizeError`):
such a notice may be rejected, and the user is told nothing. A video with a blank title
is published under its duration (`BlankTitleIsMisread` in `MCWorkerPool`).

What the user is told may be wrong in more places, and no property forbids it, because
the models do as the code does:

- "The video is being downloaded" (`bot.go:166`) is said on account of a claim that its
  owner may give up a moment later, for a full queue; the loading stub (`inline.go:277`)
  is also the answer to a query that met the full queue itself (`inline.go:81`). Nobody
  downloads the video then. `TurnedAwayForAReason` does not exclude this. It says that a
  request is turned away as a duplicate only if another one held the claim meanwhile.
- The worker may finish, and the video or the failure notice arrive, before the handler
  has sent its promise (`bot.go:160`). Both orders are in `VideoBot` and `TgVideoBot`.
- `/removeadmin` of an id from `ADMIN_IDS` is reported as done (`bot.go:371`), and the user
  stays an administrator. `/addadmin` and `/removeadmin` may be executed and reported as
  failed (`bot.go:339`).
- An administrator who is removed while one of the administrator's own commands is past
  `isAdmin` still has that command executed (`bot.go:337`), and may come back through it.
- The names of a user are those of the update whose `UpsertUser` ran last, not of the
  newest update (`bot.go:39`).
- The directory of a download that was running when the process ended stays on disk
  (`ytdlp.go:51`).

## 5. What is proved

The theorems hold for every value of the constants that satisfies the assumption of the
module: `PoolAssumption` (`Capacity \in Nat`, `None` is no update), `LimitAssumption`
(`Limit \in Nat`), `HistoryAssumption` (`Cap` positive, finitely many adds),
`BotAssumption` (capacity and limit are naturals), `LifetimeAssumption` (lifetimes are
positive, and `HotTTL >= TTL`, which `config.go` does not check), `AdminAssumption`
(finitely many users; an entry of `ADMIN_IDS` is a user or malformed). TLC evaluates
them on every run. The bounds that only TLC needs (the clock's `MaxTime`,
`MaxDownloads`) are arbitrary naturals in the proofs. Every invariant of every passing
run is a theorem, and so are the action properties and both refinements.

**WorkerPoolProofs.** The inductive invariant is
`IInv == TypeOK /\ Pipeline /\ Places /\ Claims`.

- `ClaimsAreOwned` and `SingleFlight` need each other: a release removes a URL from the
  map, and no other job must own it; a claim adds one, and a URL that is not in the map
  must have no owner.
- `Places` says that a job is in one place: in `Enqueue`, or at one position of the
  channel, or with one worker. Without it a job could be received twice.
- `Pipeline` ties `wpc` to `wjob`: a worker has a job exactly while it is in `process`.

The step lemmas go through the actions in groups: those that leave the owners alone,
claim, send, receive, and those that end a claim. `TypeCorrect`, `OneFlightPerURL`,
`NoClaimIsLost` and the action property `CacheWritesAreClaimed` follow. Two more
invariants stand on `IInv`: `Dirs` (a directory belongs to a worker between `MkdirTemp`
and `Cleanup`) gives `DirsAreClaimed`, and `Answers` (what has been sent and recorded at
each point of `process`) gives `NothingIsDropped`. `BacklogIsBounded` counts the accepted
requests by their places; it is the one theorem that needs finitely many workers. It
says what `WORKER_COUNT=0` comes to: nothing is ever accepted.

Liveness itself is out of reach, and two theorems prove what it rests on besides fairness:
no worker returns before it is told to (`WorkersKeepLooping`), and each step of `process`
takes its job nearer to the release, in the measure `Ahead` (`JobsEnd`).

For `PoolImplementsService`, `IInv` gives that a request's stage tells where its job is and
the other way round (`StageByPlace`), so that the claims of the pool are those of the
service. Each action then maps to one step of `DownloadService` or to a stutter.

**WorkerPoolStores.** `Stores` says which traces a job may have left at each point of
`process`: none while its worker is before `SetCachedVideo` or on a path of failure, in no
history before `AddVideoHistory`, and none before a worker has seen it. Since nobody
else acts for the job (`Places`), each step need only be compared with its own job
(`StepStores`). `FailedJobsLeaveNothing` follows.

**InlineHistoryProofs.** `MissedMeansOlder` is inductive with `Versions` (no query has read
a version above the current one): a bump makes every earlier answer older, a listing
misses nothing that is visible when it is read, and a push makes only its own,
unfinished, entry visible (`NewestAfterPush`). `StaleListingsAreOlder`,
`HistoryHasExpiry`, `HistoryStaysCut` and `TypeCorrect` are the theorems.

**VideoBotProofs.** What is cached for a URL, and what a handler has found there, comes
from a job for that URL that has started (`FromJobs`); a handler asks the pool last and
answers once (`Handlers`); a request is counted once (`CountedOnce`). With these
`AnswersAgree` and `RateLimitIsExact` are inductive. For `TurnedAwayForAReason` a handler
takes one step of the pool or none (`StepsOfThePool`), so that stages only go on
(`StagesGoOn`): whoever has held a claim has held it for good, and what is over stays over.
When a handler finds its URL in flight, the owner is not over, and so was not over when the
handler missed the cache: it is a rival (`InFlightIsRival`), and it remains one
(`RivalsStay`). Duplicates and those told to wait are made in no other way
(`DuplicatesAreMade`, `ToldWhenInFlight`); a request that was refused on `overflow` had
the claim itself, and is none of them.
`HandlersKeepToTheService` is the other half of the contract: the handlers call the pool
as it expects.

**TgVideoBotProofs.** To the pool each step of the bot is one of its own, a stutter, or the
expiry of a cached file_id (`PoolSteps`). An expiry only takes traces away
(`ExpiryKeepsPool`), so all invariants of the pool hold in the bot (`PoolInv`,
`PoolHoldsInTheBot`, `CacheWritesInTheBot`).

`VideoBot` publishes the file_id of a running job once, and lets `cached` change by that
and by expiry alone. To show that workers keep to it, `Publications` says that whatever
is in the cache or was found there has been published, and that a worker before its
`SetCachedVideo` has a job that has not; `Silence`, that nothing is sent or recorded for
a request that was not accepted. With these each step maps to one of `VideoBot` or to a
stutter (`BotImplementsVideoBot`), by the step lemmas of `WorkerPoolProofs`. That the
keys of the map tell a handler what the stages tell that of `VideoBot` is
`CheckOfTheBot`; it stands on `ClaimsAreOwned`.

The theorems of `VideoBotProofs` then hold of the bot as an instance (`Proved`,
`HandlersHoldInTheBot`). `OneOutcome` joins both sides: what a user was told fixes the
stage (`AnswersAgree`), the stage fixes the place of the job, and a job without a place has
been answered and recorded, or was never taken in. `HitsUploaded` does so for the cache:
a found file_id was published, and so uploaded, and a published job is never recorded as
failed.

**CacheLifetimeProofs.** The counter may expire within the hour of a query only if it has
not forgotten that query: `CounterRemembers` says that it lives for an hour after each
query it counts and that its value covers the last hour, whatever failed pipelines have
done to it in between. With `RecentWithinLimit` this gives `AtMostLimitPerHour`.
`CounterForgets` (unless the last pipeline failed, the counter ends an hour after some
query) gives `QuietUsersGetThrough`. `MissStands` and `ClaimIsHeld` give
`OnlyLatecomersReplace`: since a query missed, nothing was stored, unless by a download
that overtook it.

**AdminCommandsProofs.** `AdminsAreAppointed` is inductive only with the senders that
got past `isAdmin`: they were appointed too, even if they have been removed since
(`SendersAreAppointed`). `RemovedAreStopped` is inductive beside the types: a row disappears by
`RemoveAdmin` only, which marks the senders' commands that are past `isAdmin`, and to
get past it a command needs a row or `ADMIN_IDS`. `TodayIsCounted` keeps today's users
below the downloads at every point between the statements of `/stats`.

**TextHelpersProofs.** Plain theorems about the operators.

**Only model-checked**: the liveness properties and `ReadPrinted`, which are out of the
prover's reach (fairness, and choices over data).

## 6. What is not modelled

Texts, layout and logging, except for the helpers above; the arguments of yt-dlp and the
parsing of its duration; the start-up checks, which end the process before anything
runs; the schema; `GetTopUsers`, `CountCached` and `last_seen`, which decide nothing; the
inline commands, which answer with fixed articles; the retries of the Redis client;
Telegram's own caching of inline answers, which is outside the repository. A call that
never returns is not modelled either: the code has no time limit for yt-dlp and for
Telegram, and with every worker in such a call the pool stands still. A negative
`WORKER_COUNT` panics before anything runs.

## 7. The plan

Built: the pool with its abstract promise, the history, the handlers that compose them, the
whole bot, lifetimes, administrators and texts, and the proofs named above. Left:

1. An external model of Telegram's answer cache for the non-personal answers of
   `inline.go:72`, once its rules are written down somewhere.

## 8. Running

```
tlc -workers 2 -config WorkerPoolSafety.cfg MCWorkerPool
tlapm WorkerPoolProofs.tla
```
