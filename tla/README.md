# Verification of Proxy Sentinel

TLA+ models of the Go gateway in `src/`: a reverse proxy with token
authentication, rate limiting, load balancing, asynchronous request logs, a
management panel and an alert engine, all in one process on one database. The
models cover the parts whose correctness depends on the order in which
goroutines, requests, administrators, backends and the clock act, on where a
process is cut off, and the pure algorithms that decide what is forwarded and
what a start runs with. TLC checks them on small instances; for eight components
TLAPS proves the main properties for all values of the constants.

## 1. The system

A proxied request passes, in this order, the IP access list, the token
authentication, the rate limiter and the handler, which asks the routing rules
or the balancer for a backend, forwards the request and submits a log record.
The panel's requests pass the session middleware and, when they write, the
check for administrators. Beside them run the log flusher, the health checker,
the limiter's sweeper, the login limiter's cleanup, the retention task and the
alert loop. Components share state through mutexes, atomic pointers and the
database; there are no transactions across statements.

| component (source under `src/`) | state | operations | what is hard | what makes it correct |
|---|---|---|---|---|
| rate limiter (`internal/ratelimit`) | map of buckets | `Allow`, `Remove`, `Sweep` | the clock is read before the mutex; buckets vanish and come back | rate and burst are kept, `Retry-After` is right, the sweep is invisible |
| tokens (`auth/proxy_auth.go`, `api/tokens.go`) | rows of `proxy_tokens` | authenticate, create, change, delete | a request runs with the limit it has read before | as above |
| log writer (`internal/logger/db.go`) | queue, wake-up channel, subscribers | `Write`, `run`, `flush`, `Close`, `Subscribe` | non-blocking wake-ups, drops, closed channels, shutdown | stored once and in order or accounted for, nobody waits for ever |
| sessions (`auth/web_auth.go`, `auth/jwt.go`) | cache of users | verdict on a token | cache fill races with invalidation | revoked sessions end, valid ones go on |
| users (`api/users.go`, `storage/auth.go`) | rows of `users` | create, delete, reset, change role | check and act in separate statements | somebody may log in, roles are current |
| login limiter (`api/auth.go`) | failures and lock per address | `allowed`, `fail`, `success`, `cleanup` | the password check runs between two critical sections | guesses are bounded, locks last |
| balancer, health checker (`proxy/balancer.go`) | list, health map, counter | `Next`, `MarkDown`, `MarkUp`, `SetBackends`, probes | late reports, replaced lists | sound and even choice, health follows backends |
| handler, rules, rewrites (`proxy/handler.go`, `rules.go`, `rewrite.go`) | rules, rewrites | `ServeHTTP`, `ErrorHandler`, `Match`, `Apply` | configuration changes in mid-request; prefixes of characters that mean segments; headers anybody may write | only a backend's own failures take it offline; it gets the path that is meant, and the addresses a request came by |
| settings (`api/settings.go`, `storage/settings.go`) | table, parts in force | `updateBackends`, start | several statements, failures, overlapping saves, restarts | what is in force is what a restart brings back |
| IP access list (`internal/ipacl`, `api/ipacl.go`) | compiled list | parse, compile, match, update | address families, zones, an old format | the list admits whom its entries mean |
| alert engine (`internal/alert`) | rules, baseline, last notices | rounds, `SetRules` | sends in mid-round, crossing saves, lost answers | no invented event, silence is kept, rules settle |
| start, shutdown (`cmd/sentinel/main.go`) | — | bootstrap, load, shut down, retention | restarts between any two steps | see database, sessions, settings, log writer |
| database (`storage/db.go`, `storage/auth.go`) | schema, rows of an older version | `migrate`, `MigrateLegacyTokens` | statements that belong together and are committed one by one | a start that is cut off can be repeated; tokens and sessions are what they should be |
| configuration (`config/config.go`) | sources, environment | `Load`, `applyEnv`, `validate` | four sources, two of them through the environment | the right source decides; fatal values stop the start |
| maintenance, audit (`api/maintenance.go`, `main.go`) | tables by age | retention, purge, `Audit` | overlap, failures, time zones as text | rows go by a limit meant for them, purges are accounted for |
| log queries, statistics (`storage/logs.go`, `stats.go`, `stats/trend.go`) | `proxy_logs` | pages, export, real-time numbers, trend | answers of several SELECTs, pages that shift | parts of an answer differ by no more than was written, a walk misses no more than was deleted |
| other dialects, router, masking, web pages | — | — | — | not concurrent, or pure data |

`PROJECT.json` lists every component with its status, and every hazard with its
line and the properties that cover it.

## 2. Modules

| module | models | extended by |
|---|---|---|
| `RateLimiter` | limiter, token rows and handlers, sweeper | `MCRateLimiter`, `RateLimiterProofs` |
| `TokenBucket` | abstract: a bucket per key that never forgets | instantiated by `RateLimiter` |
| `LogWriter` | writer, live streams, shutdown | `MCLogWriter`, `LogWriterProofs` |
| `LogPipeline` | abstract: what may happen to a record | instantiated by `LogWriter` |
| `Sessions` | users, JWTs, cache, panel handlers, bootstrap | `MCSessions`, `SessionsProofs` |
| `LoginLimiter` | limiter of failed logins | `MCLoginLimiter`, `LoginLimiterProofs` |
| `Balancer` | balancer and health checker | `Routing` |
| `Routing` | handler, rules and hot update on top of `Balancer` | `MCRouting`, `OperationProofs` |
| `AccessList` | parsing, compiling and matching of the access list | `Settings` |
| `Settings` | saving, installing and loading of all settings | `MCSettings`, `SettingsProofs` |
| `Alert` | rounds, rules, silence and delivery | `MCAlert`, `AlertProofs` |
| `Upgrade` | the start over a database of an earlier version, and its repetition | `Startup` |
| `Configuration` | the sources of the configuration, their order, checks and corrections | instantiated by `Startup` |
| `Startup` | both halves of a start: configuration and database | `MCStart`, `StartProofs` |
| `Retention` | the hourly retention, a purge and its audit record | instantiated by `Operation` |
| `Forwarding` | rules, rewrites, paths and addresses of a forwarded request | instantiated by `Operation` |
| `LogQueries` | answers made of several SELECTs while rows come and go | instantiated by `Operation` |
| `Operation` | the three above, side by side | `MCOperation`, `OperationProofs` |

Conventions. A critical section, a database statement and a channel operation
are one action each; what happens between them is a program counter in a record
per request (`calls`, `req`, `slots`, `admins`, `round`, `checking`, `purge`,
`reader`, `proc`). Variables have the names of the fields they stand for. A
variable `hist` (or `misses`, `changed`, `picks`, `seen`) is history: it is read
by properties, and by the guards that bound faults. The histories are plain
records of what happened (`misses` is the sequence of ticks of the failed checks
of an address), so that an invariant can say which part of it is still in force. `clock` and `now` are the
wall clock in ticks, `age` counts hours. A definition with a suffix such as
`Late`, `Half` or `AtOnce`, just before the one it resembles, is a deliberately
wrong variant that shows that a property can fail; no specification uses it.

Composition. Where components act on one another their modules are composed:
`Routing` extends `Balancer`, `Settings` extends `AccessList` and has every part
that a save installs, the abstract specifications are instances. The parts in
`Startup` and in `Operation` share no state and do not act on one another, so
every property about one of them holds of the product exactly if it holds of the
part: a behaviour that is checked (`active`) takes the steps of one part while
the others keep a state they can be in, which visits every state of every part
without multiplying them.

How state and actions correspond to the code:

* **RateLimiter.** `present` and `bucket` are `Limiter.buckets`; tokens are
  counted in units of `1/Window`, which makes the float arithmetic exact.
  `Stamp` is `now := time.Now()` at the head of `Allow`, `Decide` its critical
  section with the in-line sweep (`Kept`), the refill and the answer.
  `SweepStamp` and `Sweep` are the background task. `rpm` has the limit of a row
  in force, or why there is none. The refinement mapping is named: `FullAt` and
  `LongAgo` are when the abstract bucket was last full, `Due` the calls it still
  owes an answer, `Answers` those it has given. `FindToken`, `UpdateToken`, `DeleteToken` and
  `Remove` are the statements of the handlers and the call after them.
* **LogWriter.** `queueCapacity` is the writer's field, set at the start.
  `Enqueue` is the critical section of `Write`; `BeginBroadcast`,
  `Offer`, `EndBroadcast` the loop under `subMu`; `Signal` the non-blocking send
  on `flushCh`. `SelectTick`, `SelectFlush`, `SelectDone`, `Swap`, `InsertOk` and
  `InsertFail` are `run` and `flush`. `BeginShutdown`, `CloseDone` and
  `CloseReturn` are the end of `main`; a request may outlive `Shutdown`. In
  `LogPipeline`, `Store` takes pending records in order and appends them, so
  that its own invariants, `InOrder` and each record in one place, follow.
* **Sessions.** `Present` asks the cache, `ReadUser` reads the row, `StoreUser`
  stores it and decides. Each handler is its chain of statements, ending in
  `Invalidate`. Identifiers are never used twice (AUTOINCREMENT). `Restart`
  empties the cache and runs `bootstrap`, which also gives a new table its
  first administrator.
* **LoginLimiter.** `Begin` is `allowed`; the password check is the time a login
  spends in `checking`; `Fail`, `Succeed` and `Abandon` are its ends.
* **Balancer, Routing.** Methods of the balancer are operators, since each runs
  in one critical section; `Check`, `Heard` and `Finish` are the checker's round
  and its goroutines. `Arrive` loads the rules, `Balance` asks the balancer,
  and a request ends by `Served` or through `HandleError`. `InstallBackends`,
  `InstallStrategy` and `InstallRules` are three calls with requests in between.
* **AccessList, Settings.** Addresses are numbers with `Bits` bits, IPv6 having
  one bit more, its upper half being the mapped IPv4 addresses (`2 * 2^Bits`
  numbers in all); one of IPv6 may have a zone (`Zones`), the link a client was
  met on, which `RemoteAddr` has and `directIP` keeps. An `Entry` is an address,
  or a prefix without a zone; `InPrefix` is `netip`'s `Contains`, false of every
  address with a zone, `InNetwork` the network without that rule. `Admitted` is the
  reference: the clients a list means, without forms and compilation. `db` is the
  table, `live` what is in force; a request is the sequence `todo` of statements
  and calls it has still to make. `Restart` loads the table as `main` and
  `loadIPACL` do, also when a part cannot be read.
* **Alert.** One action per part of `evaluate`; `Fire`, `Delivered` and
  `NotConfirmed` are `fire`, `deliver` and a send whose answer is lost.
* **Upgrade.** One action per statement of `migrate`, `MigrateLegacyTokens` and
  `bootstrap`, in their order, each committed on its own. `rows` are the proxy
  tokens by value and form; the hash of a value is the same value in another
  form, and a plain-text value of 64 characters is one of `Long`. `Stop` ends
  the process anywhere, as a kill or the `log.Fatalf` of a failing statement
  does. `Init` is an empty database, or any that an earlier version may leave.
* **Configuration.** `LoadDotenv`, `LoadLocal`, `ReadYaml`, `ApplyEnv` and
  `Validate` are the steps of `Load`. There is one field for each way a field is
  read, checked or corrected: a list, five numbers and two
  words. `timeout` stands for the numbers that `validate` does not look at.
* **Retention.** The state is the age of each row. `Clean` is a DELETE of the
  goroutine, `PurgeDelete` and `PurgeAudit` a DELETE and the record of the
  handler. A limit is an age too; of an audit row it is `Zone` hours off, since
  SQLite compares the text of a local time with the text of one in UTC.
* **Forwarding.** `Match`, `Rewrite`, `JoinURLPath`, `ClientIP`, `AppendXFF` are
  the functions of those names, on sequences of characters and of addresses;
  `AddHop` is what `httputil.ReverseProxy` adds (external). A request arrives with
  what its client wrote into X-Forwarded-For (`wrote`), the addresses that
  proxies on its way added (`hops`), and X-Real-IP, which the Director passes on
  as it came. `Meant` is the
  reference for the path: it is defined on segments, by no line of the code.
* **LogQueries.** A row has an id, which follows the order in which requests end,
  and `at`, its `created_at`, which is when its request started: `Insert` may
  choose any time up to `now`, and `DeleteBefore` goes by it, so that a newer id
  may go before an older one. Each SELECT is a step of `reader`; `ListLogs`,
  `GetTrend`, `Pick` and the others are what the SQL returns; `Ordered` is `ORDER
  BY`, which puts a row after as many as come before it. A SELECT that fails ends
  the answer (`Refuse`), but for that of a percentile, whose error `pick` drops
  (`TrendPick`). `hist` remembers the rows that were in the table since the reader
  began; `Stayed` are those that were there all the time. A client that asks for page
  after page is external, as the panel's script does it.

## 3. Runs

Run a configuration with `tlc -config <file>.cfg <module>`. Passing runs:

| run | what it shows | bounds, and why they are enough |
|---|---|---|
| `rate_limiter` | `AdmissionBound`: a bucket admits at most a burst plus the rate since its creation. `RetryAccurate`, `RetryBounded`: the wait told to a client is enough, not a second too long, and grows by no more than the lag. `ImplementsTokenBucket`: the map, the sweep and late stamps answer as `TokenBucket` does | one token, two callers, one administrator, a window of 2 ticks, a limit of 3, 5 ticks: two calls can be stamped in one order and decided in the other, a bucket can fill, idle for more than two windows, be swept and come back. `MaxLag` is 1: a call waits at most half a window for the mutex. With one key the sweep inside `Allow` finds nothing to remove; the proof of `AdmissionBound` has any number of keys |
| `log_writer` | refinement of `LogPipeline`, `NoLostWakeup`, `NoSendOnClosed`, `DropsOldest`, `NothingLeftBehind`, `EventuallyFlushed`, `CloseReturns` | two requests, batches of two, queues of one, two and three records (`QueueCapacities`). With a queue of one batch: one stream and three records (`FewRecords`), so that the queue overflows, a wake-up meets a full channel, a stream is cancelled in mid-broadcast, a request outlives the shutdown. A queue of one would give up more than it holds (`drop > len`, `db.go:76`); a queue of three takes a fourth record (`MaxRecords`) after an overflow that leaves a newer one, so that dropping another than the oldest shows. These two have no stream |
| `sessions` | `VerdictsSettle`: after a row has been unchanged for the life of a cache entry plus the time a read may wait, every verdict is the table's | two users, two requests, a cache life of one tick, two ticks, one version per row: a read, a change, an invalidation and a late store in every order |
| `login_limiter` | `GuessesBounded`: no lock period sees more failed checks than the threshold plus the logins in flight. `LockLasts`: only a success or a restart lifts a lock early. `TypeOK` bounds the counter | two addresses, two logins, a threshold of 2, a lock of 4 and an idle life of 2 ticks, 7 ticks: a lock can be set, run out and be set again. The program has 15 minutes for both times; the lock is longer here so that each condition of `cleanup` matters |
| `routing` | `NextSound`, `EvenSplit`, `ReachableComesBack`, `UnreachableGoesDown` | two backends, one request in flight, three configurations with each strategy, a rule and a zero weight; the counter wraps at 2, which every list's length divides. The program's wraps at 2^64: where a length does not divide that, the choice is uneven once in as many requests |
| `settings` | `SavedIsLive`, `WriteAhead`, `ListMeansWhatItSays` | two administrators, two bodies that give and omit each optional part, a legal and an illegal access list, two rows of the old format, addresses of two bits and one link; lists name single addresses with and without a zone and networks of both families; a restart may fail to read one part |
| `alerts` | `AlertsStandForEvents`, `Spaced`, `RulesSettle` | a backend that goes down once, may be removed and added, two administrators, two saves, one unreadable row, two minutes. Deadlock is checked |
| `start` | of `Upgrade`: `TokensSurvive`, `OldSessionsEnd`, `SessionsSurviveRestart` and, live, `EventuallyServes`; of `Configuration`: `ShellBeatsFiles` | two accounts, three tokens (`Long` and short, configured and not), every subset of columns, rows in every form, two stops, versions up to 2 (`MaxVersion`): a start is cut off, the next one too, and the third runs through. Every source of the configuration is absent, broken, or sets one name to something good, bad or empty, so each pair of sources meets on each kind of field |
| `operation` | of `Retention`: `KeepsRecent`, `Accounted`; of `Forwarding`: `ForwardedAsMeant`, `ChainIsTrue`; of `LogQueries`: `MissesOnlyBelowDeleted`, `MissesNoMoreThanDeleted`, `PartsAgree` | three rows, a day of two hours, one hour east of UTC, ages up to 4 (`MaxAge`: past every limit), one failing statement, one restart: a purge overlaps a round of the retention, fails or ends half-way. All clean paths of up to four characters over two letters and the slash under all tables of up to two rewrites with prefixes that are segments, halves of segments, or end in a slash: the shortest paths that tell these apart; at most two proxies in front, which add to what a client wrote. Four rows (`MaxId`) of two kinds, two moments (`MaxTime`), a window of one of them (`Span`), pages of one row and five of them (`MaxPages`): a walk ends although inserts shift it, a slow request's row goes while older ids stay, a window loses rows while it is read |

Runs without a deadlock check (`CHECK_DEADLOCK FALSE`) stop where a bound does:
at the last tick or record, or when the program has ended.

Runs that show a disagreement between the code and what its comments or
documents say (each checks one property and is expected to violate it):

| run | property | what happens |
|---|---|---|
| `sessions_last` | `SomeUserLeft` | two administrators who delete each other both count two users (`users.go:108`) |
| `routing_blame` | `OnlyFailuresMarkDown` | a chunked upload over the limit takes a healthy backend offline (`handler.go:203`) |
| `alerts_silenced` | `OutagesNotSilenced` | a backend recovers while alerts are off; its next outage is silenced by the last one (`engine.go:213`) |

Each property of a passing run has a mutant in `PROJECT.json`: a plausible
mistake in one definition, by which the property fails under the same bounds.

### Fairness

Only what the program's scheduling gives is assumed.

* `LogWriter`: the ticker of `run` always ticks again and a select with several
  ready cases picks at random, so `SelectTick` and `SelectDone` are strongly
  fair; the goroutine itself and the insert, which has a timeout of 10 seconds,
  are weakly fair. Requests and streams may stop at any point.
* `Routing`: the checker's ticker, its goroutines and the probe's timeout make
  `Check`, `Heard` and `Finish` weakly fair. Requests, administrators and
  backends owe nothing; the liveness properties are conditional on a backend
  that stays in the list and stays up, or down.
* `Alert`: the loop is one goroutine on a ticker, its queries and sends have
  timeouts: `Evaluate` is weakly fair, and so is a handler that has written its
  row (`Adopt`). Saves and unreadable rows are finitely many by the bounds.
* `Upgrade`: the supervisor (`restart: unless-stopped` in the compose file,
  systemd in DEPLOYMENT.md) starts the program again, and a start is sequential
  code: `Boot` is weakly fair. Stops are finitely many (`MaxStops`), without
  which nothing could be promised; `EventuallyServes` says that no sequence of
  cut-off starts leaves a database over which a start never ends.
* The other modules state safety only and assume no fairness.

## 4. Proofs

`tlapm` checks `RateLimiterProofs`, `LogWriterProofs`, `SessionsProofs`,
`LoginLimiterProofs`, `SettingsProofs`, `AlertProofs`, `OperationProofs` and
`StartProofs` to the last leaf, from the named assumptions on the constants,
which TLC evaluates in every run:

* `LimiterAssumption`, `WriterAssumption`: capacities, limits and bounds are
  natural numbers, a window and a batch are not empty.
* `SessionsAssumption`: a cache entry lives for at least a tick (30 seconds in
  the code) and a table holds at least one row; a name that is no user is none.
* `LoginAssumption`: finitely many logins are in flight, the threshold is positive.
* `SettingsAssumption`, `AddressAssumption`: a request has a list of backends, as
  `updateBackends` insists, and no value is the mark of an absent row; lists are
  sequences of well-formed entries (`ParseConfig` and the JSON decoder make no
  others).
* `AlertAssumption`: a silence is positive, as the engine makes it.
* `RoutingAssumption`: what is saved has passed `updateBackends`, and the counter's
  range is a multiple of every list's length.
* `OperationAssumption`, of three parts. `RetentionAssumption`: finitely many
  rows, each of one table; days and the zone are integers. `ForwardingAssumption`:
  what is saved is valid, and paths, prefixes, replacements and tables are finite
  sequences; a request has an origin and a peer on its way, which are one if it
  comes directly, whatever its headers say; otherwise it was `Introduced`: its
  origin is the first address that the proxies in front added, or, where none adds
  any, what they wrote into X-Real-IP. What a client wrote into X-Forwarded-For is
  any sequence, in front of theirs.
  `QueryAssumption`: sizes of pages; a duration is a natural number of milliseconds.
* `UpgradeAssumption`: the administrator is an account; the
  configured tokens and the long ones are tokens.
* `ConfigurationAssumption`: a file sets names the program knows; a number in the
  environment is one, an empty text or garbage, and one of config.yaml is a number
  (another makes the file one that cannot be parsed).

One theorem has hypotheses of its own. `SweepsAreInvisible` holds for one limit
(`OneLimit`: `TokenBucket` says nothing of a bucket whose limit changes, since
the code gives it the level of the old one) and for calls that wait for the mutex
for less than half a window (`ShortLag`): a window is a minute, and the critical
section is a few map operations. If a stamp could be later than that, a bucket
swept as idle could still be asked about a time at which it was not full.

* **RateLimiter, `TypeCorrect`.** `TypeOK` is inductive. Of note: a call past
  authentication carries a positive limit, which every division relies on.
* **RateLimiter, `AdmissionIsBounded`.** `AdmissionBound` is not inductive: it
  says nothing of the level. The invariant is `Conserved /\ Bounded`.
  `Conserved` says that what a bucket has admitted and what it still holds
  together never exceed the capacity plus the refill up to the bucket's own
  time, also when a late stamp moves that time back; `Bounded` carries the bound
  to the present, which a late stamp cannot. `DecideConserves` is the critical
  section, `FewerBuckets` every step that only forgets, `TickConserves` the clock.
* **RateLimiter, `DebtIsBounded` and `HintIsHonest`.** A late stamp takes tokens
  back, so a level may be negative. `Stamps` says how late a stamp can be; `InDebt`
  that the level *at the present time* is never negative, which alone bounds what
  a late stamp takes; `Hinted` that a client who was told to wait finds a token by
  then, and would not have a second earlier. `Hints` is both, for every bucket
  used with one limit. `DecideHints` is the critical section; that the division
  rounds up, `HintIsExact`, and by how much, `DivBounds`, are lemmas of their own.
* **RateLimiter, `SweepsAreInvisible`.** The abstract bucket of a key is the
  concrete one, and a full one where there is none. A step of `Decide` is
  `TokenBucket`'s answer (`DecideAnswers`), a sweep a stutter
  (`SweepIsInvisible`: what is old enough to be swept would be full again), and
  the handlers and the clock are the abstract ones.
* **LogWriter, `TypeCorrect`.** `TypeOK` is inductive; it includes that no
  stream's channel holds more than its capacity.
* **LogWriter, `WakeupsAreKept`.** `NoLostWakeup` is inductive given `TypeOK`:
  each step keeps the wake-up it finds, hands it on (`Enqueue` to `Signal`, to
  the channel, to the flusher), or empties the buffer.
* **LogWriter, `ClosedChannelsAreSafe`.** `NoSendOnClosed` is strengthened to
  `SendSafe`: a closed channel has left the set of subscribers, and outside of
  its loop a request has nobody to send to.
* **LogWriter, `QueueDropsOldest`.** `DropsOldest` compares what was dropped with
  what is in the queue. `Records` orders everything a record can be in: what was
  dropped or is being inserted lies before what is queued. `Counted` adds the
  warnings: what the counter lost when a flush reset it has been warned about.
* **LogWriter, `CloseLeavesNothing`.** `Closing` follows the last flush: it begins
  after `Close`, and what it leaves in the queue was submitted after that.
* **LogWriter, `WriterImplementsPipeline`.** With the invariants above each step
  is a step of `LogPipeline` or changes none of its variables: `InsertOk` stores,
  `InsertFail` and `Enqueue` lose and count, the rest stutters.
* **Sessions, `TypeCorrect`, `VerdictsDoSettle`.** `Subjects`: a request knows its
  user, or its token, at every step that uses it. `Lagging` is about age: a row
  that a request holds and the table no longer has was read before the change,
  and a stale cache entry was stored at most the lag of a read after it. So after
  the life of an entry and that lag nothing stale can be left.
* **LoginLimiter, `GuessesAreBounded`, `LocksLast`, `TypeCorrect`.** An entry can
  be forgotten (`cleanup`, `success`) and begin again, so the counter says little
  of the past. `Remembered` splits the failed checks into those the entry counts
  and those it does not, and says that the latter are too far away to share a
  lock period with any that is counted or still to come; `FewHits` counts the
  first kind, with one for each login in flight (`Guarded`); `Locking` ties the
  lock to the counter and the last failure.
* **Settings, `TypeCorrect`, `NoSettingIsLost`, `SavedMeansLive`.** The invariants
  are about the steps a request has still to take. `Belongs`: their values are
  legal, and a list is read back as it was saved. `Ahead`: an install to come
  finds its value saved, or will save it before; it holds of any overlap, which is
  why `WriteAhead` does. `InStep`: as long as nothing failed or overlapped, one
  request at most is at work, every part that differs from the table has its
  install to come, and that install brings what is saved by then (`Current`).
* **Settings, `ListsMeanWhatTheySay`.** An address stands for itself, its zone
  included, and a network for its clients without a zone, as `netip` has it; that
  networks leave out the clients on a link is `NetworksCoverLinks` of section 5. `Forms`:
  each number has one IPv6 form and at most one IPv4 form, which `Unmap` finds.
  `CompiledMeans`: what the three compiled sets find, asked with the two forms of a
  client, is what the entries stand for. The division inside `InNetwork` is never opened.
* **Alert, `TypeCorrect`, `ChatIsTruthful`, `NoticesAreSpaced`.** `Accounts` is a
  balance per backend: notices received, the one the round has still to send and
  the one the next comparison will find are no more than what happened; a saved
  rule, a replaced list or a lost answer only ever makes the left side smaller.
  `Stamped`: the engine's stamp of a notice is the time of its last confirmed
  delivery, unless something other than time makes it due again.
* **Routing, `TypeCorrect`, `ChoicesAreSound`.** `Typed` adds to the types what an
  update still has to install. `Sound` says what `Next` may answer in any state,
  `ChoiceSound` that it does under each strategy; only asking the balancer takes
  a request out of its waiting state (`OthersKeepAsking`). That the round robin
  looks at every place of the list (`Places`) is arithmetic of remainders, and
  that it finds a first healthy one needs that finite sets of numbers have least
  elements, which `LeastOfFinite` takes from the library's well-founded order of
  finite sets.
* **Routing, `RoundRobinIsEven`.** `EvenSplit` compares the backends' shares and
  says nothing of the counter. `Spread` does: the backends with one request more
  are those between a starting place and the one the counter stands at, around
  the end of the list. `OnePlaceMore` is a request more; after the last place all
  are level again. That the counter passes its largest value unnoticed is
  `WrapsUnnoticed`.
* **Forwarding, `ChainsAreTrue`.** `Passing` says that what a request is logged
  and sent with is what `ClientIP`, `AppendXFF` and the library (`AddHop`) have
  made of it under the trust in force; the rest is about these three, for headers
  of any length. Where headers are trusted and the client wrote one, the theorem
  says only that log and chain agree; what that leaves is `LoggedUnderOrigin` of
  section 5.
* **Forwarding, `RewritesAreMeant`.** `Forwards` adds to `ForwardedAsMeant` that the
  tables in force and the one an update has still to install are valid, that the
  backend of a request is known, and that the rewrites in force are among those
  seen while it is read. The rest is that reading a path by characters, as the
  code does, and by segments, as `Meant` does, comes to the same (`SentAsMeant`).
  `Splits` shows that the fold behind `Segments` exists and reads one character
  after the other; `SegmentsTell` that paths with the same segments are the same;
  `SegmentsOfBoth` what the segments of two paths put together are. From these,
  `FitsBySegments`: a prefix fits up to a slash or the end exactly if its segments
  are the first ones of the path; `Replaced`: what is put in its place replaces
  just these segments; `JoinIs`: nothing is lost or doubled at the seam with the
  base.
* **Retention, `RetentionTypes`.** `TypeOK` includes `GoodPurge`: the limit of a
  handler at work lies its days back, and one hour more at most.
* **Retention, `RecentRowsStay`.** The action property `KeepsRecent` follows
  from `TypeOK` step by step: only two actions delete, and `GoodPurge` ties the
  handler's limit, which was computed at its start, to the hour of the DELETE.
* **Retention, `PurgesAccounted`.** `Accounted` is not inductive: before a second
  DELETE the count of the first must be gone. `CountedOnce` adds that it is zero
  wherever the handler is not about to write its record.
* **LogQueries, `WalksMissOnlyBelowDeleted`.** `MissesOnlyBelowDeleted` speaks of
  the end of a walk; `Walking` of every page before it: a matching row that stays
  has been seen, or has at least as many newer ones before it as there were pages,
  or a newer one has been deleted. `WalkStep` takes this over each step: inserts
  only add to the newer ones, and a deletion that takes one of them is the third
  case for good (`History`). What the next page does about it rests on `RanksCover`
  and `Placed`: a strict total order of finitely many rows has a row of each rank.
* **LogQueries, `WalksMissNoMoreThanDeleted`.** `Balanced` says of every page what
  `MissesNoMoreThanDeleted` says of the last one: the rows that stay, have not been
  seen and are above the next page (`Passed`) are no more than those that were
  deleted. A deletion moves rows past the next page; their numbers of newer rows
  differ (`PlacesDiffer`) and were less than the deleted ones away from it, so they
  are no more than these (`NumberedRows`).
* **LogQueries, `AnswersAgree`.** `Agreeing` says of each part that was read that it
  fits the rows: those that stayed from below, those that were ever there from
  above. The first become fewer and the second more with every write, so a part
  that fits goes on fitting (`FitsLater`, `RowsLater`, `PercentileLater`,
  `PartsLater`); what is left is that each part fits when it is read (`RowsNow`,
  `PercentileNow`, `PercentileFails`, `ListPartNow`, `TrendPartNow`), which is about
  one table: `PlacesByAge` for a page, `ShortestAreFirst` for the percentiles, and
  `GroupsAddUp`, that the sizes of the groups of a finite set add up to its own.
  The fold behind `Total` is a chosen recursive function; `SumsTo` gives one that
  satisfies its equation, and `SumsAgree` that there is no other, by a least set on
  which two would differ.
* **Upgrade, `TypeCorrect`, `OldSessionsEndAlways`, `CurrentSessionsSurvive`.**
  `OldSessionsEnd` speaks of the serving program only. `StartOK` says for each
  step of a start what holds already: `ProcOK` that `hadVersion` is still true of
  the columns when it is used and that only plain text is going to be hashed,
  `SessionsOK` that there are no sessions but old ones until the versions have
  been raised, and that afterwards each old one is below its account's version,
  unless a start was cut off in between. The second part is also why raising the
  versions ends no current session.
* **Upgrade, `ColumnsBeforeUseAlways`.** `ColumnsOK` counts the columns that the
  start under way has made sure of. No run checks `ColumnsBeforeUse`; it can be
  added to `MCStart.cfg`.
* **Upgrade, `TokensSurviveAlways`.** `TokensOK`: a token whose plain text is
  recognised has one row in all, the others one for each form; the rows known at
  the first start are there, as they were or hashed; and `proc.legacy` are exactly
  the rows that look like plain text, so that none is left when the list is
  empty, however many conversions were cut off before.
* **Configuration, `TheShellDecides`.** `Loading` says after each step of `Load` what
  it has made of the sources: the environment as the overlay of the three sources
  that feed it, the configuration as that of the defaults and config.yaml, then of
  what the environment's texts stand for.

Only model-checked: liveness under fairness, which this prover does not reason
about. All invariants and action properties that the passing runs check have a
theorem. The library's induction theorems take an operator as a parameter, which
the installed provers cannot instantiate; where a statement about numbers, sums
or paths needs induction, it is proved by a least counterexample
(`LeastOfFinite`, `SumsAgree`, `NumbersInduct`, `SequencesInduct`), for the set
of numbers or lengths in question.

## 5. What the documents say and the code does not do

Beside the three runs, these promises of comments and documents were found not to
hold while modelling. Each is a definition of its module that no run checks; TLC
finds the violation when its name is put in place of the properties of the cfg.

| definition (cfg) | promise | what the code does |
|---|---|---|
| `Sessions.RevokedAtOnce` (`MCSessions.cfg`, as PROPERTY) | `users.go:172`: after a reset all old JWTs fail at once | a request reads the row, the handler resets it and clears the cache, the request stores what it read: up to 30 s more (`web_auth.go:120`) |
| `Sessions.RoleTrusted` (`MCSessions.cfg` with `MaxRows = 2`) | `users.go:216`: the role in an old token is not trusted | a user deleted and created again has version 0 again; a token of the old account fits, role included (`storage/auth.go:142`) |
| `Settings.WeightedHasTarget` (`MCSettings.cfg`) | `settings.go:144`: with `weighted` some backend has a weight | a failure, restart or overlap between the statements leaves the strategy without weights (`settings.go:180`) |
| `EverybodyLoggedOut` (`MCStart.cfg`) | `db.go:371`, DEPLOYMENT.md:388: an upgrade logs everybody out | a process that ends between ALTER and UPDATE never raises the versions: the next start sees the column (`db.go:367`) |
| `PlainTextGone` (`MCStart.cfg`) | `storage/auth.go:38`, README.md:327: plain-text tokens are converted | those of 64 characters are taken for hashes: they stay readable and are refused (`storage/auth.go:56`) |
| `ShellBeatsLocal` (`MCStart.cfg`) | `main.go:50`, DEPLOYMENT.md:226: the shell goes before `.env.local` | `godotenv.Overload` writes over the shell's variables (`config.go:105`) |
| `RequestsHaveTime` (`MCStart.cfg`) | `config.go:353`: what the program cannot run with stops the start; `config.example.yaml:48`: the time to connect and read | a timeout of 0 seconds or less passes `validate`; every request is over before it is sent and counts as its backend's failure (`config.go:251`, `handler.go:182` and 210) |
| `NetworksCoverLinks` (`MCSettings.cfg`) | `ipacl.go:2`: networks such as `fe80::/10` are supported | a client on a link comes as `fe80::1%eth0` (`api/ipacl.go:120`), and netip finds no address with a zone in a network: a refused network does not refuse it (`ipacl.go:236`) |
| `DocumentedStrategiesStart` (`MCStart.cfg`) | README.md:155: `strategy: round_robin \| random \| weighted` | `validate` stops the start for `weighted` (`config.go:381`) |
| `AuditKept` (`MCOperation.cfg`, as PROPERTY) | `config.go:217`, README.md:51: audits are kept 180 days | east of UTC they go as many hours earlier: the limit is local time, the column UTC (`main.go:292`) |
| `PurgesAreAudited` (`MCOperation.cfg`) | README.md:51 and 336: every purge is on the audit log | the rows go first; a failing INSERT or the end of the process loses the record (`web_auth.go:170`) |
| `RateIsShare` (`MCOperation.cfg`) | `stats.go:13`: the error rate is a share | the errors are counted after the total, and may be more (`stats.go:31`) |
| `ExportComplete` (`MCOperation.cfg`) | `api/logs.go:163`, README.md:208: up to 10000 filtered rows are exported | `ListLogs` replaces a size above 200 by 50 (`storage/logs.go:100`); the export of audits has the same form |
| `OverwrittenByPeer` (`MCOperation.cfg`) | `handler.go:440`: without trust the header is the connection's address | `ReverseProxy` appends that address once more (`handler.go:448`) |
| `LoggedUnderOrigin` (`MCOperation.cfg`) | DEPLOYMENT.md:337: behind nginx the client's real address is taken | DEPLOYMENT.md:323 has nginx add to X-Forwarded-For; a client that wrote the header itself is logged under what it wrote (`handler.go:418`) |
| `OnlyOwnRealIP` (`MCOperation.cfg`) | `handler.go:179`, README.md:335: forged headers do not spread | X-Real-IP is passed on as it came, with or without trust (`handler.go:186`) |

Further limits, which are in the models and about which no line promises
otherwise, or no property is stated:

* A record submitted after the last flush of `Close` is lost without a trace:
  `Shutdown` waits ten seconds, a proxied request may take longer.
  `NothingLeftBehind` speaks of records submitted before `Close`.
* A live stream may show records in another order than their sequence numbers,
  which are taken after the mutex is released (`logger/db.go:89`).
* The bound on guesses grows with the number of logins in flight, which nothing
  limits. A success clears a lock that others have just set. The login limiter
  counts connections' addresses: behind a reverse proxy all clients share one
  entry (`api/auth.go:114`), although DEPLOYMENT.md:337 names the login lock
  among what uses the client's real address.
* A token changed by an administrator may be used once more with its old limit,
  by a request that had read it; its bucket is then created with that limit.
* Two administrators may demote each other (`users.go:208`).
* Overlapping updates of the settings may leave the table and the running proxy
  different until the next restart; `SavedIsLive` excludes them, `WriteAhead`
  does not.
* Rules that a request omits stay, also when their target leaves the list. A
  request that an update crosses may get the backend of the old rules and the
  path of the new rewrites; a walk over pages may show a row twice, and may miss one
  where rows above it are deleted.
* A percentile whose SELECT fails is answered as 0 (`stats.go:152`).
* The comment at `balancer.go:154` says that known backends keep their health;
  `SetBackends` makes every backend healthy.
* A notice about an outage that cannot be sent is not tried again. The switch
  for outages in the rules (`BackendDown`) is read by no line of the engine.
* An old access list that was switched off loses its entries when it is
  converted (`ParseConfig`).
* After a restart the limiter and the login limiter start empty.

## 6. Assumptions, and what is not modelled

Assumed: a statement is atomic and the SQLite database trusted; a path reaches the
proxy as the router has cleaned it, without empty segments; X-Forwarded-For is one
header (`Header.Get` reads the first of several); with `trust_forwarded_headers`
every request comes through a reverse proxy that names its client, adding to
X-Forwarded-For as DEPLOYMENT.md:323 has it, or in X-Real-IP; no client writes
X-Real-IP for itself there, since nginx sets it.

Not modelled: single SELECTs whose content is their SQL (top paths, clients,
flows, the health series, lists of users and audits) and pure reads
(`getSettings`, `me`); texts and wording, masking, hashing and signatures; the
other two SQL dialects, which translate text; the router's wiring; web pages and
development scripts. Of the modelled files: the other headers, bodies and their
decoding in the handler, escaped paths (`RawPath`), how a rule compares a header
or a cookie, which is an equality, rollbacks to an earlier version of the
program, the last-used mark of tokens, sampling of
logs, the test message of the alert engine, the search for configuration files
in the directories above.

## 7. Plan

Written in this order, the most important first, and done: rate limiter with its
refinement and proofs; log writer with its refinement and proofs; sessions;
balancer and routing; settings; alerts; login limiter; access list; forwarding;
retention and upgrade with their proofs; log queries; configuration.

Proved since: the two refinements, the waits the limiter tells, the queue's order
and its end, sessions, login limiter, settings with the access list, alerts,
configuration, routing with its round robin, the addresses and the path of a
forwarded request, and the answers that are made of several queries.

Left: liveness, which stays with TLC; the hazards without a property (a token's
old limit used once more, an account that is deleted and created again, an update
of the settings that fails half-way, rules that a request omits, limits in local
time, a timeout that nothing checks), of which the notes in `PROJECT.json` and §5
say what the code does; and what §6 lists.
