# Formal model of the telemetry service

TLA+ modules that model the core of the telemetry service (NestJS, Postgres, Redis), the TLC
configurations that check them, and TLAPS proofs of what matters most. Paths are relative to the
repository root, `src/modules/devices/internal/` is written `devices/`.

Run one configuration with `tlc -config ingestion.cfg MCIngestion.tla`, check the proofs of a
module with `tlapm IngestionProofs.tla`.

## 1. Inventory

| Component | State it keeps | Operations | Talks to |
|---|---|---|---|
| Telemetry ingestion (`devices/application/commands/record-telemetry`) | table `telemetry_events` | `POST /devices/:id/telemetry` | device registry, rate limiter, cache, event bus |
| Latest state (`devices/infrastructure/query-handlers/get-latest-device-state`) | Redis `devices:latest-state:*` | `GET /devices/:id/latest` | device registry, `telemetry_events` |
| Rate limiter (`devices/infrastructure/services/telemetry-rate-limiter.ts`) | two families of Redis counters | `consume` | ingestion |
| Alerts (`devices/application/event-handlers`, `alert.repository.ts`) | table `alerts` | breached and cleared handlers, `GET /alerts` | event bus |
| Device registry (`devices/application/commands/register-device`) | table `devices` | `POST /devices`, `GET /devices` | ingestion and queries read its owners |
| History (`devices/infrastructure/query-handlers/get-device-history`) | none | `GET /devices/:id/history` | `telemetry_events` |
| Thresholds, validation (`devices/domain`) | none | value objects, `judge` | ingestion |
| Accounts and sessions (`src/modules/auth`, `src/modules/security`) | table `users`, JWT cookie | register, login, logout, guard | every endpoint |
| HTTP presentation (`presentation/controllers`, `presentation/dtos`) | none | guard, ValidationPipe, handler, answer | every endpoint |
| Error mapping (`src/shared/infrastructure/filters`, `i18n`) | message catalogs | exception to HTTP status and message | every endpoint |
| Event bus (`src/shared/infrastructure/event`) | listeners | `publishAll`, `on` | ingestion, alerts |

How they interact. A POST proves ownership (Postgres), spends rate-limit budget (Redis, two round
trips), validates and judges the reading (in memory), inserts it (Postgres, the unique index on
`(deviceId, recordedAt)` arbitrates duplicates), refreshes the cached latest state (Redis, a read
and then a write), and emits one verdict per threshold. The bus calls the listeners without awaiting
them, so the alert handlers run after and beside the request. A GET of the latest state proves
ownership, looks in the cache, and on a miss reads the table and fills the cache. A GET of
the history checks the owner and then reads the page and its count, two statements of one
transaction; a GET of the alerts reads the owner's devices and then their open alerts. Every request
to `devices/` passes the guard (cookie, else header), every request the ValidationPipe, and every
exception the error filter. Nothing spans two stores in one transaction, there is no outbox, and any
number of instances share the stores.

What is hard. Interleavings at every `await`, between requests, handlers and instances; a process
dying between two stores; a database whose outcome is lost; a device that retries what was already
done; readings replayed out of order; cached state that is stale when it is used; listeners that
overtake each other; counters that expire; pages that move under inserts; tokens and cookies that
expire under a request; values that a conversion turns into something else; error classes told apart
by the order of `instanceof` tests.

What makes each component correct:

* ingestion: one row per device and time; its side effects at most once; a 201 is honest; a Redis
  failure is invisible; strangers leave no trace;
* latest state: a HIT answers what a MISS would, or at least soon will; only the owner is told;
* rate limiter: no more than the limit, nobody refused who stayed below it, no refusal that outlives
  its window;
* alerts: each has a real cause and a real end; what is resolved stays resolved; what is open is
  still true; every breach is raised;
* registry: a device keeps its owner; one account per e-mail;
* lists and history: only what is the caller's, all of it, and a total that covers the page;
* thresholds, validation: what is stored is what was sent; verdicts follow the settings;
* sessions: browser and service agree about their end; no live token is turned away;
* error mapping: the answer tells the truth about its cause and nothing else.

PROJECT.json lists every component and every hazard with its line.

## 2. Modules

| Module | What it is | Code |
|---|---|---|
| `Ingestion` | the POST and the GET, which meet in the table and in the cache | `record-telemetry.handler.ts`, `telemetry-event.repository.ts`, `get-latest-device-state.handler.ts`, `device-state.cache.ts` |
| `ReadingLog` | abstract: an append-only log with effects and acknowledgements | what the comments of the above promise |
| `Alerts` | the two event handlers and the alert table | `telemetry-threshold-*.handler.ts`, `alert.repository.ts`, `alert.aggregate.ts` |
| `RateLimiter` | `consume` and its counters | `telemetry-rate-limiter.ts` |
| `Accounts` | sign-up and login over the users table | `register.handler.ts`, `authenticate.handler.ts`, `user.repository.ts` |
| `DeviceRegistry` | registration over the devices table | `register-device.handler.ts`, `device.repository.ts` |
| `Registry` | composes the two: a device's owner is the user whose token came with the request | `jwt-auth.guard.ts` |
| `Service` | registrations, POSTs, alert handlers and the list and history GETs over one set of tables; EXTENDS `DeviceRegistry`, instantiates `Alerts` | `get-device-history.handler.ts`, `list-*.handler.ts`, `read-*.repository.ts` |
| `Payloads` | operators: DTO rules, value objects, aggregates, settings, verdicts | `dtos/requests`, `domain/value-objects`, `domain/entities`, `telemetry-thresholds.provider.ts` |
| `ErrorMapping` | operators: error classes, the cascade to a status, catalogs and locales | `global-error.filter.ts`, `localization.service.ts`, `**/errors` |
| `Api` | one client against every endpoint: guard, pipe, handler, filter, cookie jar, clock; EXTENDS `Payloads` and `ErrorMapping` | `jwt-auth.guard.ts`, `auth-cookie.service.ts`, `main.ts`, the controllers |
| `MCIngestion`, `MCAlerts`, `MCRateLimiter`, `MCRegistry`, `MCService`, `MCApi` | instances for TLC | |
| `IngestionProofs`, `AlertsProofs`, `RateLimiterProofs`, `RegistryProofs`, `ServiceProofs`, `PayloadsProofs`, `ApiProofs` | theorems; `ApiProofs` EXTENDS `PayloadsProofs`, which is about operators only | |

### Ingestion

A request is a process; `pc` names the call it is waiting for, so each action is the code between
two awaits, and other requests may act in between.

| Action | Code |
|---|---|
| `GetById` | the lookup of the device and the ownership check; both failures are one 404 |
| `Consume` | the limiter's decision (any), then, before the next await, the validation of the payload |
| `Save` | the INSERT: stored, refused by the unique index, or failed with the row stored or not |
| `ExistingIdFor` | the lookup after a refused INSERT, and the early return for duplicates; the reading's own id if the row is gone, which `DuplicateIsNamed` proves it never is |
| `IsSupersededBy`, `SaveLatest` | the read and the write of `refreshLatestState`, whose errors are swallowed |
| `PublishAll` | `emit` of the verdicts, and the 201 |
| `FindOwnedById`, `FindLatest`, `FindLatestByDeviceId`, `Repopulate` | the awaits of the GET |
| `Expire` | the entry's TTL, an eviction, or a Redis restart |
| `Crash` | the process of one request dies; the client gets no answer and may send it again as a new request |

`published` and `charged` are not variables of the code: they record what was handed to the bus and
to the limiter, which is what the properties are about. The limiter appears as its decision only, so
what holds here holds for any limiter. A body stands for battery, temperature, position and status;
`Malformed` are the bodies that a value object refuses. 500 stands for any 5xx (the filter answers
503 when Prisma reports that the database is unreachable). A retry, by a device or by a proxy, is one
more request with the same device, time and body: the service does not tell them apart.

The devices table is the constant `Owner`; `DeviceRegistry` says how it comes about, and `Service`
has both, with a POST reduced to its check of the owner, its insert and its publication.

### Alerts

`Emit` is the bus: the handlers of a reading's verdicts run to their first database call within it.
`Publish` is `Emit` under an assumption of this module, that no reading is published twice; nothing in
the bus or the handlers sees to it. `Service`, whose POSTs only `Emit`, is shown to keep to it.

`raising` and `clearing` are the handlers waiting for `save` and for `findActive`; `resolving` holds the
alerts that a handler loaded and has yet to write back. `Resolve` writes the whole row, as the upsert
does, with the loaded copy's data: it does not look at what the row says now. The rows a handler loaded
may be saved in any order (the query has no ORDER BY). `Abandon` is a database call that throws, which
ends the handler, or a crash; `failed` remembers the verdict, so that a property can say that nothing
else loses an alert. A save that succeeds but reports an error is a `Resolve` followed by `Abandon`.
`orderly` records whether, so far, readings came in the order of `recordedAt` and each found the
handlers of the last one done: two promises of the code hold only then. `MaxBusy` bounds the handlers
that may still run when a reading is published.

### RateLimiter

Time is counted in minutes; a recorded-minute counter that is not hit for `RecordedWindow` minutes is
gone. Naming the arrival counter, hitting it, and hitting the recorded counter are three steps, with
other calls and the clock in between; an arrival counter ends some time after its minute, before or
after a call that was held up hits it (`ExpireArrival`). When Redis fails, a hit may have run no time,
once, or twice (the client sends the MULTI again after a lost connection), and the call is either
answered or let through by the catch. Rounding a life down to whole minutes ends a counter a little
early, which can only admit more, so the bound that is checked is the stronger claim. Redis is assumed
to keep its data: a Redis that restarts empty forgets its counters, and the limit with them.

### Accounts, DeviceRegistry, Registry

| Action | Code |
|---|---|
| `Ask` | a sign-up or a login arrives with its credentials |
| `CheckEmail` | the lookup of a sign-up, its 409, and the validation of password and name (400) |
| `SaveUser` | the upsert by a fresh id, which the unique index on `email` may refuse (409) |
| `FindUser`, `ValidatePassword` | the two awaits of a login; both failures are one 401 |
| `GenerateToken` | the answer with a token that carries the user's id |
| `Register` | a registration arrives; in `Registry`, with the token of its owner |
| `Lookup`, `SaveDevice` | the 409 of a registered id and the validation; the upsert by the client's id |
| `AccountCrash`, `RegistryCrash` | the process of one request dies |

Every call may fail, and a failing save may have stored its row. The user's status, which login and
the aggregate know, is left out because no code sets it to anything but active. Password hashing is
equality. A token never expires in `Registry`, which only lets more registrations pass; `Api` has
their lives.

### Service

Users register one device in a race, post readings for it, and ask what there is. The tables are
shared; each GET is a chain of queries, and everything else may happen between two of them.

| Action | Code |
|---|---|
| `Registration` | the steps of `DeviceRegistry`; `owners` and `owned` remember who owned what |
| `Accept` | a POST's check of the owner |
| `Store` | its insert: stored, refused as a duplicate, or failed with the row stored or not |
| `PublishVerdicts` | an await later, `publishAll`; nothing is looked up |
| `PostCrash` | its process dies between two awaits |
| `HandleVerdict` | the steps of `Alerts` |
| `Ask` | a GET arrives; an inverted history range is a 400 before anything is looked up |
| `CheckOwner` | the history's lookup of the device; one 404 for not there and not yours |
| `ReadPage`, `CountRows` | the two statements of `searchHistory` |
| `NextPage` | a client that pages until the total says it is done; each page checks the owner anew |
| `ReadDevices`, `ReadAlerts` | the query for the devices, and for their open alerts |
| `GetFails` | a query fails |

`read-telemetry.repository.ts:45-48` says that the page and the count see one snapshot. They share a
transaction, but its isolation level is the database's default, under which every statement has a
snapshot of its own, so they are two steps here. A reading may then be counted that the page could
have shown; `TotalCoversPage` is what remains true. `owners`, `owned`, `begun` and `postedBy` are
history: they are what the properties compare with. The cache and the limiter are left to `Ingestion`
and `RateLimiter`.

### Payloads, ErrorMapping, Api

`Payloads` reduces a JSON or query-string value to its kind (absent, null, a Boolean, a number, a text
of a number, a date, a blank, a word...) and the number or length that matters; `Values` are all values
that a client may send, `TextValues` those of a query string, `Settings` those of the environment. Each
DTO rule, value object and aggregate is one operator: it yields the error that the code throws, or none;
where the code tests one thing after another, so does the operator (IF, or the first of several errors),
for the order decides what is thrown. `ToNumber`, `ToDate` and the class-validator rules are external.
The kinds of a text tell apart what the rules tell apart, so a device id may be a word, a UUID, a
numeral or a date. What the DTO's `IsEmail` and the value object's regular expression make of exotic
addresses is one kind, `email`.
`ErrorMapping` names exceptions by their classes, a class by the set of its instances; `Cascade` is the
list of `instanceof` tests in the code's order. `UnhashedPasswordError` is left out: no request reaches
it.

`Bodies` are all bodies that an endpoint may be sent, `Requests` those that are sent.
`Api` sends any request of `Requests`, with the browser's cookie and perhaps a token kept from the
body of a login. `Guard`, `Pipe`, one action per handler, and `Receive` or `LoseAnswer` follow; the
clock may tick in between. What a handler finds in the databases is left open, so the handlers of
`Api` decide what may be answered, and those of the other modules when. `config` is chosen once: the
thresholds' settings and `JWT_EXPIRES_IN`. `effect` is what reached a table or a query, `cause` what
decided the answer. The properties compare `effect` and `answer` with a reading of the request's own
fields (`WellFormed`, `Documented`) that uses none of the operators of `Payloads`.

What the translation makes visible, and the properties state as it is:

* a `timestamp` that is a number or a Boolean is an instant of 1970 and is accepted;
* a blank `?limit=` is 0 and so a 400, a blank `?offset=` is 0 and fine;
* a threshold setting that is a number out of range is a 409 to every reading, after the limiter was
  charged; one that is a word is taken for the default and nobody is told, which the run
  `typo_in_threshold` holds against the comment on the error class. `VerdictsFollowTheSettings` is
  about the settings that are no typos;
* passwords of five characters pass, and the refusal of a shorter one says six;
* `JWT_EXPIRES_IN` in words (`10 minutes`) is understood by the token and not by the cookie, which
  then lasts an hour; `CookieEndsWithToken` is about the documented forms. When it is unset or
  unreadable, every login is a 500, and so is every sign-up, whose account is stored by then;
* the guard prefers the cookie and the `CurrentUser` decorator the header, but the decorator decides
  nothing.

## 3. Runs

`api` checks for deadlock: a client can always ask again. The other configurations disable that check,
for their models end when the finite set of requests, readings or calls is used up.

| Run | Bounds | What it shows |
|---|---|---|
| `ingestion` | 2 POSTs and 1 GET at once, 1 device, an owner and a stranger, 2 times, 2 bodies, every fault, fairness | idempotence, honest receipts, a derived cache, no trace of strangers, effects that only a crash or a 5xx can lose, Redis failures invisible, refinement of `ReadingLog`; every request is answered and staleness ends |
| `ingestion_sequential` | 3 POSTs and 2 GETs, one at a time, 3 times, a valid and a malformed body, 2 devices of which one is not registered, no faults | without races and faults a HIT equals a MISS |
| `alerts` | readings at 4 times, 1 device, 1 rule, any order, any interleaving (up to 4 handlers busy), handlers cut short, fairness | alerts are grounded and never reopened; every breach raised; a healthy reading resolves what it found; while `orderly`, an open alert is true and is resolved once |
| `rate_limit` | 3 calls, 2 recorded minutes, limits 3 and 2, a window of 2 and 3 ticks, Redis fails and repeats hits | limit per window, no innocent refusal, refusals end with the window |
| `registry` | 2 sign-ups, 1 login, 2 e-mails, 2 passwords, 2 registrations of 1 device, every failure | one account per e-mail, honest tokens, holders can log in, owners exist, late registrations are refused |
| `service` | 2 registrations of 1 device by 2 users, 2 POSTs that may fail or die, 1 GET of any kind, 5 ranges, pages of 1 row, 2 times, 1 rule | a caller is shown its own, all of it, with a total that covers the page; no reading reaches the alert handlers twice |
| `api` | 227 requests, with payloads that differ from a sound one in a field or two, at the edges of every range; 18 configurations; 4 database failures; 3 ticks of half an hour, 4 lives of tokens | what is stored is what was sent, verdicts follow settings, answers tell their cause, sessions have one end |

Why the bounds are enough. What can go wrong between POSTs goes wrong between two of them: two racing
copies, a retry after the first ended in any way, a newer or an older reading beside it, an owner and a
stranger. A third POST meets the table, the cache and the counters as one of the two can leave them; the
proofs have any number. Two recorded times
give order, three give a middle one that a replay can hit. Losing a race in the cache needs one
reader and one writer. The handlers of alerts meet only at alerts of one rule and device; two
breaches and two healthy readings are the shortest history in which recoveries race over more than
one alert. A window of two minutes and three ticks let a counter expire and be hit again. In the
registry a race needs two of a kind, and a login beside them sees every intermediate state. In
`service`, pages of one row over two readings are the least for an insert to move a row from one page
to the next, and two users the least for a device to change hands between two queries. In `api` the
checks of a payload are made field by field, so payloads with one or two odd fields reach every branch
and every order of errors; half an hour is shorter than, equal to, or longer than what is left of the
lives chosen. The proofs of section 5 have no bounds.

### Violations: where the code and its documentation part

| Run | The documentation says | The run shows |
|---|---|---|
| `cold_cache_replay` | a HIT and a MISS never differ (`record-telemetry.handler.ts:159-160`, `README.md:180-182`) | the entry expires, an old reading is replayed, finds no cached state and becomes the latest; one request at a time |
| `crash_before_publish` | the whole side-effect chain runs once (`record-telemetry.handler.ts:86-87`) | after a crash between INSERT and publication the retry is a duplicate and the chain never runs |
| `alert_per_breach` | at most one open alert per threshold (`list-active-alerts.handler.ts:20-21`) | two breaching readings, two open alerts |
| `device_takeover` | an id that is registered is a 409 (`register-device.controller.ts:46`) | two registrations that race are both answered 201, and the second owns the device |
| `typo_in_threshold` | a typo in a threshold setting fails loudly at the point of use (`telemetry-thresholds.error.ts:5-6`) | a setting that is a word is replaced by the default (`telemetry-thresholds.provider.ts:43`), and readings are stored and judged by that |

One more disagreement needs no run to be seen. `README.md:107` says that the copy of a stored reading
returns `200`, and `telemetry-recorded.response.dto.ts:32-33` that a duplicate is "a field on a 200"; the
controller has `@HttpCode(HttpStatus.CREATED)` (`record-telemetry.controller.ts:46`), and its handler has
no other way to answer, so a duplicate is a 201 like a stored reading. `Ingestion` answers 201, as the code
does; `ReceiptNamesStoredRow` speaks of the outcome of a receipt, STORED or DUPLICATE, and takes no side.

Configurations that are one edit away show more of the same kind. With `MaxInFlight = 2`,
`cold_cache_replay` needs no expiry: a GET fills the cache with what it read before a newer reading was
stored and cached. Without `orderly` in front of it, `OpenMeansStillTrue` fails for a replayed breach
that is older than the healthy reading that would have cleared it (`schema.prisma:62`), and in order
too when the cleared handler overtakes the breach; `ResolvedOnce` fails when two handlers load one open
alert and both write it (`README.md:219-220`). So these two say nothing of replays and of handlers that
overlap; `AlertsAreGrounded`, `ResolvedStaysResolved` and `EveryBreachRaised` are what holds of them. In
the same way `LateComersAreRefused` is about registrations that come late, and `device_takeover` about
those that race. A refusal for a recorded minute says
`retryAfterSeconds: 60` (`telemetry-rate-limiter.ts:126`) while its counter lives for a day after the
last hit; `RefusalEndsWithTheWindow` states the day. The race between two POSTs in the
cache is documented as accepted (`record-telemetry.handler.ts:184-189`); the run above does without it.
`StaleStateIsTemporary` is what remains true of all of them, and it rests on the TTL alone.

## 4. Fairness

`FairSpec` assumes that every call a handler awaits returns or throws (`maxRetriesPerRequest: 1` and
no offline queue in `redis.connection.ts`; Prisma's timeouts), and that every cached entry reaches its
TTL. `Expire` is weakly fair although a SET renews the TTL: a run has finitely many requests, so from
some point on nothing renews it, which is the silent device of the property. `FairAlertsSpec` assumes
that the calls of the alert handlers come back: each of a handler's turns is taken, in whatever order
the rows came. Nothing assumes that a request is ever sent, that a device retries, or that Redis or the
database work.

## 5. Proofs

For any number of devices, callers, requests, times and bodies, and any subset of the faults:

* `IngestionProofs`: `TypeOK`, `EffectsAtMostOnce`, `ReceiptNamesStoredRow`, `StatesAreStoredReadings`,
  `StrangersLeaveNoTrace`, `EffectsMissOnlyAfterFailure`, `StoredIsAcknowledged`, `LogIsAppendOnly`
  (which no run checks by itself), the refinement `ImplementsReadingLog` and, as told below,
  `HitMatchesMiss`. The inductive invariant `IInv` adds what the code knows at each await: a request
  past `getById` is the owner's; a row is the reading of the request it is named after, and that request
  is past `save`; keys are unique; the steps after `save` and whatever was published are about a row; a
  refused insert has a row to name, since nothing deletes one;
  what a GET holds is a row's state. `EffectsAtMostOnce` then follows because two published readings
  with one key are two rows with one key. The refinement shows, action by action, that `Save` is
  `Append` or a stutter, `ExistingIdFor` is `Acknowledge`, `PublishAll` is `RunEffects`, and the rest
  stutters.

  `HitMatchesMiss` is false in general: `cold_cache_replay` refutes it with an expiry, races do without
  one. `SettledHitsMatch` proves it where the code can keep it, under `Faults = {}` and as long as
  the behaviour is `Sequential`, which allows requests for different devices to interleave.
  `OneByOneHitsMatch` is its case of one request at a time, the setting of `ingestion_sequential`, for any
  number of devices, requests and times. The invariant beside `IInv` (`CacheIsLatest`,
  `MissesAreEmpty`): the entry of a device that no POST is about to refresh is its latest reading; while
  one is, the entry lacks that one reading and nothing else; a GET misses only on a device that never
  reported, so it has nothing to write back.
* `AlertsProofs`: `AlertsTypeOK`, `AlertsAreGrounded`, `ResolvedStaysResolved`, `EveryBreachRaised`,
  `OpenMeansStillTrue` and `ResolvedOnce`. The invariant says of every pending handler that its
  verdict was published and that what it loaded is a grounded alert no newer than its verdict; that is
  why a write from a stale copy can move a recovery but never undo it. While `orderly`, the handlers at
  work are those of the last reading alone, so nobody else writes what they loaded.
* `RateLimiterProofs`: `LimiterTypeOK` and `CountersAreMortal`, whatever Redis repeats or loses, and
  for any finite set of calls `AtMostLimitPerRecordedMinute`, `NoInnocentRefusal` and
  `RefusalEndsWithTheWindow`. The bound rests on two facts about the counter of an admitted call: it
  lives until the call's window ends, and until then it is at least the number of calls admitted in
  that window. The other two rest on the converse: a counter is at most `MaxHits` for each call that
  hit it, and one that is alive was hit less than a window ago.
* `RegistryProofs`: the types, `OneAccountPerEmail`, `TokensNameAccounts`, `DevicesHaveAccounts`,
  `LateComersAreRefused` and `RegisteredCanLogIn`. The last two speak of a state and all later ones;
  each is proved from a predicate that no step takes away: a registration that will find the device
  taken (`Hopeless`), a login whose account is stored (`Welcome`).

* `ServiceProofs`: `TypeOK`, `OnlyOwnersAreShown`, `OwnReadingsOnly`, `NothingSkipped`,
  `TotalCoversPage`, `NoOpenAlertHidden` and the refinement `ImplementsAlerts`. The invariant says at
  each query what the earlier ones established: the asked device is in `owned`, the user of a waiting POST
  and of a row is in `owners`, and a reading that was there in the beginning and has not been
  shown ranks behind the pages read so far. An insert can only raise a rank, which is why nothing is
  skipped. `PageCounted` says that the rows a query matches reach at least to the end of the page that
  was read; the count is taken from a table that can only have grown since. The refinement
  rests on `PublishedOnce`: a published reading has a row, a POST that waits to publish has a row, its
  reading is not published, and no two POSTs that wait have the same key. Only the unique index makes this
  so, for `PublishVerdicts` looks nothing up; it gives the guard of `Publish`, and with it every theorem
  about `Alerts`.
* `PayloadsProofs`: what the operators return, for every value and every exception. `FirstError` is the
  first of a list; a value object throws errors of its own family only; whatever is thrown has the
  status of an error, every message for clients is translated
  (`EveryMessageIsTranslated`), and the language is the first of the client's that is supported
  (`FirstSupportedLanguage`). Those about lists hold of any length; the least index that
  `CHOOSE` takes exists because `<` is well founded on the naturals.
* `ApiProofs`: `SessionsEndTogether`, for any requests, settings and clock. All tokens of a
  configuration last equally long and the cookie is never older than a token kept beside it, so when
  the guard finds a dead token, the other one is dead, too.

  `ApiTypeOK`, `RecordedAsSent`, `VerdictsFollowTheSettings` and `AnswersTellTheCause`, for every
  payload of `Bodies` and every setting of `Settings`, where the run has 227 requests and 18
  configurations. The inductive invariant `ServedInv` adds one thing to the four: only a request that
  the DTO accepts is in a handler. The argument is field by field. For each endpoint one lemma
  (`ReadingsAreCarriedOut`, `DevicesAreCarriedOut`, `UsersAreCarriedOut`, `LoginsAreCarriedOut`,
  `FiltersAreCarriedOut`) shows that the DTO, the value objects and the aggregate together carry a
  request out exactly when it is `WellFormed`, the independent reading of its fields;
  `ReadingsAreKept` and `FiltersAreCarriedOut`, that what they make of it is what was sent; `ThrowTells`,
  that an exception with the status documented for its cause is answered in the right
  language without an internal message; one lemma per handler, that each of its exceptions is of that
  kind.

Assumptions are those the modules name: the owner function is typed, `None` is no other value,
times and token lives are numbers, limits and window are positive; requests have bodies of `Bodies` and
languages that are strings, configurations have settings of `Settings`; a database fails with a
Prisma error that is no unique violation, or with an unknown error. The two theorems about
`HitMatchesMiss` also assume what their statements say.

A proof found an error of the model. `NumberOrDefault`, `TelemetryThresholds` and the checks of the value
objects were CASE expressions with arms that overlap, of which TLA+ says only that some arm is taken;
TLC took the first, as the code does, so no run could tell. They are IF expressions now.

Only model-checked: liveness (`EveryRequestAnswered`, `StaleStateIsTemporary`,
`HealthyReadingResolves`), which is out of the prover's reach. Every other property that a passing run
checks is a theorem.

## 6. Not modelled, and why

* Bootstrap, the banner, logging, dependency wiring, CORS and Swagger annotations keep no state that a
  request depends on. The scheduler base class has no job.
* Response DTOs and the wording of messages; which language a message is in is modelled.
* Password hashing and JWT cryptography are external: a token is genuine or
  absent. A user's status is never set to anything but active.
* Only what tells payloads apart is left of them: see `Payloads` for e-mail addresses. bcrypt looks at 72
  bytes of a password and the DTO has no upper limit, so two longer ones may match; passwords are equal or
  not here.
* The limits of `RateLimiter` are positive integers. `numberOrDefault` makes the default of a setting that
  is not a positive number, and a fraction counts like its integer part; one below 1, which would refuse
  every reading, is left out.
* The ValidationPipe's list of complaints does not survive the error filter, so only its 400 is modelled.
* Redis restarting empty under the rate limiter (the limiter then forgets), and the connections
  themselves: a store answers, fails, or loses its answer.
* The migrations and the indexes other than the two unique ones that arbitrate races.

## 7. What may follow

The plan this project began with (the service composed, history, sessions, payloads, error mapping,
the alert list) is done. What would add to it:

1. the cache and the limiter of a POST in `Service`, with the proofs of `Ingestion`, `RateLimiter` and
   `Service` for the whole; their state spaces multiply, so it is a matter for proof more than for TLC;
2. which single faults `HitMatchesMiss` survives, as theorems with weaker hypotheses than `Faults = {}`;
3. clients of several devices of one owner, should the alert list be paginated.
