# TLA+ models of percival-weather-mcp

`percival-weather-mcp` is an MCP server that answers weather, air quality and
time questions from the public Open-Meteo services. It runs on one asyncio event
loop, over stdio, SSE or streamable HTTP, and keeps all its state in memory.
This directory holds TLA+ models of the parts of it that carry state or react to
failures, the TLC configurations that check them, and proofs for TLAPS.

Paths such as `http_client.py` are relative to `src/src/percival_weather_mcp/`.
`PROJECT.json` maps every definition that models code to its lines.

## 1. The system

| Component | State it keeps | Operations | Interacts with |
|---|---|---|---|
| Circuit breaker (`http_client.py`, `CircuitBreaker`) | failure count, opening time | `allow`, `record_success`, `record_failure` | one process-wide breaker, asked and informed by every geocoding search |
| Resilient HTTP client (`ResilientHttpClient`) | a semaphore per object, the session, the locals of each running call | `_request_json`: admission, retry loop, backoff | breaker, metrics, Open-Meteo |
| Shared client (`get_shared_client`) | one client object | get, reset | nobody in the package uses it |
| Geocoding cache (`GeocodingCache`) | dictionary of entries with expiry times | `get`, `get_location`, `set`, `set_location`, `clear` | shared by all tool handlers |
| Geocoding service (`tools/geocoding_service.py`) | locals of each `resolve` | one or two searches, choice, store | cache, HTTP client |
| Rate limiter (`middleware.py`) | dictionary of token buckets, time of the last sweep | `dispatch`, `_bucket_for`, `_evict_idle`, `try_consume` | first layer of the Starlette stack |
| HTTP pipeline (`server.py` `_ASGIWrapper`, `middleware.py`) | none of its own | probes, `/metrics`, rate limit, token check | rate limiter, the MCP application |
| Tool calls (`server.py` `call_tool`, `tools/`) | session and progress of each call | validate, resolve the city, ask the provider, report | geocoding, HTTP client, metrics |
| Observability (`observability.py`) | counters and histograms | `record_http_*`, `track_tool*` | everybody writes, `/metrics` reads |
| Series, ranges, sampling, categories (`series.py`, `range_policy.py`, `utils.py`, `air_quality_index.py`, `presentation/`) | none, but they read the clock | selection of the current hour, the forecast, the sample; coverage; validation of ranges | tool calls |
| Configuration and start-up (`config.py`, `server.py`, `__main__.py`, `docker-entrypoint.sh`, `Dockerfile`) | the settings, the registry, the process | entrypoint, `Settings.from_env`, `validate`, `main`, `run_server`, signal handlers | settings are read by everybody |
| Tool registry and aliases (`server.py`) | `tool_handlers` | `register_all_tools`, `create_fastmcp_server` | start-up |
| Verification scripts (`scripts/verification`, `docker-ci-conformance.py`, `smoke-container.sh`) | the container they started, what they have read of it | start, signal, poll, ask, close, remove | the container, through the docker daemon |
| Prompts, resources, knowledge base, tool export, logging, tracing, build scripts | static | | |

**Concurrency.** Any number of tool calls run as tasks of one event loop. A task
yields only at an `await`: while it waits for the semaphore, for Open-Meteo, or
in `asyncio.sleep`. What the code does between two such points is one step of a
model. The locks (`asyncio.Lock` in the breaker, `threading.Lock` in the cache
and the buckets) are never held across an `await`, so they add no step. A task
can be cancelled at each await, by the client or by a shutdown.

**Hard behaviours**: answers, retries and cancellations of several calls that
meet the breaker while it opens, cools down and closes; slots of a semaphore
when their holders or waiters are cancelled; lazily maintained state (buckets
refilled when used, entries expired when read); state read before an `await` and
relied on after it (the cache); the order of layers (middleware, `except`
clauses); two exchanges of which either may fail; signals and the end of the
input during a start that resolves the same option in three places; scripts that
act on a container without knowing how far it is; a clock read twice.
`PROJECT.json` lists each as a hazard at its line.

**What makes each component correct**

- Breaker: it sheds load from its opening until the cooldown is over, the
  cooldown cannot be extended, count and state agree.
- Client: at most the configured number of requests at a time; only recoverable
  failures repeated, up to the configured number of times; the true cause
  reported; every failure counted once; every call comes back.
- Cache: bounded; nothing stale, overwritten, or of the wrong kind is returned;
  nothing is forgotten early without need.
- Geocoding: the qualifier a user typed is honoured, also by the cache, and "not
  found" is the truth.
- Rate limiter: every client is limited by a bucket of its own and cannot tell
  the lazy bookkeeping from it; idle buckets are removed.
- Pipeline: nothing is served without the token; refusals are free.
- Tool calls: the cause is that of the exchange that failed, sessions are closed
  on every path, and each call that asked somebody is counted once.
- Start-up: a launch is refused exactly when it is wrong, with the code of its
  mistake; otherwise it serves its whole catalogue where it was asked to and
  nowhere else, and never to the network without a token.
- Verification scripts: what they report is what happened; each ends, and leaves
  nothing behind without a cause.
- Reports: the current hour, the forecast, the sample and the coverage are what
  their names say, around a midnight too.

## 2. Modules

| Module | Models | Role |
|---|---|---|
| `CircuitBreaker` | `CircuitBreaker` | the breaker's operations, as actions on its two variables |
| `ResilientClient` | `_request_json` and its semaphore | extends `CircuitBreaker`; several tasks |
| `RetryPolicy` | the module docstring of `http_client.py` | abstract specification of a call |
| `RateLimiter` | `RateLimitMiddleware`, `_TokenBucket` | buckets, sweep |
| `TokenBuckets` | what the limiter promises | abstract specification |
| `RateWindow` | | extends `RateLimiter` with an observer of one client |
| `HttpPipeline` | `_ASGIWrapper`, `install_security_middleware`, the token check | extends `RateWindow` |
| `GeocodingCache` | `GeocodingCache` | the dictionary |
| `TtlStore` | what the cache promises | abstract specification |
| `CacheHistory` | | extends `GeocodingCache` with what was stored |
| `Geocoding` | `GeocodingService.resolve` | extends `GeocodingCache`; several tasks |
| `ToolCalls` | `call_tool`, handlers, services, `track_tool_async` | several tool calls |
| `Startup` | `docker-entrypoint.sh`, `config.py`, `__main__.py`, `main` and `run_server` | one container, from its start to its removal |
| `Lifecycle` | what a container promises whoever starts it | abstract specification |
| `Probes` | the functions of the scripts that start a container | extends `Startup` |
| `Report` | clock, ranges, samples, coverage, index | one call at a time over a running clock |
| `ResilientClientProofs` | | theorems about `ResilientClient` |
| `RateLimiterProofs` | | theorems about `RateLimiter`, `RateWindow` and `HttpPipeline` |
| `GeocodingCacheProofs`, `GeocodingProofs` | | theorems about the cache, its history and geocoding |
| `ToolCallsProofs` | | theorems about `ToolCalls` |
| `StartupProofs`, `ProbesProofs` | | theorems about start-up and the scripts |
| `ReportProofs` | | theorems about `Report` |
| `MC*` | | constants for TLC |

### State and actions

**CircuitBreaker / ResilientClient.** `failures` is `_failures`; `openedFor` is
the time since `_opened_at`, or `Closed` for `None`, and stops at the cooldown
because the code only compares it with that. `pc` says where a task is:
`queued` for the semaphore, `inflight`, `backoff`, or `done`. `Begin` and
`ShortCircuit` are the two outcomes of `allow`; `StartAttempt` a pass of the loop
up to its first await; `Answer` everything from an answer of the upstream to the
end of the call or the sleep, with the release of the slot, the metrics and the
report to the breaker; `Wake` the end of the sleep; `Cancel` a `CancelledError`
at one of the three awaits. `slots` and `waiters` are the counter and the FIFO of
`asyncio.Semaphore`. `sends` is a history of the requests on the wire. The six
kinds of answer are those the code tells apart. The length of the delays is
abstracted: a sleep is a step that ends. `CallAccounted` relates both counters,
of errors and of requests, to what was sent and to the answer that came last.

**RateLimiter / HttpPipeline.** A bucket is its tokens and the age of `_last`;
`Consume` is `_bucket_for`, with the sweep in it, followed by `try_consume`.
Tokens are integers in a unit of which `Refill` accrue per tick and `Cost` make
one request. `HttpPipeline` answers probes and `/metrics` in front of the stack
and has the rate limiter as the outermost layer, as `add_middleware` puts the
one added last. The token is checked in two places that read a repeated header
differently: `MetricsAuthorized` the last (`scope_headers` makes a dictionary),
`StackAuthorized` the first (`request.headers.get`). A request is `Presented`
with both, which are the same when the header is not repeated;
`ServedIsAuthorized` speaks of what was sent and of neither check.

**GeocodingCache / Geocoding.** `entries` keeps for each key the value and the
time left. Several entries may expire first at the same time; the code takes the
first in the dictionary's order, the model any. `Resolve` is the lookup,
`FirstAnswer` and `SecondAnswer` the choice among the candidates of a search,
with the store in it. A candidate is told apart by whether it lies in the region
the suffix names, in the country it is an alias of, or is named by it; what a
choice keeps is a set of positions in the answer, and the first of them wins.
The suffix is that of the spelling (`Suffix`), and the entry that of the key
(`KeyOf`), as in the code, which splits the one off the name and lowers the case
of the whole name for the other. `SpellingAssumption` says that spellings of one
key have the same suffix: the code compares suffixes by `casefold()`, and
`c.lower().casefold() = c.casefold()` for every character of Unicode (both forms
`lower()` has for a sigma fold to the same), and neither makes nor removes a comma.

**ToolCalls.** `Receive` is a call up to its first await: validation in
`call_tool`, the handler, the opening of the session, the cache. `Located`,
`NotLocated` and `Answered` end an exchange; `Processed` is what services and
formatters do with an answer, `Reported` the `except` clauses of the handlers,
`Count` the counter `track_tool_async` leaves, `CloseSession` the `async with`.
An exchange ends once, with one of the failures `ResilientClient` shows possible.
`ShortCircuit` is the only refusal by the breaker: a second search follows the
success of the first, which has closed the breaker, without a suspension in
between (the lock of the breaker is never held across one), so it is admitted.

**Startup.** `phase` is how far the process is: the entrypoint's shell, the
import of the package, the parsing of the arguments, the check of the settings,
the registration, `run_server`, serving, draining. Each is one action (`Dispatch`,
`Import`, `Parse`, `Check`, `Register`, `Prepare`, `OpenStdio`, `OpenHttp`), and
between any two a signal, an end of input, a kill or a removal may come. A launch
is a record of what the code tells apart: a number is unset, empty, malformed, out
of range or usable; the settings other than port, host and token are one value.
`taken` records the settings each of the readers that ask only once has kept.
`interrupted` is a SIGINT that `asyncio.run` has noted and that ends the main
task at its first `await`. `init` is `docker run --init`: without it python is
process 1, for which a signal without a handler is ignored. `StateOf` and
`ReachOf` map the container to `Lifecycle`, in which a launch has a `Verdict` and
a `Reach` that are stated from what the operator asked for (`AskedTransport`,
`Misused`, `Misconfigured`, `Exposed`) and not from how the code finds it out.

**Probes.** A function of a script is a program, a sequence of kinds of step
(`Programs`), and `at` its next one; the steps are actions on the container of
`Startup`. A fixed sleep is no synchronization, so a step may come at any time; a
deadline (`Expire`) or a loop of polls (`tries`) may run out at any time. The
`operator` has no program and does anything `Startup` allows. The programs are
those of `wx_lifecycle.py`, `wx_config_matrix.py`, `wx_mcp_session.py`,
`wx_http_mode.py`, `docker-ci-conformance.py` and `smoke-container.sh`.
Docker's exit code of a container that is still running is 0 (`Inspected`). The
loops of `wx_lifecycle.py` (`Poll`) take the code only next to a status that says
the container has ended; `run_live_case` (`Inspect`) reports code and status
whatever they are, and `run_http_case` (`WaitFor`) a code without a status. So
`CodeIsTrue` does not say that a 0 is always an end: it says where else one may
come from, and that it then stands next to the status `running` or next to a
failure. A `docker run` is refused for its name, or for a published port that
something else holds (`Published`); then the container exists without having been
started, and stays unless it was to be removed (`stray`).

**Report.** Time is in ticks. A call reads the clock (`read` in the handler or
the validation, `asked` in the service), waits for its exchanges while the clock
goes on, and makes its report from the provider's answer in one step (`Answer`).
The two readings of `weather_get_details` are two steps. A series may be short,
and the array of one variable shorter, absent or with a null at either end.

## 3. Runs

| Run | Module | Bounds | Shows |
|---|---|---|---|
| `ResilientClient` | `MCResilientClient` | two geocoding calls and a forecast call, of which two share a client with one slot, one retry, threshold 2, cooldown 2 | `TypeOK`, `SemaphoreConserved`, `BreakerConsistent`, `CallAccounted`, `TrueCause`, `CooldownNotExtended`, `OpenSheds`, refinement of `RetryPolicy` |
| `CallsReturn` | `MCResilientClient` | one geocoding and one forecast call that share a client with one slot | under `Fairness`, every call comes back |
| `HttpPipeline` | `MCHttpPipeline` | two clients, a header with or without the token that may be repeated with the other, a bucket of two requests that fills in four ticks, a window of five ticks | `IdleBounded`, `WindowBounded`, `ServedIsAuthorized`, `RefusalsAreFree`, refinement of `TokenBuckets` |
| `GeocodingCache` | `MCCacheHistory` | three cities, one in two spellings, two values of either kind, two entries, TTL 2 | `SizeBounded`, refinement of `TtlStore` |
| `Geocoding` | `MCGeocoding` | two tasks, a city with a country alias in two spellings, one with another suffix, one with none, one entry, answers of up to two candidates | `SuffixHonoured`, `NotFoundIsTrue`, `RegionFirst` |
| `ToolCalls` | `MCToolCalls` | two calls, two cities, every tool | `CauseIsTrue`, `SessionsClosed`, `AskedIsCounted` |
| `Container` | `MCProbes` | every script, or an operator with about 1600 launches; two polls to a loop | `RemoteIsAuthenticated`, `SettingsInForce`, `CodeIsTrue`, `VerdictIsEarned`, `LeftoversHaveCause`, refinement of `Lifecycle`, `EofEnds`, `ScriptEnds` |
| `Report` | `MCReport` | three hours to a day, four ticks to an hour, a clock of fourteen ticks, ranges of -3 to 3 days, every boundary of the index | `CurrentIsTrue`, `ForecastIsADay`, `SampleIsFair`, `CoverageIsTrue`, `RangeInWindow` |

Four more runs show that the code does not do what its documentation says:
section 5.

**Which client a call uses.** In the server every tool call makes a client, and
so a semaphore, of its own; `get_shared_client` offers one object to several
callers. `ClientOf` is a constant, and the configurations cover the cases:
`ResilientClient` has a call with its own client beside two that share one,
`CallsReturn` shares one between both, `ProcessConcurrency` gives each call its
own. The theorems hold for every `ClientOf`.

**Why the bounds are enough.** Two calls on a client with one slot make one wait
behind the other, and the third goes on beside them, so that both geocoding calls
can be on the wire at once. With a threshold of 2 and two guarded calls, a call
admitted before the breaker opened can report after it opened, while it cools
down, and after it closed. One retry makes first, repeated and last attempts
differ. `Idle` is the time a bucket takes to fill, the tightest value
`LimiterAssumption` allows, and `MaxWindow` reaches the time after which a
bucket may be swept, so that an eviction happens inside a window. Two entries
and three keys force an eviction that has a choice. Bounds that are not the
code's: `MaxWindow`, `MaxAnswer` (the code asks for 10 candidates and uses the
order of those it keeps), the saturation of ages at `MaxAge` and of the cooldown
at `ResetTicks`. The theorems of section 4 hold without the bounds of this
section.

The launches of `MCProbes` are three families, each of which varies what
interacts: the transport with the options, host, consent and token; the numbers
with the settings; the host with the mode; and all that the scripts start. Two
polls make the first, a later and the last round of a loop differ; every loop of
the scripts has more. `Report` scales the day down to three hours of four ticks:
an hour has a middle and two quarters, a day a first, a middle and a last hour,
and fourteen ticks pass one midnight. Samples of 3 and 4 rows are exceeded by the
series of two and three days. A call takes at most `MaxWait` ticks, half an hour
at the scale of the model: `http_timeout`, retries and delays bound a call with
the default settings to a few minutes. `PastDays`, `FutureDays` and
`MaxRangeDays` are smaller than the code's 92, 15 and 16, and `MCDays` reaches a
day beyond the window on both sides. When a series is not whole, `Report` gives
the index as missing only. Bounds that are not the code's: `Attempts`, `MaxWait`,
`MaxNow`.

Symmetry is used over tasks, hosts or values the configuration does not tell
apart, and never in the liveness run.

**Fairness.** `Fairness` in `ResilientClient` is weak fairness of the clock, of
the task at the head of a semaphore's queue that finds a slot (`Grant`), of the
answer to a request (httpx bounds every request by `http_timeout`, and a timeout
is an answer), and of the end of a sleep. Nothing makes a client call, cancel,
or call again. Weak fairness is enough because each of these steps, once
enabled, stays enabled until it or a cancellation happens. `ProbeSpec` has weak
fairness of the process of the container (it is scheduled), of a script's next
step, and of the daemon's removal of a container started with `--rm`. Nothing
makes a client close its input or its connections, so a draining HTTP server
may drain for ever, and nobody is forced to send a signal.

## 4. Proofs

`ResilientClientProofs` proves, for every finite set of tasks, any assignment of
tasks to client objects, any number of retries and slots, threshold and cooldown
(`BreakerAssumption`, `ClientAssumption`):

| Theorem | Property |
|---|---|
| `Invariance` | the inductive invariant `IInv` |
| `TypeCorrect` | `TypeOK` |
| `SlotsConserved` | `SemaphoreConserved` |
| `BreakerAgrees` | `BreakerConsistent` |
| `EveryCallAccounted` | `CallAccounted` |
| `EveryCauseTrue` | `TrueCause` |
| `OnlyRecoverableRepeated` | `RepeatsOnlyRecoverable` (no run checks it: it follows from `FollowsRetryPolicy`) |
| `CooldownKept` | `CooldownNotExtended` |
| `LoadShed` | `OpenSheds` |
| `RefinesRetryPolicy` | `FollowsRetryPolicy` |

None of the properties about calls is inductive: that `attempt` stays within
`Attempts` depends on the loop going round only when attempts are left, and what
the counters say of a finished call on what they said while it was in the queue,
on the wire or asleep. `IInv` adds these facts (`IdleShape`, `QueuedShape`,
`InFlightShape`, `BackoffShape`, `CountShape`): while queued, a call has sent one
request less than its attempts and recorded an error for each; in flight, one
error less than requests; asleep, as many of each, with an attempt left. Lemma
`BreakerPreserved` treats the breaker alone; `SlotTaken`, `SlotReleased` and
`SlotsKept` the semaphores; `UntouchedOK` shows that a step of one task keeps
what is said of the others, so that `NextInv` has one case per action and each
is about the acting call. The action properties follow from `IInv` and
the fact that the breaker is used through its five operations only
(`StepsUseBreaker`). The refinement maps `queued` and `backoff` to waiting.

`RateLimiterProofs` proves, for any set of hosts and any values that satisfy
`LimiterAssumption` (a bucket fills within the time it may stay idle: the code's
defaults are 60 s and 600 s), `TypeCorrect`, `RefinesTokenBuckets`
(`LimitsAsPromised`), `DictionarySwept` (`IdleBounded`) and `WindowLimited`
(`WindowBounded`). The key facts are that an idle bucket is a full one
(`IdleIsFull`), so that evicting it and making it anew is no gift, and that a
tick ages a bucket by exactly one refill (`OlderBucket`). The window bound is not
inductive: `WindowInv` adds what is left in the bucket to what has passed.
Lemma `PipelineIsWatched` shows that a run of `HttpPipeline` is one of
`RateWindow`, whose other layers touch no bucket (`LayersAreSilent`). So the
properties of the limiter hold of the pipeline (`PipelineKeepsLimits`,
`PipelineSwept`, `PipelineWindowLimited`, `PipelineTypes`), to which
`OnlyAuthorizedServed` (`ServedIsAuthorized`, for both checks) and `RefusedPayNothing`
(`RefusalsAreFree`) are added. The latter is about the tokens a bucket would have
if it were refilled now: a refused request may refill, make or evict buckets.

`GeocodingCacheProofs` proves, for every finite set of keys, every time to live
and size (`CacheAssumption`), `SizeIsBounded` and `HistorySizeIsBounded`
(`SizeBounded`) and `CacheKeepsPromise` (`CachesAsPromised`, the refinement of
`TtlStore`). `HistoryInv` relates the dictionary to what was stored: what is kept
is what was stored last and has the rest of its time (`KeptIsWritten`), and a key
that is missing while its value would be fresh has at least `MaxSize` rivals, keys
stored no earlier (`MissingIsRivalled`). That is kept by an eviction because the
code drops the entry that expires first, of which all the others are rivals.

`GeocodingProofs` proves, for any number of tasks, cities, suffixes and answers,
`GeoTypes`, `SuffixesAreHonoured` (`SuffixHonoured`), `NothingWasThere`
(`NotFoundIsTrue`), `RegionsComeFirst` (`RegionFirst`) and
`SharedCacheIsBounded`. A task may be given what another has stored under another
spelling, so `GeoInv` says of every entry that it honours the suffix of every
spelling of its key (`CacheHonours`; this is where `SpellingAssumption` is
needed), and of a task that searches a second time that the first
search had nothing for its suffix.

`ToolCallsProofs` proves, for any number of calls and cities, `ToolTypes`,
`CausesAreTrue` (`CauseIsTrue`), `SessionsAreClosed` (`SessionsClosed`) and
`AskedAreCounted` (`AskedIsCounted`). `ToolInv` says of each call what it has
asked and learnt in each of its phases (`ProgressOf`); a step of one call leaves
what is said of the others.

`StartupProofs` proves, for every set of launches, `AlwaysAuthenticated`
(`RemoteIsAuthenticated`), `AlwaysInForce` (`SettingsInForce`) and
`RefinesLifecycle` (`StartsAsPromised`). `StartupInv` says what each phase knows
of the launch: that the command line is the entrypoint's, that what was parsed
was well formed, what was checked is configured, and which settings each reader
has kept. The refinement has a lemma per action; the decisive ones show that the
entrypoint, `Settings.from_env`, `main` and `run_server` together refuse a
launch exactly when its `Verdict` says so.

`ProbesProofs` proves, for every set of launches, every environment of the scripts
and any number of rounds, `ProbeTypes`, `CodesAreTrue` (`CodeIsTrue`),
`VerdictsAreEarned` (`VerdictIsEarned`), `LeftoversAreCaused`
(`LeftoversHaveCause`). Each step of a script is a step a container allows
(`ProbesAreStarts`), so that the properties of the start-up hold under the scripts
(`ProbesStayAuthenticated`, `ProbesStayInForce`). `ProbeInv` adds to `StartupInv`
what the position of a script says of the container, of the process attached to
it and of what has been read: a code that was read tells of the launch what the
code of an ended container does (`CodeMeans`), or is a 0 that a running container
has given to one of the two scripts that do not wait for its end (`OfRunning`).

`ReportProofs` proves, for any length of an hour and of a day, any window, any
sample sizes and any clock (`ReportAssumption`), `ReportTypeCorrect`,
`RangesAreInWindow` (`RangeInWindow`), `CoverageTold` (`CoverageIsTrue`),
`SamplesAreFair` (`SampleIsFair`), `CurrentHoursAreTrue` (`CurrentIsTrue`) and
`ForecastsAreDays` (`ForecastIsADay`). `ReportInv` keeps the times of a call, that
its range was accepted, and that its report was made of a series of the days asked
for (`SeriesOK`). The rest is arithmetic, in lemmas: quotient and remainder
(`Division`, `DivisionIs`, `MultiplesApart`), days (`InDay`, `DaysInOrder`,
`DayIs`), the split of a sorted series (`SplitAtReference`), the steps of a spread
sample, which are one of two consecutive numbers (`EvenSteps`, `StepsReach`), the
hours around a moment (`HourNear`, `HourIsNear`, `HourOrAfter`), and the scale of
the index (`CategoryOfBand`). Two facts about the code's constants turned out to
be needed and are in `ReportAssumption`: a call takes half an hour at most, and
the air quality series has two days at least (the code asks for five) - with one
it would end with the day, as that of `weather_get_current` does, and TLC shows
`CurrentIsTrue` violated.

**Only model-checked.** `CallsReturn`, `EofEnds` and `ScriptEnds`, because
liveness under fairness and `ENABLED` are beyond the prover. Every other property
of a passing run is also a theorem. The violations of section 5 are
counterexamples and need no proof. No module declares a recursive operator.

## 5. Where code and documentation disagree

Each is a run that violates one property which quotes the documentation.

| Run | What the documentation says | What the code does |
|---|---|---|
| `ProcessConcurrency` | a global, per-process cap on requests in flight | each tool call has a client, and a semaphore, of its own |
| `AuthBeforeLimit` | unauthenticated traffic does not consume rate budget | the rate limiter, added last, runs before the token check |
| `InvalidRequest` | `InvalidRequestError` means that the upstream was never called | a malformed timestamp in the provider's answer is reported as one |
| `HostFromEnvironment` | `MCP_WEATHER_HOST` is the bind host of the HTTP transports | the default of `--host` replaces it in `main` and in `Settings.from_env` |

Differences found while reading, which no run states:

- Two calls for the same city that miss the cache at the same time both search
  (`tools/geocoding_service.py:111`); the comment at
  `tools/weather_service.py:38-39` says a city geocoded by one tool is not
  geocoded again by another.
- A short-circuited search is reported under the client's name, so a weather tool
  says that the forecast service is disabled (`http_client.py:181`, against the
  comment at 48-51).
- A call whose arguments `call_tool` rejects is in no counter (`server.py:166`,
  against the project's README, lines 566-569).
- The image sets `MCP_TRANSPORT=stdio` (`Dockerfile:80`), and the variable wins
  over the first argument, so a trailing `http` has no effect in it, although the
  project's README (lines 263-264) offers it. `AskedTransport` follows the
  header of the entrypoint, which says that the variable wins.
- `MCP_WEATHER_AUTH_TOKEN_ENV` has the fate of `MCP_WEATHER_HOST`: the default of
  `--auth-token-env` replaces it.
- The delay before a retry may exceed `MCP_WEATHER_HTTP_BACKOFF_CAP` by the
  jitter, which is added after the cap (`http_client.py:266-267`).
- In the last half hour before midnight `weather_get_current` reports 23:00 and
  not the nearest hour, because the series it asks for ends with the day
  (`weather_service.py:108`). `CurrentIsTrue` says so.
- `run_http_case` reports an exit code without asking for the status
  (`wx_http_mode.py:101-107`), and `run_live_case` whatever the status is
  (`wx_config_matrix.py:134-162`): a container that is still running is reported
  with exit code 0. The first report is a failure all the same, and the second has
  the status in it; `CodeIsTrue` says so. The loops of `wx_lifecycle.py` ask for
  the status first.
- When the published port is taken, `docker run` fails after it has created the
  container, and `run_http_case` and `run_rate_limit_case` end with the exception
  before their `docker rm` (`wx_http_mode.py:93`, `184-212`): the container stays,
  under a name no later run uses. `LeftoversHaveCause` says so.
- Of a repeated `Authorization` header the check of `/metrics` reads the last
  (`server.py:521`, `middleware.py:25-28`) and that of the stack the first
  (`middleware.py:66`), so the two may decide differently about the same request.
- `validate` accepts a timeout of `nan` (`config.py:114`).
- Some expectations in `CONTAINER_CASES` (`wx_config_matrix.py:35-41`) describe
  an older server; nothing compares them with what is observed.

## 6. Not modelled

- The lifecycle of a shared client: no caller in the package, so nobody to
  interleave.
- The length of delays: random and real-valued; a sleep is a step that ends.
- Alias resolution and the generated signatures of the registry: a table and
  reflection at start-up. The static prompts, resources and knowledge base, and
  the export of the tool list: no state.
- Averages, units, wording and layout of answers; latency histograms, the
  exposition format, logs, traces: output only.
- The options that change nothing of the start (`--debug`, `--stateless`, the TLS
  files), and `--auth-token-env`: a launch has a token or none.
- A second container beside one whose `docker run` was killed: `Again` starts an
  attached script only when the former container is gone. One that was created
  but not started is only noted (`stray`): it holds a name that is never used
  again.
- The in-process probes, the mock of Open-Meteo and the build and release tools:
  sequential, and without state that outlives a call.
- The reported list of alternative places; a place is the selected candidate.
- Open-Meteo, httpx, uvicorn, docker, the asyncio semaphore, Starlette and the MCP
  SDK are modelled from how the code uses them.

## 7. Plan

1. *Done*: breaker, client, rate limiter, pipeline, cache, geocoding, tool calls,
   start-up, scripts and reports are modelled and checked, and all their
   invariants, action properties and refinements are proved.
2. That `ToolCalls` is right in what it takes an exchange to be: an abstract
   specification of one exchange, which `ResilientClient` and `Geocoding`
   implement.
3. That `Geocoding` as a whole keeps the promise of `TtlStore`: its tasks use the
   cache by `Lookup` and `Store` only.
4. The formatted values (`utils.py`, averages and units) as pure functions with
   a reference definition.
