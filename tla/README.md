# A formal model of SOC-Automation

TLA+ modules for the alert-triage service under `src/app`, TLC configurations that
model-check them on small instances, and TLAPS proofs of the properties that matter most
for instances of any size. Paths below are relative to `src/app` unless they start with
`src/` or name a module of this directory.

## 1. The system

An alert arrives over HTTP, is normalised, its indicators are looked up, fixed rules
decide what happens to it, and an AI assistant adds advice that may ask for a human but
never changes the decision. Around that pipeline stand clients of three vendors (threat
intelligence, vulnerability context, case management), all on one HTTP client with bounded
retries, and a webhook the case-management vendor calls.

| Component | State | Operations | Talks to | What is hard |
|---|---|---|---|---|
| Triage engine, `triage/engine.py` | none | `triage_alert`: rules B, A, C, D | called by the workflow | rule order; quantifiers over evidence that may be empty |
| Alert workflow, `services/workflow.py`, `services/indicators.py`, `adapters/crowdstrike.py`, `api/routes.py` | per request: history, evidence, triage result, analysis; shared: the event loop | `run_alert_workflow`, `POST /api/v1/alerts` | enrichment (a synchronous call), assistant (the one `await`) | interleaving at the `await`; timeout against answer; one lookup of several failing |
| Enrichment providers, `enrichment/`, `integrations/enrichment/` | none (a fixed table) | `enrich`, `list_indicators` | integration client | a refusal or a malformed record that would read as evidence, truncated lists |
| Mock assistant, `investigation/mock.py`, `table.py` | none (a fixed table) | `investigate` | called by the workflow | a table that has to mirror the rules written elsewhere |
| Live assistant, `investigation/live.py`, `prompt.py` | none | `investigate` | vendor SDK | exceptions of many kinds, one of them untranslated; a key revoked after the start; a timer served late |
| Validation, `investigation/validation.py`, `context.py` | none | `validate_investigation_result`, `build_investigation_context` | called by the workflow | three layers in order; the denylist sees the alert's own names |
| Integration client, `integrations/base.py`, `errors.py` | per call: attempt, delays | `get`, `post`, `get_paginated` | any vendor over HTTP | retries, `Retry-After`, exact attempt count, cursors that repeat |
| Case management, `case_management/`, `integrations/case_management/` | vendor: idempotency store, cases | `create_case` | integration client | lost, late and crossing requests; two keys for one alert |
| Webhook, `api/webhooks.py` | `app.state.webhook_delivery_ids_seen` | `POST /api/v1/webhooks/incident-desk` | called by the vendor | redelivery, capacity, restart, refusals that must leave no trace |
| Vulnerability context, `vulnerability/`, `integrations/vulnerability/` | none | `get_context`, `list_findings` | integration client | records outside the platform's contract, truncated lists |
| Assembly, `main.py`, `config.py` | `app.state` | `Settings()`, `create_app`, provider selection, health | all | a provider that cannot start must not be replaced by a mock; settings fixed at the start |
| Body size limit, `main.py` | none | `RequestBodySizeLimitMiddleware` | in front of every handler | limits by path, a missing length |
| Web demo, `web/` | none | `GET /demo/{scenario}` | workflow | scenarios whose descriptions are promises |
| Logging, `observability.py` | none | formatting, redaction | | nothing of state |

What makes each correct is stated by the properties of section 3. `PROJECT.json` lists the
hazards this code is exposed to, at the line where each bites, with the properties that
would catch it going wrong.

## 2. The modules

| Module | Models | Built on |
|---|---|---|
| `Triage` | `triage_alert`, the mock assistant's table and lookup, `ai_conflicts_with_triage` as functions of the evidence | |
| `Investigation` | indicator extraction, the mock assistant, the three validation layers, what a live call ends in | `Triage` |
| `Advisory` | abstract: one decision per alert, made once; advice attached afterwards; a review left out only on trusted advice | `Triage` |
| `AlertWorkflow` | `run_alert_workflow` for any number of requests on one event loop; implements `Advisory` | `Investigation` |
| `EventLoop` | the same requests as `AlertWorkflow`, as far as time is concerned: iterations of the loop, timers, sockets, how long lookups hold it | |
| `IntegrationErrors` | the client's error classes, and what leaves the client without being one | |
| `IntegrationClient` | one `get` or `post` with retries, any number at once | `IntegrationErrors` |
| `VendorAdapters` | `enrich` and `get_context` as functions of how the client's call ended and of the vendor's record | `Triage`, `IntegrationErrors` |
| `VendorLookup` | the composition: calls of the client, each made by one of the two provider methods | `IntegrationClient`, `VendorAdapters` |
| `CaseRegistry` | abstract: one case per request, callers told that case or that there is none to be had | |
| `CaseManagement` | IncidentDesk client, network and mock vendor; implements `CaseRegistry` | `IntegrationClient` |
| `DeliveryWindow` | abstract: a delivery is accepted unless it is among the last *n* handled | |
| `WebhookDelivery` | the webhook endpoint and its store; implements `DeliveryWindow` | |
| `Pagination` | `get_paginated` under `list_indicators` and `list_findings`, and the two mock vendors' lists | |
| `Settings` | what the environment becomes in `Settings`, as functions | |
| `Deployment` | `create_app`, the providers it builds and what they give each request: configuration, start, stop, body limits, readiness, the demo | `Settings`, `VendorAdapters` |
| `MC*` | small instances for TLC | the module named |
| `AlertWorkflowProofs`, `EventLoopProofs`, `IntegrationClientProofs`, `VendorLookupProofs`, `CaseManagementProofs`, `WebhookDeliveryProofs`, `PaginationProofs`, `DeploymentProofs` | theorems and proofs | the module named |

### State and actions against the code

**AlertWorkflow.** A coroutine runs until it awaits. The workflow awaits only
`asyncio.wait_for(assistant.investigate(...))`, and a mock or a failing assistant does not
suspend there. So `loop` holds the alert whose coroutine runs. `Receive` is everything
from the request to the first lookup; `Enrich` one lookup of the list comprehension;
`EnrichmentCompletes` and `EnrichmentFails` the two ways out of the `try`, each with the
rest of the coroutine up to its `await` (or to its return, for an assistant that does not
suspend). Lookups are separate actions, although they cannot be interleaved with another
request, because an answer of another request's assistant or a timer falls due between
them. `LiveCallEnds` and `TimerExpires` are the world outside; `CallResumes` and
`CallTimesOut` the coroutine's resumption, which needs a free loop. If both are due,
either may be served: which one depends on the order their wake-ups were queued.

The `except` clauses are `LiveInvestigate` (what `live.py` translates) followed by
`Judged`, `StatusOf` and `AdviceStages`. `enrichment`, `available`, `triage`, `analysis`
and `history` are the locals of the function; `gathered` records the lookups that have
succeeded, which the code holds only in the list under construction.

Text is abstracted to the words a check can tell apart: the alert's own names, its
indicators, a foreign word, a prohibited one. Because the denylist is a substring match,
an alert's own host or user name may hold a prohibited term; the `denied` field of a
payload is the set of names that do.

**EventLoop.** An iteration of asyncio's loop takes what is scheduled, then what the
sockets hold, then the timers that are due, and runs that `batch` in order; what is
scheduled meanwhile waits for the next one (`Select`). `Start` begins the workflow, which
holds the loop (`holder`, `held`) until `CallAssistant` or `AnswerAtOnce`. `Receive` and
`Expire` are the callbacks of a socket and of `wait_for`'s timer, `Resume` the end of the
await. `LookupTakesTime` and `LoopSleeps` are the only steps in which time passes. A
vendor's answer is one callback and one resumption; the hops the SDK and httpx make in
between are collapsed into those two. `age`, `answered` and `blocked` measure, and decide
nothing but when a timer is due.

**IntegrationClient.** `Send`, `Handle` (one reply, with the retry decision, the delay and
the classification) and `Resend` (the sleep is over). Delays are whole units and jitter is
a choice; a `Retry-After` is absent, a text, negative, `nan` or a number. `Outcome` is the
classification of `_parse_response` in its order. A request that cannot be sent at all (an
invalid address, a header that cannot be encoded) fails at its first attempt, with an
exception no `except` clause names.

**VendorLookup.** `VendorAdapters` is the code behind the `try` of both methods: the
schema of the record, the verdict map and the distance of the score from 50, the 404 that
is an answer, the `except IntegrationError`, and what is done with the record, or with the
name of an asset (`asked`: it is not empty), after it. `Receive` is a reply that the
client handles and, if that ends its call, the method's answer to its caller.

**CaseManagement.** `CreateCase`, `Retry`, `ReceiveResponse`, `AttemptFails` and
`SendRaises` are the client and the adapter; `Serve`, `Reject` and `Lose` the vendor and
the network. `AnswersOf` has two answers for a record outside the platform's contract:
unavailable if the vendor's schema refuses it, an exception if only `CaseResult` does. A
request stays on its way after the client has given it up, so it may be served after its
retry. `Serve` is the mock vendor's handler, in which lookup, creation and storing the key
are one step, as they are in the code.

**WebhookDelivery.** `Arrive` starts a handler, which awaits its body; `Handle` runs it to
its end; `Restart` loses `app.state` and the requests under way. `clock` and `latest` only
record, and decide nothing.

**Pagination.** `ReceivePage` is one turn of the loop: checks in the code's order,
`has_more` read for one consumer only. `PageFails` is a `get` that raises. `Deliver` is
the consumer's use of the result. The `conduct` of the provider is the mock vendors'
("offset") or anything ("loose").

**Deployment.** `Configure` edits the environment, `Start` builds `app` from it once,
`RefuseToStart` is a `ValidationError` of `Settings()`, `Stop` the end of the process,
`KeysChange` the vendor of the live assistant. `ReceiveAlert` is the whole handler up to
the call of a live assistant: the body limit, the providers of `app` or the doubles of a
scenario, enrichment and triage. `ReceiveDemo` takes the providers of the scenario
instead; `ReceiveOther` are the requests that go no further here. `LiveCallEnds` and
`LiveCallTimesOut` complete a response; a timeout of "nan" is over before any answer, one
of "inf" never. One request is followed at a time: how several interleave is
`AlertWorkflow`'s question.

### Slips

Definitions named `Def_Word` and commented "Slip:" are not used by any action. Each is
`Def` changed by one plausible mistake (a dropped guard, an off-by-one, a swapped order).
For every checked property, `PROJECT.json` names a definition whose replacement by a slip
makes TLC report that property violated: the property depends on the code, and would
notice.

## 3. The runs

| Run | Instance | What it shows |
|---|---|---|
| `one_alert` | one alert; four severities, zero to three indicators (one pair equal), seven verdicts, three assistants, names that hold a prohibited term, every output validation tells apart | the properties of what is decided and recorded, and that the workflow implements `Advisory` |
| `two_alerts` | two alerts with fewer payloads, fairness | lookups, calls and timers of two requests in every order: the loop is given back, every request is served |
| `event_loop` | three connections on which requests keep coming, a timeout of two units, lookups of at most two | how late a timer is served, when an answer in time is dropped, no wake-up lost, every request served |
| `client` | one lookup of either kind, three attempts, every class of status with its neighbours, every form of `Retry-After`, records on both sides of every threshold | retries, waiting, classification, what the provider makes of it, termination |
| `client_nan` | the same | **violation**, finding 1 |
| `cases` | two calls with one key and one without, two attempts each | no second case for a request; `CaseRegistry` is implemented |
| `cases_default_key` | two calls without a key | **violation**, finding 2 |
| `webhook` | three deliveries, capacity two, five requests, restarts | the store is an LRU; `DeliveryWindow` is implemented |
| `pages` | lists of 0 to 7 records, pages of two, three pages, five items, one bad record early or late, any loose provider | nothing partial passes for whole; no page twice; termination |
| `pages_exact_fit` | the same | **violation**, finding 3 |
| `deployment` | a default environment and what an operator gets wrong in it, restarts, revoked keys, API requests, deliveries and every demo scenario | where evidence and advice come from; what a misconfiguration can and cannot do |
| `deployment_readiness` | the same | **violation**, finding 4 |

The properties, by module:

* `AlertWorkflow`: `EvidenceAllOrNothing` (triage sees all of the evidence or none),
  `LowRiskIsEarned` (neither a failure nor an alert without indicators reads as safe),
  `HistoryTellsTheOutcome` (stages, status and review flag agree on every path),
  `MockMirrorsTriage` (accepted advice of the mock agrees with the rules),
  `DenylistCostsOnlyTheAdvice` (a prohibited term in one of the alert's own names rejects
  the mock's output exactly when that quotes the name, and then asks for a review),
  `EvidenceNeverSoftens` (one more answer never takes back an escalation),
  `LoopIsGivenBack`, `EveryAlertServed` (liveness), `AdviceNeverDecides` (refinement of
  `Advisory`).
* `EventLoop`: `LatenessIsBounded` (a call is awaited for at most the timeout and two
  rounds of the others' lookups), `AnswerKeptUnlessHeld` (an answer in time is dropped
  only when lookups held the loop for all of the time left), `NoWakeUpIsLost` (whatever a
  request waits for is in a socket, a queue or a timer), `EveryRequestServed` (liveness,
  with requests that keep coming).
* `IntegrationClient` and `VendorLookup`: `WaitIsBounded`, `ErrorIsTheLastReplys`,
  `OnlyTransientIsRetried`, `AnswerIsEarned` (no failure reads as evidence),
  `EveryFailureIsTranslated` (a caller meets the one exception of the interface, three
  named cases apart), `EveryCallEnds` (liveness).
* `CaseManagement`: `OneCasePerRequest`, `AnswerIsTheRequestsCase`,
  `CallersSeeOneRegistry` (refinement).
* `WebhookDelivery`: `SeenIsAnLru`, `RefusedLeavesNoTrace`, `ProcessedOncePerWindow`
  (refinement).
* `Pagination`: `CompleteIsWhole`, `BoundedIsPrefix`, `NoPageTwice`, `EveryListEnds`
  (liveness).
* `Deployment`: `NoMockInDisguise` (evidence and advice come from the provider the
  operator named, or there are none), `MisconfiguredNeverLowRisk`,
  `DegradedMeansNoAdvice`, `DemoShowsWhatItSays`.

### Bounds

* Alerts share nothing but the loop, so two of them show every conflict over it; the
  proofs below hold for any number. Three indicators is what an alert can carry.
* Two attempts in `cases` allow a request and its retry to be both on their way; the third
  call has another key for the same alert. Calls that share a key differ only in name
  (symmetry), and `waited` and `last` decide nothing and are left out of the view.
* Three attempts are the client's default; the caps are chosen so that the backoff (1, 2)
  stays below its cap and a `Retry-After` lies below and above its own.
* A store for two and three deliveries fill, overflow and refresh it within five requests
  (`MaxRequests`), the only bound of a model that stands in a guard of its own.
* In `event_loop` two requests beside the one that waits can form a batch in front of its
  timer, and a second one behind it: that is the worst case `Latest` names, and it is
  reached up to the unit in which the timer falls due. Ages are not told apart beyond
  `Latest` + 1 (`Older`), which the invariant excludes.
* `deployment` varies one group of settings at a time around a default, and both providers
  at once; body limits of two units are met, passed and not reached by lengths from none
  to three. The alerts cover each kind of indicator, alone and after another.
* With pages of two, three pages and five items, each limit is met exactly, passed and not
  reached by some list of at most seven records.

### Fairness

Safety runs assume none. `two_alerts` assumes that the event loop runs what is due (weak
fairness of `Step`) and that timers go off; a lookup returns or raises, because the client
below it bounds its attempts. It does not assume that requests arrive or that a live
assistant ever answers. `client` assumes that httpx ends every attempt, with a timeout if
nothing else, and that `time.sleep` returns. `event_loop` assumes that the loop runs what
it has (weak fairness of `Loop`) and that time does not stop (strong fairness of `Time`,
which vendors and clients who keep the loop busy for ever without any time passing would
otherwise prevent); it assumes neither answers nor arrivals. `pages` assumes that a `get`
returns or raises, which is `EveryCallEnds` of `IntegrationClient`.

## 4. The proofs

`AlertWorkflowProofs` proves, for any finite or infinite set of alerts, any payloads, any
verdicts and any assistant outputs:

* `TypeCorrect`, `EvidenceIsAllOrNothing`, `LoopComesBack`, `LowRiskEarned`: the
  invariants `TypeOK`, `EvidenceAllOrNothing`, `LoopIsGivenBack`, `LowRiskIsEarned`;
* `EvidenceOnlyHardens`: the action property `EvidenceNeverSoftens`;
* `MockMirrors`, `DenylistCosts`, `HistoryTells`: the invariants `MockMirrorsTriage`,
  `DenylistCostsOnlyTheAdvice` and `HistoryTellsTheOutcome`;
* `DecisionIsTriages`: the refinement `AdviceNeverDecides`;
* `EveryStepNearsAnEnd`: a measure of progress, see below.

They follow from one inductive invariant (theorem `Invariance`),

    IndInv == TypeOK /\ LoopIsGivenBack /\ PlaceTellsState /\ EvidenceAllOrNothing

`EvidenceAllOrNothing` is not inductive alone: that a triaged alert is not triaged again,
and that its `gathered` no longer grows, follows only from where its coroutine is.
`PlaceTellsState` says so: which of triage and analysis exist at each place, and that the
triage result on record is the one of the evidence on record. `LoopIsGivenBack` gives that
only an alert in its lookups holds the loop. The preservation proof has one step per
action. `LowRiskIsEarned` is then a consequence of `EvidenceAllOrNothing` and rule C, and
the action property of what appending one answer does to rules A and C. `MockMirrors`,
`DenylistCosts` and `HistoryTells` need to know what a finished alert has on record:
`RecordIsTold`, inductive relative to `IndInv`, says that its analysis and its history are
those of one end of a call, and for a mock assistant which one. Four histories are then
possible, and each tells its outcome; and lemma `MockJudged` says which of the names the
mock quotes decide whether its output passes, so that `MockMirrorsRules` below applies
when it does.

`DecisionIsTriages` shows that every step of the workflow is, under the refinement mapping
of module `AlertWorkflow`, a step of `Advisory` or none. Its lemma `ReviewUnlessTrusted`
carries the weight: over every end of a call, `review` is false exactly for trusted
advice.

The module begins with what needs no state: `MockMirrorsRules`, for evidence of any
length. On evidence that is all there or all unavailable, which is what the workflow
triages on, the mock assistant's table never contradicts the rules, and is of low
confidence exactly when the rules ask for an analyst.

`EventLoopProofs` proves, for any finite set of requests, any timeout and any time of the
lookups, all four safety properties of `event_loop`: `TypeCorrect`, `CallsEndInTime`,
`AnswersAreKept`, `WakeUpsAreKept`. None is inductive alone: how late a call ends depends
on what stands in front of its timer. The invariant says of the queues what the code never
writes down (`QueuesOK`: a batch runs what was scheduled, then sockets, then timers, and
nothing is in two queues or in one twice), where the handlers of a request at each place
are (`PlacesOK`, `TimersOK`), and bounds how long lookups may still hold the loop in this
iteration by the *set* of requests it has still to start (`Ahead`), which the cardinality
theorems can count where a sum over the batch could not be treated. `AgesOK` then says
that a call is late by at most one round of lookups while its timer is not yet seen, and
by at most two once it is, each with what lies ahead subtracted; every action keeps it
because whatever time passes is taken from `Ahead`. `CancelledOK` is what lets a cancelled
call escape the bound: it goes on before time passes. `OuterBoundAlone` is the other side
of the divergence from ADR 001 noted in section 5: with one request at a time, or no
lookups, the timeout *is* the outer bound.

`IntegrationClientProofs` proves of the client itself, for any number of calls, policy and
replies: `ClientWaitsBounded`, `ClientReportsTheLast`, `ClientRetriesSafely`.
`WaitIsBounded` speaks of the end of a call; inductive is `CallWaits`, one cap per delay
taken so far, with `CallTells` for how many those are, and `CallEndTells` for what an
ended call has from its last reply. Two modules use the client and inherit this:
`VendorLookupProofs!LookupsUseTheClient` and `CaseManagementProofs!CasesUseTheClient` show
that lookups and writes implement `ClientSpec`. For case management, where network and
vendor act between any two steps of the client and `WaitIsBounded` is checked by no run,
`WritesKeepTheRules` is how the rules of the client are known to hold of writes.

`VendorLookupProofs` proves all six safety properties of `client`, for any records too:
`LookupTypeCorrect` (the type invariant), `WaitingIsBounded`, `LastReplyDecides`,
`RetriesAreSafe` (these three from the client), `EvidenceIsEarned`,
`FailuresAreTranslated`. The inductive invariant adds `AnswerTells` to the client's: an
answer is what the method makes of how its call ended and of its record. The adapter
theorems follow from it without looking at a retry again.

`CaseManagementProofs` proves `CasesTypeCorrect`, `NoSecondCase`, `CallersGetTheirCase`,
and with `CallersSeeRegistry` that client, network and vendor implement `CaseRegistry`,
for any callers, attempts and keys. Inductive are: every request on its way carries the
key of the call it was made for (`KeysTell`), a key is stored if and only if its case
exists (`StoreTells`), and responses on their way and answers given name such a case
(`InboxTells`, `AnswersTell`). The refinement rests on the lemma that the abstract
registry *is* the vendor's store: a retry served twice is then a stutter, a first service
a registration.

`WebhookDeliveryProofs` proves `TypeCorrect`, `StoreIsAnLru`, `RefusalsLeaveNoTrace`, and
with `SenderSeesAWindow` that the endpoint implements `DeliveryWindow`, for any capacity.
Inductive beside the order of the store is `MissingIsOlder`: a handled delivery is missing
from the store only if that is full, and of later ones. It is what makes the abstract
window, which counts later deliveries, agree with a store that forgets.

`PaginationProofs` proves `TypeCorrect`, `PagesAreNotRepeated`, `CompleteIsAll`,
`BoundedIsABeginning`, for any list, limits and page size. Inductive are: the cursors
asked for, the first apart, are those followed, each once (`AskedTells`); what an offset
vendor has sent so far is its list up to the cursor (`CursorTells`).

`DeploymentProofs` proves `TypeCorrect`, `NamedOrNothing`, `MisconfigurationIsSafe`,
`DegradedIsTrue`, for any environments, keys and requests, from `AppTells` (the running
application is the one its settings at the start ask for) and `ResponseTells` (what each
request got can be told from that application). `DemoKeepsItsPromises` needs the rules
and the mock's table worked out for each scenario (`PromisesAreKept`), and that no
setting reaches them.

**Progress.** Liveness itself is out of the prover's reach, but what could refute it is
not only a scheduler: it could be a loop. Three theorems exclude that. Each defines
`ToGo`, a natural number, and proves as an action property that every step makes it
smaller, that of one alert or call, the others' left alone: `AlertWorkflowProofs` (an
alert is served within five steps and one for each indicator), `IntegrationClientProofs`
(a call ends within twice as many steps as it has attempts, whatever is replied) and
`PaginationProofs` (a listing ends within `MaxPages` + 1 steps, whatever cursors it is
given). What is left to fairness in `EveryAlertServed`, `EveryCallEnds` and
`EveryListEnds` is only that a step that can be taken is. `EventLoop` has no such measure,
since requests keep coming.

Assumptions, all stated in the modules and evaluated by TLC in the runs: an address or a
hash is none of the reserved words, payloads, verdicts, records, environments and requests
have the shape the models (`models/alert.py`, `models/workflow.py`, `config.py`, the
vendors' schemas) enforce, a provider's verdict is marked available, a raw output that
reaches validation has a risk and a confidence of the enumerations (the schema layer
rejects others, and `schemaOk` stands for that), limits and defaults are positive where
the code requires it, the requests of `EventLoop` are finitely many (`TimesAssumption`),
and the marker constants are distinct from the values they stand beside.

Only model-checked: liveness (`EveryAlertServed`, `EveryRequestServed`, `EveryCallEnds`,
`EveryListEnds`), since the prover treats neither fairness nor ENABLED. Every safety
property of the passing runs is proved.

## 5. Findings

1. `client_nan`: a response 429 or 503 with `Retry-After: nan` passes `float()` and the
   test `seconds < 0`, is kept by `min`, and `time.sleep` raises `ValueError` out of
   `get()`. The docstring (`integrations/base.py:182-183`) says every terminal failure is
   an `IntegrationError`, and the adapters catch only that.
2. `cases_default_key`: without a caller's key, `post()` draws a uuid per call, so two
   calls for one alert make two cases. The mock provider, with which IncidentDesk is said
   to be interchangeable, uses the alert's identifier, "since one alert should only ever
   produce one case" (`case_management/providers.py:31-33`).
3. `pages_exact_fit`: a list of exactly `max_items` records is returned whole with
   `complete=False`, which the docstring (`integrations/base.py:83-84`) defines as fewer
   than the full collection.
4. `deployment_readiness`: readiness asks only whether `create_app` had to put an
   `UnavailableInvestigationAssistant` in place (`main.py:243`). A missing key or SDK
   causes that; an invalid or revoked key does not, and `/health/ready` says healthy while
   every call ends unavailable. The operations guide says degraded for "missing/invalid
   credentials" (`src/docs/operations.md:152`, also 69-71).

Met on the way, and stated by the properties as they are:

* ADR 001 (lines 50-54) calls the timeout of the assistant the outer bound on total
  latency. Because the lookups of others hold the loop, a request may wait up to 2(*N* -
  1) times the duration of one alert's lookups longer (`LatenessIsBounded`), and an answer
  that came in time may be dropped (`AnswerKeptUnlessHeld`).
* The docstring of the live assistant (`investigation/live.py:6-8`) says that without the
  SDK or credentials "the caller falls back to the mock provider; see app/main.py". It is
  out of date: `main.py:70-81` puts an `UnavailableInvestigationAssistant` in place and
  logs that "no mock result is substituted as if it were live". `NoMockInDisguise` states
  what the code does, on exactly that case, and so contradicts the docstring.
* `get_context` translates the record after its `try`, so a negative count or an empty
  name leaves as pydantic's `ValidationError` (`asset_intel.py:383`), as does a 404 for an
  empty hostname (372-378). A request that cannot be sent (`httpx.InvalidURL`, a
  `UnicodeEncodeError` for a key that is not ASCII) leaves the client as it is, since
  `base.py:241-263` names exceptions of `httpx.HTTPError` only.
  `EveryFailureIsTranslated` names these escapes.
* The same holds of writes: an empty `case_id` fails `CaseResult` after the `try` of
  `create_case` (`incident_desk.py:166`), and `ValidationError` reaches its caller.
* A cursor that cannot be hashed, a list or an object, makes `in seen_cursors` raise
  `TypeError` out of `get_paginated` (`base.py:381`); like a malformed page, it ends the
  listing without a result.
* `verify_webhook_signature` "never raises" by its docstring (`api/webhooks.py:42-45`),
  but `compare_digest` raises on a signature with characters that are not ASCII.
  `RefusedLeavesNoTrace` covers that handler too.
* A timeout set to "nan" passes the settings and ends every live call at once; "inf" never
  ends one. " mock ", with its blanks, is another provider's name.
* `enrich` does not compare the name in the vendor's record with the indicator it asked
  about (`threat_intel.py:190-211`), and the two enrichment tables differ on hashes: the
  vendor's has none.

## 6. Not modelled

* Logging (`observability.py`), the templates of the demo, the wording of reasons and
  evidence, the rendering of errors by the exception handlers: no effect on state.
* The HMAC of the webhook and the prompt text: abstracted to what they decide.
* The SDK's own retries in the live assistant and the hops of its tasks on the event loop:
  inside one call, which `EventLoop` times as a whole.
* Lists that change between two pages: the mock vendors' do not, and offsets as cursors
  cannot be right for such a list.
* The in-process vulnerability mock, a table without a caller, and the settings of the
  vulnerability provider, which nothing builds.
* Two requests at once in `Deployment`, and what a handler decides in `EventLoop`: each is
  another module's question.

## 7. What is left

The models cover every component with state. What could follow:

1. The vendors' schemas field by field, as far as more than "fits or not" comes to matter.
2. A vendor whose lists change between pages, once the integration promises something
   about them.
