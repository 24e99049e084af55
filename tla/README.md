# basis-console: specifications

TLA+ specifications of basis-console, the human-facing front end of a
`basis-gateway`. The console never decides authorization: an operator's form
becomes a request, the gateway's kernel decides, and the console shows the
decision, or why there is none. What can go wrong is in between: what is sent,
how often, what happens when the gateway is slow, silent, replaced by a proxy or
contradicts itself, and what the page claims about it.

## 1. Inventory

Paths are relative to `src/basis_console/` of the repository.

| Part | State | Operations | What makes it correct |
|---|---|---|---|
| Simulate handler, `ui/views.py` | none of its own; holds the event loop | `GET/POST /simulate` | one call per gated submission; the page shows that submission's decision and no other; always answered |
| Gateway client, `gateway/client.py` | base URL, token, timeout (fixed at startup) | `evaluate`, `evaluate_operation_aware`, `check_status`, `get_health`, `get_ready` | never raises, never retries; a reply is classified by its body, not by its HTTP status (operation-aware) |
| Response contract, `gateway/operation_aware_models.py` | none | strict parse, correlation reconciliation | a response that contradicts itself is refused as a whole |
| Request building, `simulator.py`, `vocabulary.py` | none | `build_simulation`, `build_operation_aware_simulation`, `build_gateway_request`, context parser | what is previewed is what is sent; accepted input is not silently dropped |
| Presentation, `operation_aware_presentation.py` | none | `build_operation_aware_presentation` | evidence is verbatim; nothing is filled in from the request; never raises for a client result |
| Diagnostics, `diagnostics.py` | none | `gather_gateway_diagnostics` (workspace, `/gateway`) | agrees with the home page; reads two endpoints at two moments |
| Readiness, `readiness.py`, `main.py`, `api/routes.py` | process-wide component map under a lock; `app.state` | lifespan startup and shutdown, `GET /ready`, `GET /health` | ready exactly when the configuration loaded; health always answers |
| The form in the browser, `ui/templates/simulate.html` | values, chosen contract, which fields are enabled; the page it came with | load a scenario, edit, switch the contract, preview, Evaluate | the next page repeats what was submitted; nothing hidden is submitted or blocks a submission |
| Training text, `operation_aware_training.py` and its partial | none | lookup beside a presentation | the lesson is about the decision that is shown |
| Redaction, `gateway/redaction.py` | none | `redact_json`, `redact_headers` | no sensitive key at any depth keeps its value; nothing else is lost |
| Configuration, workspace, identity, audit, resource and policy samples, templates | none that changes | rendering of literal data, parsing of the environment | not modelled, see section 7 |

Interaction. The event loop runs coroutine handlers; `simulate_submit` is one and
calls the *synchronous* client directly, so it holds the loop for the whole
gateway call. All other handlers are plain functions on worker threads, but the
loop dispatches them and sends their responses. The client opens one connection
per call. The readiness singleton is shared by the lifespan and by `GET /ready`;
`app.state` (settings and client) by the lifespan and every page. A page is the
only memory of an operator's session: each submission is built from the form of
the last page, and the next form from an echo of the submission.

Hard behaviours: several submissions and probes around one blocking call; lost
requests and replies; a decision that is made after the client gave up; replies
written by proxies or older gateways; self-contradictory bodies; two correlation
ids; a gateway that changes between `/health` and `/ready`; a shutdown between
two reads of the readiness singleton; a second lifespan in one process, whole or
failed half way; a page that stays open across a restart; fields that one contract
refuses and the page of that contract hides; a reply nested deeper than Python
recurses. They are listed with their lines in `PROJECT.json` under "hazards".

## 2. Modules

```
OperationAwareContract          strict parse of a governed body
   GatewayClient                bodies sent, replies read, both endpoints
      OperationAwarePresentation   page content from a result
         OperationAwareTraining    teaching texts beside that content
      GatewayProbes                check_status / diagnostics, two reads of a changing gateway
         StatusPages               what a page that names the connection state promises (abstract)
         GatewayProbes_proofs
   Simulator                    form -> request
SimulateHandler  EXTENDS Simulator, OperationAwareTraining
   |             what POST /simulate makes of a form, a configuration and a reply
   |  Requests_proofs             context parser and request builders
   Submission    many submissions: event loop, gateway, network
      DecisionRelay             what the handler promises (abstract)
      Submission_proofs, Pages_proofs
   SimulateSession              one operator, form after form (with Redaction)
      SimulateSession_proofs    (with Requests_proofs and Redaction_proofs)
Redaction                       redact_json
   Redaction_proofs
Readiness                       lifespan, app.state, readiness singleton, GET /ready, pages
   Readiness_proofs
Induction                       least and greatest numbers, induction by sets (for the proofs)
MCSubmission, MCSession, MCGatewayProbes, MCReadiness   values for TLC
```

The modules down to `SimulateHandler` and `Redaction` are pure operators
translated function by function; `map` in `PROJECT.json` gives the lines of each.

**Data.** A JSON value that is read is a string: a text stands for itself, three
reserved strings stand for a missing key, `null`, and any value that is not text.
A body is a function from field names to such values. How deep a reply is nested
is part of its kind: *deep* replies exhaust `redact_json` (and so the
operation-aware reader, which calls it outside its `try`), *bottomless* ones also
`json.dumps(..., indent=2)` in the legacy view, which only happens in Python
versions whose encoder recurses there. A form field is a token that is already
stripped; constants say which tokens are too long, unsafe, not a slug, or typed
(contain a colon). A context block is a sequence of lines. Error messages are
reduced to the field they are about. Presentation items keep value, source,
applicability and presence. Where the raw body itself matters (`Redaction`) a
JSON value is a tree of items with keys, nested at most `MaxNesting` deep, which stands
for Python's recursion limit: what nests deeper is one of the two kinds above.

**Submission.** `stage[s]` goes idle, posted (the request body has arrived, the
coroutine is ready), waiting (inside the gateway call), done. `loop` is the
submission that holds the event loop. `AnswerLocally` is the whole handler when an
undecodable form, a validation error, preview mode or a gate stops it;
`CallGateway` is the handler up to the blocking `client.post`; `ReadReply` and
`CallFails` are the rest of it. There is no await between the last line of the
client and the rendered page, so each is one atomic step of the loop. `Silence` is
the read timer running out, `Dribble` a byte that rearms it. The environment:
`KernelDecides`, `AnsweredElsewhere` (a proxy answers, the kernel never sees the
request), `ReplyReplaced`, `RequestLost`, `ReplyLost`. A request stays on its way
after the client gives up, so a decision may come late. `GET /health` has the three
places it may wait in: the queue of the loop, its thread, the loop again.

**SimulateSession.** `page` is what the server rendered (contract, echoed values,
view, request, whether it has an Evaluate button), `dom` the form as the browser
holds it: values, chosen contract, visible and enabled fields. `Open` and
`LoadExample` are `GET /simulate`, `Edit` and `Choose` the operator, with or
without the page script, `SubmitLocally` and `Evaluate` the handler, `Restart` a
console process with another configuration under a page that stays open. `FormOf`
is what a browser submits: disabled controls are not part of it. `Rendered` has
what HTML does to an echoed value: a `select` falls back to its first option, a
`textarea` loses a leading newline.

**GatewayProbes.** Every viewer reads `/health` and then `/ready`, with
`GatewayChanges` in between. `check_status` stops after a bad `/health`;
the diagnostics aggregator goes on. A base URL that httpx refuses fails every
exchange with an exception that is no `HTTPError`. `StatusPages` is the promise of
such a page without bodies and codes: an endpoint is silent, failing or fine, and
the page names what the glossary of `diagnostics.py` says of `/health` at one moment
of the request and `/ready` at a later one. In it the two functions are one.

**Readiness.** The lifespan is `LoadConfig` (which may fail: the exception is
logged and the application served), `BuildClient`, `Serve`, and `Shutdown`, which
marks the component `app`. What `app.state` holds is named by the lifespan that
put it there. `GET /ready` is four steps: the gateway probe, and the three
separately locked reads of the singleton. A page reads the mode and then the
client. Threads of requests go on through a shutdown and the next startup.

## 3. Runs

| Run | Constants | Shows |
|---|---|---|
| `flow` | 2 submissions, 1 probe, 3 forms, with and without a token, 5 foreign replies, 3 decisions, peers that trickle | loop discipline, one call per submission, provenance and finality of pages, faithful relay |
| `forms` | 1 submission, every context block of up to 3 lines over 9 kinds of line with a cap of 2, field combinations, undecodable bodies, all client configurations | preview = page = wire; shape of the wire; no context line lost; `called_gateway` and the preview lesson are true |
| `replies` | 1 submission, all 9 decisions, bodies one field off six good ones and all combinations of the four decision fields, under several codes and headers, replies that are not JSON or too deep | correlation never guessed, one story per page, evidence verbatim, coherent decisions, body over code, no 500 but the two known ones, lessons and guidance match the reply |
| `liveness` | 2 submissions, 1 probe, a foreign reply that breaks the contract, silent peers allowed, fair loop | everything posted or queued is answered; `Submission` implements `DecisionRelay` |
| `session` | the 3 sample scenarios, one typed value per field, a blank first context line, the page script on or off, a configured and an unconfigured client, three replies with nested JSON | the request does not change between preview and Evaluate, errors can be fixed, hidden fields stay back, scenarios are accepted, the raw body is redacted |
| `probes` | one home page, one diagnostics page, 6 answers per endpoint | pages agree, the state of a stable gateway is shown, overall readiness is read; `GatewayProbes` implements `StatusPages` |
| `readiness` | 2 requests, 1 page, 2 lifespans, shutdown does not wait | answers are the startup's, reasons are real, a 200 never tells of a failed component, a page shows one configuration |

Two submissions are enough for the flow: submissions share only `loop`,
`requests` and `replies`, and every property is about one submission or a pair.
A cap of 2 with three lines exercises under, at and above the cap (the code's 16
takes part only in that comparison). Two lifespans are the least in which
something survives a restart. The answers of `probes` include one for each branch
of both classifications. In `session` one typed value per field (a typed id, a
subject, a request id, a context block) reaches every error and every switch from
the four starting points; each further value multiplies the pages by the forms and
adds no branch. The nested bodies have sensitive keys on a leaf, on an object, on
a list, inside a list, and beside keys that are not.

Five runs show a disagreement between the code and what its comments say
(`findings` in `PROJECT.json` quotes the lines):

- `health_during_call`: httpx's timeout bounds each read. A peer that trickles
  bytes holds the synchronous call, and the event loop with it; `GET /health`
  ("always 200 while the process is up") is never answered. This is `liveness`
  with `DribblingPeers`; there the property holds because the timer runs out.
- `legacy_success`: the legacy status is the HTTP status; a proxy's 200 is a
  "SUCCESS", documented and explained as an allow.
- `malformed_json`: listed under `CONTRACT_INVALID`, classified by HTTP status.
- `connection_state`: the two probing functions end an unforeseen exception in
  different states ("error", "unreachable"), though every page promises the same.
- `unreachable_live_state`: `/ready` is probed and shown although `/health` was
  not reached and the page says that no live state is surfaced.

Other disagreements, met while modelling, that the models follow the code in:

- A second lifespan in one process is never ready: nothing clears the component the
  shutdown marked. `AnswerIsTheStartups` says so for every number of lifespans.
- `config.py:118-120` says an invalid `BASIS_CONSOLE_MODE` "stops startup"; the
  lifespan logs the exception and serves, in operator mode with an unconfigured
  client at first. After a *second* startup that fails, pages keep mode and client
  of the earlier one, although `views.py:203-204` says they fall back to operator
  mode. `PageIsOfOneStartup` states what does hold: the two are of one startup.
- `_interpret_operation_aware` is documented never to raise and does, on a reply
  nested too deep (`client.py:515`); `_parse_form_body` raises on a form that is not
  UTF-8 (`views.py:341`). `ServerErrorsAccountedFor` says these are the only ways to
  a bare 500.
- `redact_json` is documented to run "before a response body is rendered or
  stored"; the legacy panel shows its raw body as it came. `RawShown` has both.
- Subject and context typed before a submission to the operation-aware contract are
  gone afterwards: disabled fields are not submitted, so the echo has nothing to
  repeat. `PreviewIsKept` is about the fields of the contract that was submitted.

## 4. Fairness

`FairSpec` assumes only what the runtime gives. A ready coroutine gets the loop
(strong fairness of `Handle`: the loop may be taken by others in between, asyncio
serves its ready queue in order). The read timer of a waiting call runs out
(weak fairness of `Silence`), and a call whose reply is there or whose timer has
run out ends (weak fairness of `CallEnds`). Worker threads run; the loop
dispatches probes and sends their responses (strong, for the same reason).
Nothing is assumed of the gateway, the network or a proxy, and no failure but
the timeout is ever forced. `liveness` further assumes peers that do not trickle.

## 5. Proofs

Everything below is proved for arbitrary sets of submissions, probes, forms,
scenarios, typed values, client configurations, decisions and foreign replies,
context blocks of any length and JSON values of any shape, from the assumptions
named in the modules, which TLC evaluates on every run that uses them:

- `VocabularyAssumption`, `FormAssumption`: verbs and resource types are texts that pass
  for none of the special tokens, the cap is a number, a context block is a sequence
  of lines.
- `SubmissionAssumption`, `ForeignReplyAssumption`, `SessionAssumption`: the kernel
  decides one of the outcomes or fails for one of the reasons, and forms and replies have
  their fields; nothing is assumed of what foreign replies say.
- `ScenarioAssumption`: the sample scenarios are requests of the legacy vocabulary, the
  one fact about literal data that is used. TLC evaluates it on the scenarios of
  `simulator_data.py`.
- `JsonAssumption`: a JSON value is a finite tree with keys that can be sensitive only
  in objects.
- `ProbesAssumption`, `ReadinessAssumption`: the ways an exchange may fail, no page
  served by both functions, a number of lifespans.

| Module | Theorem | States |
|---|---|---|
| `Submission_proofs` | `TypeCorrect` | `Spec => []TypeOK` |
| | `LoopIsHeldByTheCall` | `Spec => []LoopDiscipline` |
| | `CalledOnce` | `Spec => []OneCallPerSubmission` |
| | `PagesAreAccountedFor` | `Spec => []Provenance` |
| | `KernelsDecisionIsShown` | `Spec => []FaithfulRelay` |
| | `AnsweredOnce` | `Spec => PageIsFinal` |
| | `SubmissionImplementsRelay` | `NoForeignDecision` implies `Spec => ImplementsDecisionRelay` |
| `Pages_proofs` | `CalledGatewayHolds`, `WireHolds`, `PreviewLessonHolds` | what a page says of the call it made is true |
| | `CorrelationIsNeverGuessed`, `BodyDecides`, `EvidenceHolds`, `DecisionsHold`, `OneStoryHolds` | what a page says of a reply is the reply's, and coherent |
| | `LessonsHold`, `AbsencesHold` | training texts match the decision and the reply |
| | `ServerErrorsHold` | the two ways to a bare 500 are the only ones |
| | `WireShapeHolds`, `ContextHolds` | the shape of a request, and no context line lost, for blocks of any length |
| `SimulateSession_proofs` | `SessionTypes`, `HiddenErrorsGoAway`, `ScriptHoldsBack` | a session never blocks on hidden fields |
| | `PreviewsAreKept`, `ScenariosAreAccepted` | a preview or a loaded scenario, submitted untouched, is the request it showed |
| | `RawHidesOnlySensitive` | the raw body on a page is the reply's, redacted |
| `Redaction_proofs` | `RedactionHidesOnlySensitive` | `redact_json` hides what is under a sensitive key at any depth, and nothing else |
| `Readiness_proofs` | `ReadinessTypes`, `ReadyIsTheFirstStartup`, `UnreadyIsExplained`, `ReadyIsTheWholeBody`, `PagesOfOneStartup` | every invariant of `readiness` |
| `GatewayProbes_proofs` | `ProbesTypes`, `PagesNameOneState`, `ReadyIsRead`, `StableStateIsShown` | every property of `probes` |
| | `ProbesImplementStatusPages` | `Spec => ImplementsStatusPages` |

**Submission.** The inductive invariant `IInv` is the conjunction of `TypeOK`,
`LoopDiscipline`, `OneCallPerSubmission` and `Provenance`. None of the first
three is inductive alone: that a call sends exactly one request needs the stage
to determine what was sent, and that stage *waiting* belongs to one submission
needs the loop. `FaithfulRelay` follows from `Provenance` without temporal
reasoning: the page is the reading of the reply, the reply is what the evaluator
writes for the kernel's decision, and `ReplyPageShowsDecision` proves, case by
case over the nine decisions and both endpoints, that reading it shows that
decision. `NextKeepsIInv` has one step per action. The refinement maps every step
to `Ask`, `Decide`, `Answer` or a stutter (`StepImplementsRelay`); its hypothesis
`NoForeignDecision` is needed because a proxy that writes a perfect governed body
is indistinguishable from the gateway, and the `flow` run checks the rest of the
properties with such replies included.

**Pages.** `Provenance` says what a page was made of, so everything a page shows is
a fact about functions. `ReadingOfAReply` is the hinge: a reply is read as governed
(contract valid, response the parsed body) or as not governed (no response), never
in between. `PresentedPages` lists what a page of the operation-aware panel can be
(a gate, a failure, a reading), `BuilderAcceptsReadings` that the presentation
builder never refuses one. The value and presence of each item follow
(`GovernedValues`, `UngovernedValues`, `ItemsPresent`), and the theorems from those.

**Requests.** The context parser is a recursive function over the lines, and no
installed prover instantiates the library's induction theorems. `NatsInASet` is
induction without an operator parameter: the set of the numbers that have a property
contains zero and successors. `ParseExists` and `ParseContextIsParsed` show with it that
the parser goes through one state per line (`IsParse`), `ParsedContext` that each of them
satisfies `ParseInv`: the entries are within the cap and have different keys, and as
long as there is no error they are those of the lines so far that are not blank. `WireShapeHolds` and
`ContextHolds` follow through the two builders.

**Redaction.** `redact_json` and `Leaves` recurse into items, so that they are
functions at all has to be proved: for the values up to each depth such a function
exists (`RedactionExists`, `LeavesExist`). The third
induction over depth is the property itself. A leaf of an object is a leaf of an item
with the item's key in front of its path, and the three clauses of `HidesOnlySensitive`
are carried from the items to the value; below a sensitive key the one leaf that is
left stands for all.

**SimulateSession.** `SessionInv` adds to the types that a legacy page has no error
about the request id, and that under the page script the enabled fields are always
those of the chosen contract. From the latter, `DisabledFieldsAreAccepted` shows that
nothing of the other contract can be rejected. `PreviewIsKept` speaks of the step from
a preview to the next page and is not inductive: what makes it true was decided when
the preview was rendered. `SessionInv` therefore says of every preview page that its
form, as the browser renders and submits it in either mode, is accepted and makes the
same request (`RepeatsRequest`), and the same of a page that was just loaded with a
scenario. A `select` that falls back to its first option, a `textarea` that loses a
leading newline and a disabled field that is sent as blank each need a reason not to
matter: the accepted value is an option, the parser skips blank lines, and no builder
reads a field of the other contract that is blank.

**Readiness.** `LifespanInv` says what `app.state` and the singleton hold in each
phase (in particular: one shutdown marks `app` for good, and the configuration is the
newest that loaded). `HandlerInv` and `PageInv` say how much of what a request has
already read is still true; only component states that never recover may be relied on
between two locked reads.

**GatewayProbes.** `ViewerInv` says that a page is the report of the answers its
viewer read, and that a viewer between its reads still holds the answer of a gateway
that has not changed. For the refinement, `AddressInv` adds that a base URL httpx refuses
is refused at both endpoints and for good; without it a page might combine one refused
read with one that was not, for which the glossary has no name. `NamedByGlossary` shows
that both functions name a state the glossary gives to the two answers,
`StepKeepsPromise` that each step is one of `StatusPages` or a stutter.

Only model-checked: `EverySubmissionIsAnswered` and `EveryProbeIsAnswered`. They need
fairness, hence ENABLED, which the prover does not handle. Every other invariant and
action property of the passing runs, and both refinements, are theorems.

## 6. Plan

Done: every module of section 2, the refinements of `DecisionRelay` and `StatusPages`,
and the proofs of section 5. The order was: reading of replies, submission flow, proofs
of the flow; probes and readiness; the split of the handler so that many submissions and
one session share it; training texts; redaction; the session; induction over context
lines and JSON values, and the session's proofs; the status pages.

Left, in order of value:

1. An abstract specification of readiness (a process is ready from the end of its first
   successful startup to its shutdown) and its refinement by the four reads of
   `GET /ready`, which is only true of answers given within one lifespan.
2. Sessions of two tabs or two operators. Pages share nothing but the client, so this
   needs `Restart` under two open pages and no new action.
3. `composition_evidence` of the legacy panel, which collects keys from three places
   of a body; it feeds one display list.

## 7. Not modelled

- Rendering: wording, JSON pretty-printing, the sample pages (identity, audit,
  resources, policies) and the workspace cards. They are literal data without
  operations, and the one live value among them, the diagnostics report, is modelled.
  There is no state a property could relate.
- `redact_headers`: the headers are shown as one block; models keep whether they are
  attached.
- `composition_evidence`, `compose_action` and `compose_resource_id`, and the script's
  preview of the composition: display aids that are never sent.
- Parsing and validation of environment variables (pydantic); its outcomes are the
  client configurations and the failing `LoadConfig`.
- Regular expressions, latency, timestamps, logging, the asset files.
- Python's recursion limit as a number: replies are deep or not, and those that are not
  nest no deeper than some `MaxNesting`.

## 8. Running

```
tlc -workers 2 -config flow.cfg MCSubmission.tla
tlc -workers 2 -config session.cfg MCSession.tla
tlapm Pages_proofs.tla
```

Each `.cfg` belongs to the module `PROJECT.json` names for it. No run switches
the deadlock check off: `Rest` and `Exit` are the only places where the systems
stop.
