# RiskLoom: verification project

RiskLoom scores checkout events before payment, decides ALLOW / REVIEW / DENY, creates capped
Razorpay test orders for ALLOW and keeps every decision in a ledger. This directory holds TLA+
models of that code, the TLC configurations that check them and proofs checked by TLAPS. Paths
below are relative to the repository root.

## 1. The system: components, state, operations

| Component | Where | State it keeps | Operations |
| --- | --- | --- | --- |
| Checkout preflight | `src/riskloom/api/routes/checkout.py`, `services/preflight.py`, `serving/decisions.py` | `risk_decisions` and `review_items` rows (PostgreSQL); `OrderBudget.attempted` (process) | claim, read existing, score, act, finalise, answer |
| Online feature engine | `serving/engine_host.py`, `features/engine.py`, `features/state.py` | rolling windows per entity, last timestamp, last key (process memory only) | next timestamp, process = evict, compute, observe, restore on failure |
| Razorpay adapter | `integrations/razorpay/` | none; orders exist at Razorpay | create order, verify signature, sanitise payload |
| Webhook ingestion | `api/routes/webhooks.py`, `services/webhook_ingestion.py` | `webhook_events`, `payment_observations` | receive, verify, insert once, project payment |
| Explanations | `api/routes/explanations.py`, `services/explanations.py`, `explanations/` | `risk_decision_explanations`; `ExplanationBudget.used` (process) | latest, generate |
| Dashboard | `services/dashboard.py`, `serving/coordination.py`, `static/` | none (reads the ledger) | list, summarise, entity context, coordination graph |
| Drift | `drift/`, `services/drift.py` | reference file | bin, PSI, report |
| Model binding | `serving/model_host.py`, `modeling/artifacts.py` | locked artifacts | load or refuse to start |
| Training | `modeling/` | artifact directories | load, train, calibrate, select threshold, export trees, evaluate |
| Policy | `policy/`, `modeling/policy_ops.py` | policy file, band and comparison directories | fit a band, compare on a fresh batch, approve |
| Feature extraction | `features/extraction.py`, `features/artifacts.py` | artifact directory | extract, publish |
| Simulation | `simulation/` | dataset directory | validate a configuration, generate, validate, replay |
| Offline analysis | `analysis/` | none (reads artifacts) | stress variants, blind spots, stored references |
| Runtime bundle | `runtime_bundle.py` | installed artifact files | build, download, validate, install, roll back |

## 2. How the components interact

* **One process, one event loop.** The service runs as a single uvicorn process
  (`Dockerfile`). A handler runs without interruption between two `await`s; the awaits are the
  database round trips and the calls to Razorpay and Gemini. Everything in memory (budgets, the
  feature engine, the bound model) is shared by all handlers and lost when the process dies.
* **Checkout preflight → engine host → feature engine.** Synchronous, under the host's lock: the
  host assigns a strictly increasing timestamp, the engine evicts, computes and observes, the
  locked model scores.
* **Checkout preflight → PostgreSQL.** Two transactions: the claim (`INSERT ... ON CONFLICT DO
  NOTHING`) and the final write (row and review item together). A third statement reads the row
  of a duplicate.
* **Checkout preflight → Razorpay.** One `POST /v1/orders` per process-budget unit, between the
  two transactions; a failure becomes REVIEW.
* **Razorpay → webhook intake → PostgreSQL.** At-least-once delivery; one transaction inserts the
  event and, for a payment, its observation.
* **Explanations → ledger, Gemini.** Reads a decision and its attempts, gathers facts from other
  decisions of the same entities (`services/dashboard.py`), claims an attempt number, calls Gemini
  outside any transaction and writes the outcome.
* **Offline.** Generator → dataset directory → extractor → feature directory → trainer → model
  directory → runtime bundle → installer → model binding at startup. These are separate programs
  that meet only on the file system, each checking the hashes it relies on.
* **Policy.** `fit-policy-band` reads the locked model and the policy file; `validate-policy` reads
  both again, the band, and a batch of another simulation; an operator may have retrained or
  edited the file in between.

### What is hard here

| Behaviour | Where it bites | Modelled in |
| --- | --- | --- |
| Two requests race for one key | claim of an event, of an attempt number, of a provider event | `Preflight`, `Explanations`, `Webhooks` |
| State is read some round trips before it is used | attempts before the claim, the evidence, the events file during an extraction | `Explanations`, `ArtifactPipeline` |
| A COMMIT whose acknowledgement is lost, or which is processed after the caller got 503 | every write | `Preflight`, `Explanations`, `Webhooks` |
| A remote call that fails on the client and succeeds on the server | Razorpay orders | `Preflight` |
| A crash between two steps, a restart with other artifacts | claim/finalise, claim/call, two renames | all but the feature engine |
| A limit that is reached, spent by failures, reset by a restart | order budget, call budget, attempt cap | `Preflight`, `Explanations` |
| The wall clock stands still or steps back | engine host | `Preflight` |
| A long sequence of increments and decrements must cancel exactly | rolling counters | `FeatureEngine` |
| Half of a multi-part update must be undone | `FeatureEngine.process`, `install_bundle` | `FeatureEngine`, `RuntimeBundle` |
| A value exactly at a boundary | window edges, 32-bit amounts, budgets, thresholds, split ends | `FeatureEngine`, `Webhooks`, `Preflight`, `DecisionBands`, `SimulationGenerator` |
| A file is replaced while it is checked and read | extractor, trainer, archive reader | `ArtifactPipeline`, `BundleArchive` |
| The same rule is implemented several times | bands, metrics and stress report; generator, validator and trainer | `PolicyLifecycle`, `SimulationGenerator` |
| Something fails for some seeds only | campaign placement, retry chains, shift checks | `SimulationGenerator` |

`PROJECT.json` lists every hazard with its source line and the properties that cover it; a hazard
without a property says why.

## 3. Modules

| Module | Role |
| --- | --- |
| `Preflight` | the checkout route, its orchestration, the engine clock, PostgreSQL and Razorpay |
| `PreflightProperties` | its properties, and the refinement mapping to `DecisionLedger` |
| `PreflightInvariant` | the inductive invariant |
| `PreflightProofs` | its theorems, and the refinement of `DecisionLedger` |
| `DecisionLedger` | what the service promises per event, without requests or failures |
| `Explanations`, `ExplanationsProperties`, `ExplanationsInvariant`, `ExplanationsProofs` | the explanation routes, in the same four layers |
| `Webhooks`, `WebhooksProofs` | webhook intake with properties and invariant, and its theorems |
| `RollingIndex` | operators of one rolling index (`features/state.py`) |
| `FeatureEngine` | the fourteen indexes, `process` and its failures |
| `FeatureInvariant`, `FeatureProofs` | the summary of a deque, the inductive invariant, and the theorems of both |
| `RuntimeBundle` | the installer: classify, publish, verify, roll back |
| `BundleArchive` | build, download and validated reading of the archive at one path |
| `BundleDelivery` | composes `BundleArchive` with `RuntimeBundle` |
| `BundleInvariant`, `BundleProofs` | the inductive invariants of installer and archive, and the theorems of the three modules |
| `ArtifactPipeline` | generator, extractor and trainer on shared directories |
| `PipelineInvariant`, `PipelineProofs` | its inductive invariant and its theorems |
| `DecisionBands` | operators: a band's decision and price, the sweep that fits it, the gates |
| `ModelSelection` | operators: threshold and candidate selection, parity, the held-out and the stress report |
| `PortableTrees` | operators: which exported trees are accepted, and how a row walks through one |
| `PolicyLifecycle` | train, evaluate, fit, validate, with the files replaced in between; uses the three above |
| `PolicyProofs` | the theorems about `PolicyLifecycle`, its invariant and the lemmas on the operators |
| `SimulationConfig` | operators: the configurations that are accepted, and their namespaces |
| `SimulationGenerator` | the generator, and what the validator and the trainer demand of its records |
| `SimulationInvariant`, `SimulationProofs` | its inductive invariant and its theorems |
| `MC*` | instances for TLC; each `.cfg` belongs to the run named in `PROJECT.json` |

A definition whose comment starts with "Mutant:" is a deliberately wrong form of the definition
that follows it. No specification uses it; it is what one substitutes to see that a property can
fail.

### 3.1 Preflight

`ledger` and `reviewItems` are the two tables, `attempted` is `OrderBudget.attempted`,
`lastOccurred` and `lastKey` are `OnlineFeatureEngine._last_occurred_at` and
`FeatureEngine._last_key`, `bundle` is the loaded `ServingBundle`. `pc[r]` names the suspension
point of request `r`; the decision it carries is in `decision[r]`. `wire`/`upstream` are the POSTs
Razorpay may still process and the orders that exist; an order is named by the request that asked
for it. `dangling` holds writes the client gave up on that the server may still commit.

| Action | Code |
| --- | --- |
| `Claim`, `ClaimConflict` | `_claim` inserts the row, or finds one |
| `ReadExisting` | `_existing`: the stored answer, or 409 for a row that is still pending |
| `FeatureFailure`, `ScoringFailure`, `Deny`, `AllowBudgetExhausted`, `AllowReserved` | `_score` and `_act` up to the POST: no `await` between them |
| `RazorpayCreates`, `OrderReturned`, `OrderFails` | the POST on Razorpay's side and on the client's |
| `Finalise`, `Respond` | `_finalise_ledger`, then the 200 answer |
| `StorageError` | `SQLAlchemyError` at a round trip: 503, with a log line for the final write |
| `Unwind` | the cancellation of `asyncio.timeout` where it is delivered, or a bare `TimeoutError`/`OSError`: 503 without one |
| `LateCommit`, `Crash` | environment |

The row a process decides carries its model (`Rows.model`). The model's verdict, allow or deny, is
a free choice, as are all failures. The 500 `internal_error` branch of the route has no step:
nothing the modelled code calls raises anything it does not catch. `WriteFinal` has no guard on
the row's status, because the statement has none; that it only ever meets a pending row is part
of what is proved. Several worker processes are not modelled, since the image starts one.

### 3.2 Explanations

`attempts` holds the status of each (decision, number), the table's unique key. `ledger` moves
under the routes: `Record` and `Settle` stand for preflight. `Look` is the GET route;
`ReadDecision`, `ReadAttempts` and `ReadContext` are the three reads before the claim, `Claim` and
`ClaimConflict` the insert, `StartCall` and `BudgetExhausted` the budget, `CallReturns` the answer of
Gemini after sanitising (ready, rejected or failed, freely), `Finalise` and `View` the final write
and the fresh read that is answered. `UnhandledError` is any exception the route does not translate
(500); the attempt it leaves pending blocks the decision, as in the code. `number[r]` is the number
computed when the attempts were read: the claim uses it several steps later, which is the race the
properties are about.

### 3.3 Webhooks

The checks of the route run in the order of `Checks`; a delivery may fail several. `tx[d]` is the
server's side of a transaction ("open", "commit" once COMMIT is sent): it outlives the handler.
`InsertEvent` and `Duplicate` wait while another transaction holds the key, as `ON CONFLICT DO
NOTHING` does, and `Commits` and `RollsBack` belong to PostgreSQL. `AmountOutOfRange` is the
refusal of a statement whose amount needs more than 32 bits.

### 3.4 RollingIndex and FeatureEngine

A rolling index is a deque of observations and, per token, an aggregate with attempts, failures,
a bag per related entity and the last time. `RollingIndex` has one operator per method;
`FeatureEngine` applies them to the fourteen indexes in the code's order. `process` is one step,
because it runs under the host's lock without suspension; `ProcessFails(e, p)` is a call that
raised after `p` of its updates, with both `except` branches. The reference definition is `Truth`:
a recount, by their positions in the history, of all accepted events within the window.

### 3.5 RuntimeBundle

`disk` gives each member's contents (absent, pinned, other), `directories` the directories that
exist. A run classifies every wanted member, makes directories and renames files in
`_publication_order`, verifies and binds; any operation may fail and the run may be killed at any
step. `undo` is the list the rollback works off: an `OSError` in the publication loop is caught
there and again around it, so it holds everything twice. Runs follow one another without end.
Overlapping runs are left out: the module docstring (`runtime_bundle.py:34-42`) excludes concurrent
writers.

`BundleArchive` follows the file at one path: download attempts that create it exclusively and stream
into it chunk by chunk (`attempt`), a build through its `.partial` file (`build`, `partial`), and a reader
that hashes the file through one descriptor and opens it again for its members (`reader`, `hashed`). A
writer that keeps out of the way of readers is not assumed: `Interfere` replaces the file between the
two. An archive is a record of what the checks can tell apart: its length, its member names,
which members' bytes are not the pinned ones, whether its manifest is true of them, and whether it is
structurally sound. `BundleDelivery` lets an installation start once the reader has returned; it
follows the delivery on a clean clone only, since the two share nothing but the members in memory.

### 3.6 ArtifactPipeline

Since each stage is deterministic, a file is represented by the version of the dataset it stems
from. The three programs take steps of one rename, one open or one hash each, in any interleaving,
and may be interrupted anywhere; an operator may delete a directory that nobody is writing.
`CheckHeader`, `Lockstep`, `Recheck` and `CheckUnchanged` are the four looks at the source that
`extract_feature_dataset` takes for each of its stages; `Contract` is the order of the trainer's hash checks.

### 3.7 Policy

Probabilities are the integers `0 .. One`. `PolicyLifecycle` has one action per program, because each
reads published directories, computes and publishes; what interleaves is the programs and the
operator (`RemoveDirectory`, `EditPolicy`). The computations are the operators of three modules, in the
code's own form: `SelectBand` sorts the rows (`SortedRows`, by the rank of each row) and prices pairs by prefix sums as the vectorised sweep does, `Round` is one
round of `validate_tree`'s loop and `Descend` one step of a row, `CampaignMetrics` takes nearest-rank percentiles. The properties compare
them with definitions stated independently: a minimum over all pairs, the graph-theoretic meaning of a
tree, counts of rows (`CostOf` prices a band from four sets of rows and knows nothing of
`EvaluateBand`). The scores of the estimators are free; `Roundings` are the errors that
portable inference may have, and `ParityHolds` refuses the large ones.

| Action | Code |
| --- | --- |
| `Train` | `build_training_outputs`: every candidate, `_ranking_key`, export and parity |
| `Evaluate` | `evaluate_model`, and `score_variant` of the stress analysis on the same rows |
| `FitPolicyBand` | `fit_policy_band`: the sweep, and its check against `evaluate_band` |
| `ValidatePolicy` | `validate_policy`: `load_locked_band`, the fresh batch, the gates, the approval |

### 3.8 Simulation

`SimulationConfig` translates the validators of `simulation/config.py`: an accepted configuration is one
for which `ValidConfig` holds. `SimulationGenerator` draws the records scenario by scenario and split by
split. Every `randrange` is a choice among its least, its greatest and some values between
(`DrawPoints`), and the length of a window is its shortest or longest. One retry chain, window or
campaign stands for all of its scenario, because nothing relates them but what is kept in `sizes`
and `windows`. Time is counted in units of ten seconds. `CutChain` follows the cutting of the last
`MaxQuota` retry events; what is left after the chains before them is `AfterHead`. Entity tokens are not
drawn; `DeviceCount`, `NetworkCount` and `MissingCount` count them and `Total` adds
them up over the campaigns of a split, which is all that the checks on them use.
The validator is there as `PlacementErrors`, `ShiftHolds` and `NetworksHold`, the trainer as `TrainerAccepts`.

## 4. Runs

Run a configuration with `tlc -config <file>.cfg <module>`.

| Run | Instance | Distinct states | What it shows |
| --- | --- | --- | --- |
| `preflight` | 2 events, 3 requests, clock {1, 2}, budget 1, 1 crash, fairness | 1,052,245 | one order and one scoring per event, budget, backing of ALLOW, answers, review queue, timestamps; implements `DecisionLedger`; every request ends if the database answers |
| `explanations` | 2 decisions of one entity, 3 requests, 2 attempts, budget 2, 1 crash, fairness | 1,299,757 | one outstanding call per decision, chain of attempts, owners, budget, no call after success; every request ends |
| `webhooks` | 2 events, 3 deliveries, up to two failed checks, 1 crash, fairness | 169,009 | stored once, rows together, 200 means stored, every delivery ends |
| `features` | 3 accepted events, times 0..4, windows 1, 2, 3, failures at 5 points | 8,441 | deques and counters equal a recount, features are causal, failures leave no trace |
| `bundle` | all 486 initial trees, any number of runs; 2 downloads, builds and a reader, archives of up to 3 chunks | 704,933 | nothing that existed is touched, rollback exact, leftovers harmless, manifest last; only pinned bytes are installed; writers clean up |
| `pipeline` | 3 versions, any number of runs of each program | 152,072 | extractions of one source, feature and model manifests vouch, training on pinned files |
| `policy` | 108 selection cases, 324 held-out partitions, 7,603 tree arrays of up to 3 nodes; 2 policies, 4 roundings | 98,238 | the sweep is optimal, the locked threshold is best, approvals are earned, reports agree, accepted trees are trees |
| `simulation` | the shipped configurations and variations, extreme draws | 75,126 | events keep to their split, campaigns to their side, chains and locked shapes validate, evasion is confined |
| `preflight_orphan`, `preflight_review_order`, `explanations_evidence`, `webhooks_storage` | smallest instance | | a statement of the documentation that the code does not keep (section 7) |

**Why the bounds are enough.** *Preflight:* all interaction between requests is through the
ledger row of their event, the budget and the engine clock. Two requests on one event give every
race and every retry, the third, on another event, contends for the budget and the clock. A budget
of one is spent by the first POST; two clock readings give equal, forward and backward pairs; one
crash separates work before from work after it. *Explanations:* three requests fill the two
attempts of a decision and leave one too many, and two decisions compete for a budget that one of
them can spend. *Webhooks:* two
deliveries of one event race, a third is unrelated traffic; `kind` is chosen freely per event.
*Features:* with windows of 1, 2 and 3, times 0..4 put an event inside, exactly on and outside every
window, and three events give evictions of none, some and all. *Bundle* and *pipeline* bound no
number of runs; three versions are one below, one at and one above the pinned one. An archive may be
empty, of the limit's length or one chunk longer; two downloads compete for one path. *Policy:* three rows give
ties, order and every position of a threshold among them; scores on even numbers and roundings of one
keep rounded scores apart or join them; one policy leaves the grid whole and one thins it. The
evaluation bins are three, so that scores lie in, between and at both ends of them. *Simulation:* the draws are the
extremes of each range and points that put campaigns edge to edge, one step too close, or all at the same distance (555); quotas above nine retry events reach
every remainder that the shipped quotas can (`AfterHead`). Bounds that exist only for checking
are `MaxRestarts`, `MaxEvents` and `MaxVersion`. In `BundleArchive`, `Limit` and `MaxRedirects` stand for 16 MiB and five redirects; in the
policy modules `One`, the number of bins and the grid are small; `DrawPoints`, `Lengths` and `MaxQuota` bound the
draws of the generator. The proofs remove these bounds for what they prove: `MaxRestarts`, and the
number of events, requests and deliveries of the three services; the initial trees, the downloads,
`Limit` and `MaxRedirects` of the bundle; `MaxVersion`; the configurations, `DrawPoints`, `Lengths`
and `MaxQuota` of the generator; the events, times, tokens, windows and points of failure of the feature engine; `One`, the partitions, the batches, the costs and the roundings of
the policy.

The counterexamples of these properties were checked to exist: each property of a passing run is
paired in `PROJECT.json` ("mutants") with a plausible error in one modelled definition that breaks it.

`CHECK_DEADLOCK FALSE` appears where the system really comes to rest: all requests are answered, or
no more events are accepted, an archive could not be delivered, a dataset is finished or refused. The pipeline
and the policy programs never rest, and deadlock is checked there.

## 5. Fairness

**What is assumed of the database.** Every liveness property rests on one assumption that the code does not
guarantee: *every database call that is awaited ends*. A database that refuses or drops connections ends
them within seconds. A database that is frozen keeps its sockets open and answers nothing, and the
repository measured that neither the driver's `command_timeout` nor the `asyncio.timeout` of the checkout
route fires then (`api/routes/checkout.py:56-64`, `docs/BUILD_LOG.md:759-765`): a request lasts as long as its connection.

*Preflight* does not hide this in its fairness. `Fairness` there is `WF_vars(OnRazorpay(r))` alone: a POST
ends, since httpx has a timeout (`integrations/razorpay/client.py:28`), and asyncio resumes a task
whose awaited call has ended. What PostgreSQL has to answer is the hypothesis of the property:
`RequestsEndUnlessFrozen` says that no request waits for Razorpay for ever, whatever the database does, and that every
request ends if `DatabaseAnswers` holds, `WF_vars(OnDatabase(r))` for each request. Without the hypothesis
the second half is false: a request may stay "claiming" or "committed" for good. `StorageError` and `Unwind` show
the connection that dies; nothing requires them.

*Explanations* and *webhooks* have no measurement of their own and use the same session factory. Their fairness, `WF_vars(Handle(r))`
and, for webhooks, PostgreSQL's handling of what it was sent, `WF_vars(Server(d))`, contains the assumption:
`EveryRequestEnds` and `EveryDeliveryEnds` hold for databases that do not freeze. What they show is that no request
and no delivery waits for another one that never ends.

Nothing is assumed of failures, late commits, Razorpay's side of a POST, arrivals or crashes. The liveness
properties accept "the process died" as an end, and a failure is an end too (503 or 500).

## 6. Proofs

TLAPS checks 59 theorems and the lemmas below them, in eight modules, for every value of the constants that
satisfies the named assumptions.

| Assumption | Says |
| --- | --- |
| `ConstantsAssumption` (three modules), `RequestsFinite` | types; `NoOrder` is no request; clock readings are positive; the requests are finite where a cardinality occurs |
| `EngineAssumption` | windows are positive and increase; times and ids are naturals; only device and network may be missing |
| `BundleAssumption`, `ArchiveAssumption` | an initial tree gives every member its contents; types and non-negative limits of the archive |
| `PipelineAssumption` | the pinned version is one that can be generated |
| `ConfigsAssumption`, `DrawAssumption` | configurations are records of the stated shape; draws are natural numbers and windows last 30 to 90 minutes, as the code draws them |
| `OneAssumption`, `SelectionAssumption`, `PolicyAssumption` | probabilities and costs are integers, cases hold finitely many rows, which is what the loaders check, and rounding errors are integers of the grid; held-out rows have consistent labels and are in the order of their times (`ReportedRows`: `simulation/label_schema.py:51-64`, `modeling/data.py:464-467`), and a tree has arrays of one length, at least one (`TreeArrays`: `model.py:54-74`) |

TLC evaluates each of them in the run of its module.

**Preflight.** `IInv` (in `PreflightInvariant`) is needed because no safety property is inductive by
itself: that an event has one order depends on who may still POST, which depends on who owns the
row. Its parts: `Ownership` (a row exists exactly when one request has claimed it, and a request that
claimed nothing has decided nothing), `Stages` (what the owner's row, decision and POST look like
at each suspension point), `Dangling` (a late COMMIT still finds the row its writer left, because
no one else can finalise it), `FinalRows`, `OrderOrigin`, `Answers`, `EngineBehindHost` and
`BudgetSpent`. There is one lemma per action. The main results are `OneOrder`, `ScoredOnce`, `WithinBudget`,
`OrdersBelongToAllow`, `AllowBacked`, `AnswersAgree`, `ReviewQueue` and `TimestampsAccepted`.

**Refinement.** `ImplementsDecisionLedger`, proved as theorem `Refinement`, says that `Spec` implements `DecisionLedger`: a committed claim maps
to `Claim`, Razorpay's processing of a POST to `CreateOrder`, a committed final write, on time or late,
to `Finalise`, an answer to `Answer`, and everything else, crashes included, stutters. `RowsAdvance`
adds that a row goes from absent to pending to final and never back.

**Explanations.** The central fact is `MayClaim`: the number a handler is about to use was the first
free one when it read the attempts, and the attempts before it had failed; failed attempts never
change, so this remains true however long the handler sleeps, and the unique key decides the race for
the number itself. `Dangling` and `Ownership` treat late commits and owners as above. The results are
`OneCall`, `CallsBounded` (at most `MaxAttempts` calls for a decision, over all restarts),
`BudgetCounts`, `Chain`, `PendingOwned`, `DeniesOnly` and `NoCallOnceReady`.

**Webhooks.** `KeyHeld`: one transaction at a time holds the key of an event, and only while the
event is not stored. With `Stage`, what a transaction contains at each point, it gives `StoredOnce`,
`RowsAgree`, `AcceptedStored`, `Authentic` and `AppendOnly`.

**Feature engine.** Counters that are only increased and decreased are hard to reason about; a function of
the deque is not. `Summary` is that function, for the observations at any set of positions, and one lemma per method says
that it takes a summary to a summary: `CountedIs` and `UncountedIs` for one observation, `ReadmittedIs`,
`ObservedIs` and `RemovedIs` for the table of counters, `WithoutIs` and `WithIs` for a row of them (a counterexample of
least length cannot exist, by `NoFirstFailure`, which rests on the well-foundedness of finite subsets), `RestIs` for the positions
moving down as the head of the deque leaves. `EngineInv` then says that every index is
`Sound`, the summary of its own deque, and that the deque `Lists` the events of its window, each once, with everything that is
counted of them. So a rollback, which computes its way back through counters and times, arrives at the
very index it left (`RollbackIs`, `RestoredIs`, `FailureUndone`), a snapshot is a recount (`SnapshotIs`), and the validator of
`FeatureVector` is satisfied because longer windows contain shorter ones (`TruthNested`, `TruthBounded`).
The results are `CountersAgree`, `FeaturesCausal`, `FailuresLeaveNoTrace` and `EvictionsSucceed`: none of the
checks in `_remove_aggregate_reference` ever raises during an eviction.

**Bundle.** Three facts are needed to see that a rollback removes all it should and nothing else.
`Uses` says what needs what: a file its directory, a directory the one around it, the model manifest
the two files whose hashes it holds. `Trees` and `ManifestWasLast` say that what is used is there.
`Publishing` says that whatever is present and was not is in `created` or `made`, each directory
after the one around it; `Undoing` that whatever uses an entry of `undo` comes before it in the list. The list holds everything twice when
publication itself failed: the second half meets nothing, and the proof shows it. From `InstallerInv`
follow `FilesSurvive`, `RollbackIsExact` and `ManifestIsLast`, for any number of runs and kills from any
tree. `ArchiveInv` rests on ownership: until a download has created its file, the file is not its
own, and `O_EXCL` is why it stays so. It gives `ArchiveYieldsPinned`
and `WritersCleanUp` for any number of downloads. The installer's theorems
hold of the composition as well, because a delivery by definition leaves the tree alone (lemma `DeliveryInstalls`).

**Pipeline.** Versions only grow. A file that has the same version at two
instants was therefore not replaced between them, and what was read between them, if it stems from
that version or a newer one, stems from that version. `Ordered` states the first half for every file and for
what the programs hold; `Measured`, `Extracted` and `Loading` state the second, one conjunct per look
at the source or hash comparison that is still to come; `Publishing` and `Storing` say how far a
publication has got.

**Simulation.** `GeneratorInv` adds to the properties what is true between two draws: placed windows lie
on their side of the boundary (`Windows`), keep the gap and are no more than their side has places for (`Spacing`), and cutting a quota
into chains never leaves one event (`Chains`; with chains of two, what is left stays even). That
`CampaignsKeepToTheirSide` follows needs that the generator's test of regularity on windows, sorted by
start, agrees with the definition on neighbours (`RegularAlike`). Namespaces are told apart because the canonical form of an
accepted configuration leaves nothing out (`NothingIsLeftOut`). All of it holds for every accepted
configuration, quota and draw, where the run tries the shipped ones.
`LockedShapesValidate` adds up counts over the campaigns of a split. The sum of the library takes out one
arbitrary element after the other; that such a function exists and is unique (`AddsExists`, `AddsAgree`) and that the
order does not matter (`SumWithout`) are inductions over the number of elements, carried out with a least
counterexample (`PassedOn`). The campaigns of a quota have two sizes that differ by one, so every sum is
one of two values (`SumOfTwo`), which also shows that every quota is met exactly. What
remains are the numbers of the nine locked splits (`LockedShares`). The distribution checks hold
for the shipped rates of missing tokens and the shipped shift alone (`AsShipped`): the locked profiles fix neither
rate, and with enough missing device tokens the rotation would fail.

**Policy.** `PolicyInv` says that the threshold in the locked model is the best one for its data, that a published
band is the best its sweep could find, and that a
comparison which was approved had earned it. The first part is about orders: `_ranking_key` and the
threshold key are strict and total on finitely many candidates (`PrecedesIsStrict`, `PrecedesIsTotal`), so a first
one exists (`FirstComesFirst`), and every threshold whatsoever decides the rows as one of those that were tried (`TriedDecidesAlike`);
equal costs are settled by the further keys. For the sweep, ranks in a strict order of a finite set are the numbers from 0 on
(`Ranks`, by the pigeonhole theorems of the library), so that sorting lists every row once (`SortedRowsAre`);
the rows below a threshold are then an initial segment (`InitialPositions`), and the positions and prefix sums count the
same rows as `EvaluateBand` does (`PricedIs`, `EvaluatedIs`). A pair that is admitted although its thresholds are reversed flags
the same rows twice, and loses to the pair of its lower threshold alone (`SelectedBandIs`). Any other thresholds
decide like two that were tried (`SelectedIsBest`). The third part goes through the counts: the gates
compare rates rounded to basis points, so a passed ceiling bounds the exact rate only up to half a
basis point (`BasisPointsBound`), and that is what `ApprovalIsEarned` promises. Files may be replaced between any two programs.

**Reports.** `ReportsOfModel` says that a report that is there was computed from the model that is there;
the rest is about the computations. `ReportAddsUp` shows that the parts of the held-out report count the same rows:
bins cover `0 .. One` without overlap (`OneBin`), scenarios and campaigns divide the flagged rows (`SizesOfParts`, which
adds up the sizes of parts as was done for the campaigns of the simulation), nearest ranks grow with the percentile (`PercentilesGrow`), and the
first flagged row of a campaign cannot come before its first row. `StressMeasuresAlike` shows that the stress analysis measures
the same; its average precision runs over ranks and that of the report over scores, and without ties
a rank is the number of rows whose score is at least as high (`RanksCountLikeScores`).

**Trees.** `SearchInv` counts what is on the stack of `validate_tree`: a node waits to be left exactly when it
is active, and waits to be entered as often as it has parents that were entered, less one if it was entered itself. When the stack is
empty the counts are the numbers of parents, and everything that is closed downwards
has been entered (`AcceptedIsTree`). For a tree the counts exclude every error (`TreeNeverSticks`). Each round enters a node or leaves one,
so two rounds for each node suffice (`SearchEnds`, for all arrays, trees or not). A walk that meets no leaf meets no node
twice, since the root has no parent and the others one (`WalkMeetsNoNodeTwice`); with more
steps than nodes that contradicts the pigeonhole theorem (`WalkEndsInLeaf`). Search and walk are functions on
`Nat` that iterate one step; that they satisfy their equations is shown by gluing finite iterations together (`IterationExists`).

Proved and not part of a run: `CallsBounded`, `RowsAdvance`, `AppendOnly`, `RemovalsSucceed`,
`SearchEnds`, `TypeCorrect` (three times), `OrdersBelongToAllow`, `DeniesOnly`, `Authentic`, and the inductive invariants
themselves.

**Only model-checked.**

| Property | Why it is not proved |
| --- | --- |
| `RequestsEndUnlessFrozen`, `EveryRequestEnds`, `EveryDeliveryEnds` | liveness under fairness needs `ENABLED`, which the prover does not handle |
| the four statements of section 7 | they do not hold |

## 7. Where code and documentation disagree

1. **An order may be lost without a log line** (`services/preflight.py:220`, run `preflight_orphan`).
   Only `SQLAlchemyError` is logged; a timeout of the final write answers 503 silently, where
   `docs/ARCHITECTURE.md:248-250` promises the order's id in the log.
2. **REVIEW beside an order** (`integrations/razorpay/client.py:37`, run `preflight_review_order`). A read
   timeout becomes REVIEW although the order exists or will; `docs/ARCHITECTURE.md:170` says REVIEW creates none.
3. **Evidence that is not prior** (`services/dashboard.py:212`, run `explanations_evidence`). The facts
   sent for a decision count denials settled after it, against the docstrings at 157-164.
4. **An amount beyond 32 bits is an outage for ever** (`integrations/razorpay/schemas.py:42`, run
   `webhooks_storage`). Every redelivery is answered 503 although storage works.

Observed while modelling, with no run of their own:

* Comments present the driver's `command_timeout` as what bounds a frozen database: without it "the request never
  returns and the fail-safe never fires" (`db/session.py:21-24`), it "bounds every *statement*"
  (`core/config.py:25-27`). `api/routes/checkout.py:56-64` and `docs/BUILD_LOG.md:759-765` and `844-845` measured that
  with it in place the frozen case is still not bounded. The models follow the measurement (section 5).
* A generation that is killed while it overwrites a dataset may leave a directory that `validate_dataset_directory` refuses, so
  that every later overwrite ends in `existing_dataset_invalid` (`simulation/artifacts.py:240-242`) until an operator removes it.
  `ManifestVouches` is about feature and model manifests only.
* `docs/ARCHITECTURE.md:242-243` says duplicates are audited; `webhook_ingestion.py:64-65` stores nothing.
* A generation that failed may be answered 201 with another request's attempt: the answer is a fresh
  read (`services/explanations.py:256`, `api/routes/explanations.py:97-98`).
* A duplicate answered after a redeployment reports the threshold of the new model beside the old
  model's decision (`services/preflight.py:189`).
* An `OSError` during publication is rolled back twice (`runtime_bundle.py:1103-1110`); harmless, as
  `RollbackIsExact` and `FilesSurvive` show. Staging left by a kill is never removed.
* Two overlapping installers can undo each other's files; the docstring excludes them.
* Features cannot be overwritten after their dataset was regenerated; that is by design.
* A dataset replaced and put back between two hash checks would go unnoticed. The model excludes it:
  versions increase.

* Two builds of one output share its `.partial` file: one may truncate it between the other's hash check
  and its `os.replace` (`runtime_bundle.py:398-414`), which leaves a half-written archive at the output.
* `adversarial_stress.average_precision` sorts stably, so rows with equal scores count in the order of
  the file, where scikit-learn's function counts them as one group. `ReportsAgree` compares the two only without ties.
* A rate may exceed its ceiling by less than half a basis point, since gates compare rounded numbers.
* Retry bounds of 3..3 or 3..4 are accepted, and generation then fails for some seeds
  (`retry_quota_cannot_form_valid_chains`); `ChainsValidate` shows that 2..4 never does.
* Campaigns are placed greedily, so `campaign_placement_infeasible` may be raised although a placement
  exists. The generator tests regularity on the windows and the validator on the events in
  them: by chance a valid dataset may be refused.
* An evasion shape that spreads a campaign over four networks or more is accepted by the configuration and refused
  by the validator when campaigns have six events (`attack_network_coordination_too_sparse`);
  a smoke configuration may fail `test_entity_rotation_shift_missing`, since its shape is not locked.
* `select_band` admits pairs of thresholds by their positions among the rows, so also reversed ones of
  equal price; the tie-break never selects such a pair.

## 8. Not modelled

| Part | Why |
| --- | --- |
| Sanitizer, prompt and factors of explanations | text checks on one value; their verdict is a free choice |
| Drift | read-only arithmetic; binning and guards are planned, logarithms are out of reach |
| Probability arithmetic, fitting, log loss and Brier score | scikit-learn and floating point |
| HMAC, redaction of payloads | data that no property tells apart |
| ZIP arithmetic, spellings of member names, URLs | checks on one value; an archive is sound or not |
| Dashboard listings, layout of the graph, static files | read-only presentation |
| Entity tokens, amounts, channels and outcomes of simulated events | data that the modelled checks only count |
| Replay, reporting, blind-spot analysis, migrations, operational scripts | they only read, or run once |
| Staging directories, symbolic links | private to one run, or outside the trust boundary |

## 9. Plan

Done: preflight with its refinement and proofs, explanations, webhooks, feature engine, bundle archive and
installer, pipeline, policy, simulation, and the proofs of every safety property the passing runs
check. Next, in order of importance:

1. **Composition**: preflight with explanations over one ledger, so that `Record` and `Settle` become
   preflight's own steps.
2. **Partitions and joins** of the training loader: no customer on both sides of a split.
3. **Drift**: binning, the guards on small samples, the reference file.
4. **Coordination graph and dashboard** listings as read-only operators over the ledger.
