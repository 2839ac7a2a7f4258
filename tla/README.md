# Verification of market-platform: Radar runs, delivery and governed evidence

`market-platform` is a Python library and command line for market research. Most
of it derives values from values. The part that keeps state over time, writes
files that must survive a crash, and can be wrong in ways no unit test reaches, is
the **Radar**: it observes an instrument once per completed session, remembers the
last accepted observation in a checkpoint file, and hands an observation that
changed on to research through a chain of durable delivery records. The part that
shares state between threads is the **governed daily pipeline**: services that pass a
piece of market evidence from construction to a technical strategy over append-only
histories, each behind its own lock, and decide by time stamps what was known when.
This directory models both in TLA+, model-checks them with TLC and proves their main
properties with TLAPS.

Paths below are relative to `src/src/market_platform/` unless they start with `docs/`
or `tests/`.

## 1. The system

### 1.1 Inventory

| Part | State | Operations | Hard behaviour | What makes it correct |
|---|---|---|---|---|
| Radar application (`radar/application.py`) | none of its own; reads and replaces the checkpoint | `evaluate` = recover, load facts, run gates, prepare a state, publish | one call is many file operations | the session never goes back; a saved result is durable; only selected or filtered runs advance |
| Candidate delivery (`application/radar_candidate_delivery.py`) | four kinds of immutable records | `recover`, `publish` | crash or failure between any two writes; an uncoordinated writer | every prepared source is resolved exactly as it was published, or refused |
| Delivery store (`application/radar_candidate_delivery_store.py`) | one directory shared by all instruments | publish and read records, inventory scan, `unresolved`, `resolve_pending` | several owners scanning and linking | complete records only, no broken record graph |
| Checkpoint store (`radar/checkpoint_store.py`, `radar/observation*.py`) | one file per instrument | `lookup_state`, `save`, `save_state` | `os.replace` may fail after it took effect | atomic replacement |
| Trigger, calendar, meaningful change, eligibility (`radar/trigger.py`, `radar/calendar.py`, `radar/meaningful_change.py`, `application/radar_candidate.py`) | none | pure decisions | five modules judge the same facts at different moments | they agree; comparisons only within one definition |
| Pipeline, context, resolver, current content (`radar/pipeline.py`, `radar/context.py`, `radar/resolver.py`, `radar/current_content.py`) | facts and one history, memoised during one evaluation | run gates in profile order, acquire a window of sessions | a provider that revises its answer between two gates | one view of each fact per evaluation |
| Single-symbol and batch runs (`application/radar_single_symbol.py`, `application/radar_batch.py`) | the items of the response so far | compose providers, service and stores, symbol by symbol | one failing symbol, at any step | one item per symbol, which says what became of its checkpoint |
| Trusted mappings (`instruments/`, `application/instrument_mapping_codec.py`) | a document | which instrument a symbol names, what a ticker meant on a day | a ticker that changes its instrument inside a window | no history of another instrument |
| Escalation readiness (`application/radar_research_escalation.py`) | none; reads pending work | prepare a readiness decision | reads while owners publish | only authenticated pending work |
| Production evidence governance (`application/polygon_completed_daily_production_*.py`) | eleven append-only in-memory histories, a non-reentrant lock each | construct, validate, evaluate, admit, activate, qualify, bridge, analyse, interpret, assess, derive a strategy | two readings per publication, decisions over several histories at a cutoff, locks taken one by one | a use rests on what was decided and known before it, and stays what it was; no circle of waiting |
| Evidence foundation and ingress (`evidence/`, `evidence_ingress/`) | immutable values | admission, validity, supersession, ingress | cut-offs, equal timestamps | a decision depends only on what was known |
| Market data (`data/`) | cache, health | fetch with retry and fallback | retries that multiply; an answer that is an error, or none yet | bounded attempts; the right error wins |
| Execution planning, risk, trading, trading state | immutable values | derivation chains | order of authorisation steps | nothing is authorised that was not checked |
| Replay (`replay/`, `application/historical_replay_*`) | artifact files | run, compare, publish an artifact | crash while publishing | never a partial or lost artifact |
| Research, strategy, structure, signals, indicators, state, observation | immutable values | numeric derivations | boundaries | agreement with a reference definition |
| CLI, agent exposure, config, logging, stubs (`ai`, `charts`, `storage`, `utils`) | none | argument parsing, presentation | - | - |

### 1.2 How the Radar parts interact

`RadarApplicationService.evaluate` is one synchronous call. With a coordinator it is:

1. `recover`: scan all delivery records; if one source of this instrument is
   unresolved, compare the checkpoint file with the source's proposal and with its
   predecessor, publish it if it is not published yet, complete it, or refuse.
2. The trigger gate compares the retained checkpoint with the current content; later
   gates select or filter. Only some outcomes advance.
3. `_prepare_state` derives the lightweight observation, classifies the change
   against the retained one, and stamps the completion time.
4. `publish`: refuse if anything is unresolved; write the **prepared** record; check
   that the checkpoint is still the predecessor; replace the **checkpoint**; write
   the **accepted** record, then the **decision**, and for an eligible source the
   **pending** record.

Without a coordinator step 1 is missing and step 4 is a plain `save_state`. Two
entry points ship: `run_single_symbol_radar` builds the service without a
coordinator (`application/radar_single_symbol.py:206`), and `run_radar_batch` calls
it for each instrument. The coordinated composition is opt-in and exercised by
`tests/unit/test_radar_candidate_delivery.py`. The two may therefore meet on one
checkpoint file, which `docs/adr/0051...:379` calls a bypass writer.

A batch makes an HTTP client and a loader of facts for each symbol. The gates ask for
facts by key: the retained checkpoint, the current content, the lightweight
observation. The last two are derived from one history, which a producer acquires from
Polygon when it is first asked: 250 sessions up to the latest, under the one ticker
the document gives the instrument, and only if the ticker meant that instrument on
every one of them. The producer and the context keep what they got, value or error, to
the end of the evaluation. An error of a loader in a gate ends the pipeline as FAILED,
which is a response; an error after the pipeline is an exception, which the batch files
under one of three categories before it goes on with the next symbol.

### 1.3 How the governed services interact

Each service has a private history: a sequence of immutable occurrences behind a
non-reentrant lock. An operation reads the histories before its own, decides, reads the
clock (completion), stages an occurrence, reads the clock again under its own lock
(availability) and appends. Nothing is ever changed or removed; what is visible at a
cutoff is what has `available_at <= cutoff`.

* `validation` runs its concerns one by one, each an occurrence of its own, holding
  nothing in between; `freshness` likewise looks the construction up and lets go.
* `admission` holds the locks of construction, validation and freshness from its first
  reading to its publication, and takes its own lock twice in between: to read the
  predecessor and to retain.
* `validity` holds construction, admission and its own; there is one activation per version.
* `qualification` looks at all five histories under their locks, lets go, has `freshness`
  evaluate the task, locks everything again and decides at the analysis time on what was
  known at the cutoff; the snapshot itself is retained.
* `bridge` and `technical` lock the whole chain, find the retained use and resolve it
  again: the snapshot at its cutoff must read as it was retained.
* `interpretation`, `assessment` and `strategy` take the locks of all histories before
  theirs in one frozen order, stage a record, and authenticate it against everything it
  rests on before they publish it; a failure withdraws what was staged. Their readers
  (`get_result_history_as_of`) authenticate every record they return once more, so
  one record that no longer fits refuses the whole history.

## 2. The modules

| Module | Models | State and actions |
|---|---|---|
| `RadarObservation` | the pure decisions: trigger, advancement rule, meaningful change, `_prepare_state`, the validators of a source, eligibility | operators only |
| `RadarCandidateDelivery` | one instrument's owner: `evaluate` with or without the coordinator, checkpoint file and records | `checkpoint`, `prepared`, `accepted`, `decisions`, `pending` are the files; `pc`, `mode`, `task`, `report` the running call; one action per file operation |
| `CandidateHandoff` | what the owner promises: a visible observation, at most one source owed, settled in one step | `Replace`, `Settle` |
| `RadarDeliverySharedRoot` | the directory: temporary files, hard links, read-back, unlink, and the scan of every owner | `entries`, `whole` are the directory; the rest is per owner |
| `RecordRoot` | what the directory promises the owners, with no files: records that appear at once, in order and for good, each owner's only after a look at the root that it trusts | `StartLook`, `Look`, `Trust`, `Publish`, `Leave` |
| `GovernedEvidence` | eight services of the governed pipeline, their histories, locks and clocks, called by several threads | `hist` and `owner` are the histories and who holds their locks; `call` is what each thread executes; `now`, `latest`, `scenario` are the clock; one action per lock taken and per critical region or reading outside one |
| `GovernedConclusions` | interpretation, assessment and strategy over the histories of `GovernedEvidence`, which it extends: a thread concludes while others call the eight services | `kept`, `pending` are the three histories and what they have staged; `lock` holds the eleven locks for conclusions; `work` is what each thread concludes; one action per lock, derivation, reading and publication |
| `AsOfArchive` | what the eleven histories promise whoever asks what was known at an instant, with no locks, stagings or clock: logs that are only added to, at or after a frontier that never moves back | `Elapse`, `Retain` |
| `DailyTechnicalDecisions` | the three policies: directional states, evidence, findings, outcome and strategy of a snapshot | operators only |
| `InstrumentMappings` | the mapping document: which instrument a symbol names, what a ticker meant over a window | operators only |
| `RadarBatch` | a batch without a coordinator: selection, gates, facts, the acquired history, HTTP attempts, preparation and save, per symbol | `pc`, `items` are the batch; `fact`, `history`, `results`, `attempt`, `requests`, `proposal` the current evaluation; `checkpoint` the files; `market` what the provider serves |
| `RadarEvaluation` | what an evaluation promises about a checkpoint, with no facts, requests or failures: one step on one history of its own instrument, or nothing | `Take`, `Advance`, `Drop` |
| `RadarCandidateDeliveryProofs` | safety theorems of `RadarCandidateDelivery` | |
| `RadarCandidateDeliveryRefinement` | proof that `RadarCandidateDelivery` implements `CandidateHandoff` | |
| `RadarObservationProofs` | the observation rules: validators, transitions, sessions | |
| `RadarDeliverySharedRootProofs` | theorems of `RadarDeliverySharedRoot`, and that it implements `RecordRoot` | |
| `GovernedEvidenceProofs` | types and lock order of `GovernedEvidence` | |
| `GovernedEvidenceHistoryProofs` | what the histories of `GovernedEvidence` say stays consistent | |
| `GovernedConclusionsProofs` | all properties of `GovernedConclusions`; that the histories implement `AsOfArchive` | |
| `RadarBatchProofs` | the properties of `RadarBatch`, its types, and that it implements `RadarEvaluation` | |
| `MCRadarCandidateDelivery`, `MCRadarDeliverySharedRoot`, `MCGovernedEvidence`, `MCGovernedConclusions`, `MCRadarBatch` | the instances TLC checks | |

### 2.1 Correspondence and abstractions

* **Files.** A delivery record's name is the fingerprint of its source (prepared,
  accepted, decision) or of its candidate (pending). Records are immutable and a
  second publication of the same record changes nothing, so each kind of record is
  a set, and a name conflict exists only for pending records (`PersistPending`).
* **Steps.** Each file operation of the code is one action; a reading that follows
  another reading by the same owner without a write between them is part of the same
  action. A failing operation has two forms: it failed with its effect (the second
  disjunct of `PersistPrepared`, `SaveCheckpoint` and so on) or without (`StepFails`).
  A call returns or raises (`report`), the process may die between any two steps
  (`Crash`), and restart is simply the next `Begin`.
* **One instrument, one profile, one policy.** Nothing in one owner's records
  depends on another instrument, and the code has exactly one eligibility policy
  value. What instruments do share, the directory, is `RadarDeliverySharedRoot`.
* **Values.** A session is a number; a content identity, history start and
  completion stamp are model values; definition, calculation revision and schema
  always change together and are one `revision`. The EMA relation of a content is a
  constant function. A value the code refuses stands for the exception.
* **Pipeline.** In `RadarCandidateDelivery` the gates after the trigger are arbitrary:
  `OutcomesAfter` is the set of outcomes a traversal can end with, given the trigger's
  reason. `RadarBatch` runs the gates that ship, one by one, in any profile.
* **Facts.** A fact is unasked, unavailable or present; a gate is judged (`Judge`) once
  every fact it asks for is there, in the order it asks (`Asks`), so a load, the requests
  behind it and the verdict are steps of their own and the provider may change in between.
  A history is the content served for the window; the validity of its rows is a way an
  answer can be ("malformed", "incomplete"), and a ticker stands for a symbol and a
  venue. The document is read again for each symbol; it does not change during a run.
* **Shared root.** All sources are eligible, so the record sequence is always the
  full one; contents of records and the checkpoint are left to the other module.
  Reading a record is one step with its `lstat`, because nothing ever removes a record.
  An unlink that fails is suppressed: the publication stands, the temporary file stays, and
  the run counts it as a fault.
* **Governed records.** An occurrence has a subject (the construction, use or bridge it is
  about), its completion, its availability and the details the decisions look at. A
  record is identified by its content in the code, so two executions that say the same
  are one record: a concern's record is told by its completion, an evaluation by its
  time, and equal admissions count once (`Distinct`). Each construction is a version of
  its own, because its artifact version contains its time stamps.
* **Clocks.** All services read one wall clock (`_utc_now`). `Kinds` says what it may do:
  readings of availability later than all before (`distinct`), equal readings (`tied`),
  or a clock set back (`adjusted`). Two readings with no change in between are one.
* **Decisions.** Every concern passes and the material precedes every analysis date: a
  decision is refused for what is missing, late, stale or in conflict, not for what the
  evidence says. Every check that fails is in `Refused`, and a refused call keeps what it
  has retained. `Midnight` and `FreshDates` stand for the recency window in New York dates.
* **Conclusions.** What the code compares field by field when it authenticates a record is
  the equality of the record with what its sources would give now, read at the record's own
  cutoff (`Authenticates`). The snapshot a strategy rests on is one record of the numbers the
  policies look at; each is an integer, because a policy only compares them.
* **History variables.** `published` (states ever made visible) and the counters `faults`,
  `plain` are not in the code, nor are `before`, `batches` and `revisions` in
  `RadarBatch`; they state properties and bound the state space.

## 3. Runs

Every property has a mutant: a plausible bug in one mapped definition, kept in the
module just before the definition it changes, that makes TLC find the property
violated.

| Run (`.cfg`) | Question | Bounds | Result |
|---|---|---|---|
| `recovery` (`MCDeliveryRecovery`) | Can recovery always tell what happened, do errors tell the truth, do the files implement the hand-off? | 3 sources, 2 faults, 2 sessions, 2 contents, 2 stamps, no plain run | holds, about 227,000 states |
| `mixed_owners` (`MCDeliveryMixed`) | What still holds with an uncoordinated run of the same instrument? | 3 sources, 1 fault, 1 plain run | holds, about 1.76 million states |
| `liveness` (`MCDeliveryLiveness`) | Does every prepared source end resolved? Is the name of its pending record free when it is due? | 3 sources, 2 faults, distinct stamps | holds, about 160,000 states |
| `observation_rules` (`MCDeliveryObservation`) | Do the validators agree, is a delivered transition genuine, can the session go back? | 3 dates of which 2 are sessions, 3 contents, 2 scopes, 2 revisions with an upgrade, 2 sources, 1 fault | holds, about 94,000 states |
| `upgrade` (`MCDeliveryUpgrade`) | Can a settled instrument always be evaluated? | 2 sources, no fault, 2 revisions | **violated** (finding 1) |
| `shared_root` (`MCSharedRoot`) | Does an atomic listing ever show a broken record graph? | 2 owners, 1 source and 2 temporary names each, 1 fault | holds, about 164,000 states |
| `shared_root_torn` (`MCSharedRootTorn`) | With torn listings: partial records, disappearing names? Does the directory implement the root that its owners rely on? | the same | holds, about 474,000 states |
| `shared_root_independence` (`MCSharedRootIndependence`) | Are instruments independent in the shared root? | 2 owners, no fault | **violated** (finding 2) |
| `governed` (`MCGoverned`) | Does a use rest on what governance had decided, does it stay resolvable, is every snapshot closed, do admissions chain? | 2 threads, 2 rules, three scenarios: 8 calls against 2 with distinct readings, the same with ties and one move of the clock, 8 calls with a replay against 1 with two moves, one of which may set the clock back | holds, about 2.25 million states |
| `governed_ties` (`MCGovernedTied`) | Is a retained use independent of what is published after it? | the second scenario | **violated** (finding 3) |
| `conclusions` (`MCConclusions`) | While two threads draw conclusions: does every history stay readable, is every record explained by what was known, does anything stay staged, do answers stand, can eleven locks be waited for in a circle? Is the past of every history settled (`AsOfArchive`)? And do the policies decide every snapshot? | five scenarios: a pipeline with conclusions of two threads and a failing clock; a validation of the version in between, with distinct readings and with ties; a clock set back; about 1,600 snapshots around the thresholds | holds, about 446,000 states |
| `batch` (`MCBatch`) | Is what is saved what every gate saw, are the requests bounded, does the response tell the truth about every checkpoint, is the history of a reused ticker kept apart? Does a checkpoint only move as if its evaluation had happened in one step (`RadarEvaluation`)? | 16 settings of one or two symbols, 4 trading days with windows of 2, 2 batches, 3 faults, 1 retry, 1 revision by the provider | holds, about 514,000 states |

*Why the bounds are enough.* Three sources are one settled, one in progress and one
that starts from its proposal, so a second publication can be confused with the
first; with two completion stamps the same state can recur. Two faults interrupt a
publication and then its recovery. One plain run is enough to put a foreign state
between a crash and its recovery. The three initial checkpoints are those the code
distinguishes: absent, content-only, complete. In the directory, one source of two
instruments already makes every pair of publication steps interleave with every
step of a scan; two temporary names per owner allow a leftover of a crash besides
the one in use. Symmetry is used in the directory runs only, where the two owners
are interchangeable: their properties are invariants and one refinement of steps
(`ImplementsRecordRoot`), all of which treat the owners alike, and none speaks of liveness. In the governed pipeline two threads are
the most that meet in one pair of histories, and the second re-validates and re-admits
the version while the first is anywhere in the pipeline; two rules make a profile that
can be seen half done; `Horizon = 1` lets a qualification ask for the current reading and
the one before it, and `Midnight` lies where the slowest interleavings cross it. A clock
with distinct readings is moved by the publications themselves. For the conclusions, a second
thread reaches every pair of services that share a history, and one faulty reading is
enough to leave a call between staging and publication; the snapshots take every threshold
of the policies and both neighbours. In a batch, three faults exhaust the two attempts of one
acquisition and still fail a later step; two batches show the second one what the first
retained; a window of two of four days lets a ticker change its instrument inside the window,
before it and after it; one revision can fall between any two gates. The proofs do not depend on any bound.

*Fairness.* `FairSpec` has weak fairness on `OwnerStep`: the caller evaluates the
instrument again after a call has ended (each scheduled run is such a call), and a
call that nothing interrupts goes on to its end, as straight-line code does. Nothing
is assumed of faults, crashes, upgrades or plain runs. The liveness run excludes
repeated completion stamps: two sources with an identical state would compete for one
pending name and the second would fail for ever (with repeated stamps TLC finds that in three
sources: away from a state, and back to it at the same time); the wall clock
of the composition (`_completion_clock`) does not repeat for evaluations minutes apart.
Deadlock is checked in every run but `batch`, which ends when its batches have run; none is
reachable.

*Listings.* `NoOrphanSeen` needs a listing that reflects one moment, which a directory
read in a single system call gives. POSIX does not promise it for a directory that
takes several; with `TornListing` the orphan is reachable and the scan then refuses,
which is safe and transient.

### 3.1 Findings

1. *Upgrade blocks the root.* A candidate embeds an observation whose calculation
   revision must be the running build's (`application/radar_candidate.py:196`), also when
   it is merely decoded from an old record. After a new revision is installed, the
   inventory scan of any owner in that root fails on the first delivered candidate, and
   every coordinated evaluation is refused, although ADR 0049 (decision 9) asks for a
   fresh, incomparable baseline in exactly this case.
2. *Instruments are not independent in the shared root.* The scan calls `lstat` on
   every listed name, temporary files of other instruments included
   (`application/radar_candidate_delivery_store.py:268`); if such a file is unlinked first,
   the scan fails and so does the call. It is transient; ADR 0051 (decision 16) promises
   that different instruments remain independent while it also leaves overlapping
   schedulers to a later decision.

3. *A use can be erased by a record of the same instant.* The bridge resolves a retained
   use by taking the snapshot at its cutoff again
   (`application/polygon_completed_daily_production_bridge.py:600-616`). A record published
   after the qualification whose availability equals the cutoff, because the clock gave
   the same reading twice or was set back, joins that snapshot, and the use is refused
   from then on, although ADR 0039 says that prior use is not erased by what comes later.
   With distinct readings the property holds (`DistinctReadingsKeepUses`).

A clock set back can also fork the admissions of a version, because the predecessor is
looked up by time: a record that is not yet visible at the earlier reading is not followed.
`AdmissionsFormOneChain` is therefore stated for clocks that are not set back.

## 4. Proofs

`RadarCandidateDeliveryProofs` proves, for every choice of the constants (any calendar,
contents, revisions, initial checkpoints, and any number of sources, faults and plain
runs), that `Inductive` is an invariant of `Spec`. None of the interesting properties is
inductive alone: that recovery finds at most one outstanding source depends on what a
running call knows at each point. `Inductive` therefore adds

* `CallInv`: which calls can be at which point, and that a running call has reported nothing;
* `TaskInv`: the source in hand is the only outstanding one; before the save the
  checkpoint is its predecessor, after it its proposal; once it is decided it is accepted;
* `VisibleWasPublished`: a prepared source that is visible was put there by a save.

The proof has one lemma per action, each with one step per conjunct the action can
disturb; `UnresolvedIsOutstanding` connects the store's own `is_resolved` with what the
records say, which is where `LinksCoherent` is needed. From `Inductive` follow
`TypeCorrect`, `OneSourceOutstanding`, `InventoryStaysCoherent`,
`OnlyPublishedIsAccepted`, `RecoveryComesFirst`, `SavedMeansSettled`, and the action
properties `SavesAreWriteAhead` and `CompletionsAreVisible`. Under the assumption
`MaxPlain = 0` (no bypass writer, ADR 0051 decision 16) it also yields `AlwaysReconcilable`,
`DenialsAreTrue` and `OverwritesWait`; the `recovery` run checks the same instance, and
with a plain run these three are indeed false.

With an invariant of its own, `TimesDiffer`, it also gives `NoNameIsLost`: it is enough that
completion times differ for the names of pending records, which `_filename` derives from the candidate
alone, never to collide, whatever fails and whoever else runs.

`RadarCandidateDeliveryRefinement` proves under the same assumption that the owner
implements `CandidateHandoff`. The refinement mapping makes a source *owed* while it
is visible and outstanding, and *settled* once its last record exists; the save is
`Replace`, the record that resolves a source is `Settle`, everything else stutters.

`RadarObservationProofs` proves a second invariant over the first, `ObservedInv`: every
retained state is about one observation (`Corresponds`), and a proposal on its way to the
checkpoint names the reason that follows from its predecessor. From it follow
`ValidatorsAlwaysAgree` (the argument is that the prior lightweight observation *is* the
market predecessor, so the trigger's reason and the evaluator's cannot differ),
`SessionsNeverGoBack`, and with `LinksCoherent` `DeliveredTransitionsAreGenuine`. All three hold
with plain runs, faults and upgrades.

`RadarDeliverySharedRootProofs` proves `DirectoryInv` for any number of owners, sources and
temporary names: a publishing owner holds its own temporary file, complete once written;
what vanished from a running scan is another owner's temporary file; the directory is a
closed record graph at every moment, because an owner links its records in publication
order. `RecordsAreWhole` and `OnlyTemporariesVanish` follow also for torn listings;
`NoScanSeesAnOrphan` assumes `TornListing = FALSE`. `SharedRootImplementsRecordRoot` maps the
directory to `RecordRoot`: its records are the permanent names, a look begins with the listing and
is over when it is read; `os.link` is `Publish`, the end of a scan that found a closed graph is `Trust`,
temporary files, read-back and unlink stutter. That a torn look lies between the directory as it
began and as it ended is the abstract module's `Sights`. From the same invariant `OwnersSeeTheirOwn`:
a scan, torn or not, shows an owner exactly the records of its own instrument that exist. It is
what lets `RadarCandidateDelivery` read the whole inventory of its instrument in one step.

`GovernedEvidenceProofs` and `GovernedEvidenceHistoryProofs` treat the pipeline with any number of
threads, rules and scripted calls. Six invariants build on one another:

* `TypeInv` adds to `TypeOK` which history a call writes at each of its points (`Leg`), without
  which a staged occurrence could be appended to a history of another kind.
  `LatestIsGreatest` is where choosing the latest of a set of times needs the set to be bounded.
* `LockInv` says which histories a thread has locked at each point (`Regions`), that what it
  still waits for completes that region, and that every lock it waits for comes after all it holds
  (`Orderly`). From it `LocksAreTakenInOrder`: `WaitsClimb`, so no circle of waiting exists.
* `GroundInv` says that whatever an occurrence was decided from was available when it was
  completed, for retained occurrences and for staged ones, with the locks between the two
  moments released in places. Since a completion is never later than its availability,
  `SnapshotsAreClosed` follows, for every kind of clock.
* `KeptInv` says that a retained or staged use reads, at its cutoff, what it was qualified on,
  and that what any thread is about to append became available after every such cutoff. The second
  half needs the locks (nobody is about to append to an input history while a use is decided,
  `LockInv`) and distinct readings (an availability is later than all readings before it; that is
  what fails in finding 3). With `GroundInv` it gives `UsesAreKept`.
* `VouchedInv` says, of retained and of staged occurrences, that an admission selected for each
  rule a validation known when it was decided, and that a use rests on an activation, that on an
  admission and that on validations, each known before the next (`GovernedUse`). It is inductive
  because a staged occurrence says the same until it is retained, its availability aside
  (`SaysTheSame`), and because retained ones never change. It gives `GovernanceComesFirst`.
* `ChainInv`, for a clock that is not set back, says that an admission in hand is `InLine`: its call
  holds the construction lock, which keeps other issuers out although the admission lock is let go
  in between, everything retained was available when it was decided, and what it is about to append
  follows the last of its version. `LastIsEffective` shows, by well-founded induction, that in a chain
  the resolution of the lineage yields the last record and no other. It gives `AdmissionsAreChained`.

`GovernedConclusionsProofs` carries these invariants over to the conclusions, where a thread holds
locks of two kinds, those of a governed call it makes and those of its conclusion:

* every step of a conclusion leaves the governed histories as they are, and every governed
  step leaves the conclusions as they are, so the invariants of `GovernedEvidence` hold of the
  whole (`GovernedTypes`, `GovernedLocks`, `GovernedGround`, `GovernedUses`, `GovernedVouched`,
  `GovernedDescent`); with them `ConclusionsTyped`;
* `TakingInv` says which locks a conclusion holds at each point and that it takes them in the
  frozen order; `ElevenLocksAreTakenInOrder` follows for governed calls and conclusions together.
  Of threads that all waited for one another one would wait for the highest lock, whose holder waits
  for a higher one: `NobodyWaitsInACircle`, for circles of any size;
* `StagedInv` says that an occurrence is staged only by the call that holds the lock of its
  history, so `StagingEndsWithItsCall`: no path through a call, a failed reading of the clock
  included, leaves one behind;
* `FoundedInv` says of every conclusion, retained or staged, that its source is retained and was
  known when its call began, and of an interpretation that the line behind its analysis (bridge,
  use, construction) was known no later than the analysis. The line itself comes from
  `GovernedEvidenceHistoryProofs`: an analysis that still resolves has one (`ResolvedRests`, from
  `VouchedInv` and `DescentInv`: what a call is asked about is retained, and it completes after it
  starts), and an interpretation is only derived while every analysis resolves. So
  `ConclusionsExplained`, whatever the clock does;
* `DerivingAuthenticates`: with distinct readings a call that holds its locks finds everything it
  reaches in order, since every analysis still resolves (`KeptInv`), every conclusion is founded
  (`FoundedInv`) and nobody else can have staged in a service below its own (`TakingInv`,
  `StagedInv`). Hence `NoHistoryIsRefused`;
* `StandingInv` says that an instant answered for has been read, and that whatever is about to be
  appended to that history became known after it. A call stamps while it holds the lock of its
  history, the reading is later than every earlier one, and what an occurrence goes back to never
  changes (`ArtifactStays`), so `AnswersAreFinal`;
* `ConclusionsImplementArchive` maps all eleven histories to `AsOfArchive`. The frontier of a
  history is the stamp of the occurrence that somebody is about to append to it, and otherwise what
  the clock may still return (`NextReading`: a later reading, the greatest again, or, where it may be set
  back, anything `Publishable` admits). `FrontierInv` makes it inductive: a stamp in hand is at or after
  all its history holds and no later than the latest reading. That at most one stamp is in hand for a
  history needs the lock to be held from the reading to the append (`OneHandPerHistory`,
  `OneHandPerConclusion`). `StampsAre`, `AppendsAre` and `PublishesAre` say what each governed step does to what is
  in hand, so that every step adds to one history at most (`OneHistoryMoves`). As an action
  property `ThePastIsSettled`: no step adds, loses or changes an occurrence known before the
  frontier. This is why a cutoff may be read once and used after the locks were let go. With tied
  readings the frontier is the latest reading itself and not the one after it: that one instant is
  where finding 3 lies;
* `SnapshotsAreDecided` and `ActiveMeansUnqualified` hold of every snapshot, not only those
  around the thresholds: the policies are finite cases over comparisons of integers.

`RadarBatchProofs` treats a batch with any document, calendar, window length, profile, list of
symbols, number of retries, faults and revisions of what the provider serves. Again four invariants:

* `ShapeInv` has the types and what is known at each point of an evaluation (`BatchTypesCorrect`);
* `RequestInv` ties the requests to the attempts of one acquisition: a history that is there is
  never asked for again, so `RequestsStayBounded`;
* `ViewInv` says that each result is what its gate would say of the facts as they are now
  (`Grounded`). It is inductive because a fact that a gate has asked for is never replaced, one that
  is loaded later was not used before, and content and light observation both come from the one
  history the producer keeps. `RetainedInv` says that a complete checkpoint is about one window, all
  of it its instrument's. Together they show that the checks of `_prepare_state` never fail
  (`PreparationSucceeds`) and give `OneViewHolds`; and, since the sessions that were resolved are
  exactly those between the first and the last of the window (`WindowIsAnInterval`, by well-founded
  induction on the number of later sessions), `NoTickerIsStitched`;
* `ItemInv` says what each item, and each symbol not reached yet, says of its checkpoint;
  `ItemsAreTrue` follows. A save touches one checkpoint, and two symbols of one batch never select
  the same instrument; that the saved state differs from the one it replaces needs the trigger's
  reasons.

`BatchImplementsEvaluation` uses all four to map a run to `RadarEvaluation`: the response that completes
a history is `Take`, the save is `Advance`, and since each recorded result is `Grounded` in that history
and in the checkpoint as it still is, the pipeline that ended gate by gate ends the same way when it
is judged at once. What a gate concludes is written out in `RadarEvaluation` independently of
facts (`Disposition`), and `Meant` there is the reading of the document over the whole window that
`WindowIsAnInterval` provides.

Assumptions used: `ObservationAssumption`, `DeliveryAssumption`, `SharedRootAssumption`,
`GovernedAssumption`, `ConclusionsAssumption`, `MappingAssumption` and `BatchAssumption`: the types
of the constants, and that an initial complete checkpoint satisfies what
`RadarObservationState.__post_init__` enforces on every decode. `BatchAssumption` adds that such a
checkpoint was made under the document the batch reads: a document whose past was rewritten between two
runs can contradict what was retained before. TLC evaluates them in every run.

*Only model-checked.* Liveness under fairness and `ENABLED` are outside the prover's
reach, and so are inductions over recursively defined data; no module here uses
`RECURSIVE`. So `EveryPreparedSourceResolves` is checked by TLC only. All the other
properties of the passing runs are proved. The inductive invariants themselves
(`Inductive`, `ObservedInv`, `DirectoryInv`, and those of the later modules) are stronger than what the
runs check; being proved for every instance, they are not run again.

## 5. Not modelled

* Corrupt or foreign files in the roots (the code fails closed on all of them), record
  encoding, permissions and power loss (the store disclaims directory fsync).
* Two processes on one instrument: excluded by the single-owner rule. The re-check
  before the save is modelled, but nothing can intervene between it and the save.
* Concurrent batches of one instrument (excluded like two owners), gates that do not ship,
  and the content of provider rows.
* In the governed pipeline: the readers of the eight governed histories,
  `resolve_retained_material`, retained objects changed in place, and concerns that reject
  the material.
* The market-data service with its provider fallback and cache, which only the command line
  uses: the fallback is one pass over a list whose every condition is its own guard, and nothing
  reads a cached file while it is written.
* Parsing and normalisation of provider responses, indicators, structure and the other numeric
  analytics, replay, risk and execution planning: derivations of immutable values from immutable
  values. What could be said of them is a restatement of their arithmetic.
* All parts marked `not_modelled` in `PROJECT.json`, with the reason there.

## 6. Plan

Order of work, the most important behaviour first.

1. *Done:* `RadarObservation`, `RadarCandidateDelivery`, `CandidateHandoff`,
   `RadarDeliverySharedRoot`, the runs above, the safety and refinement theorems.
2. *Done:* the theorems about the observation rules and the shared root.
3. *Done:* `GovernedEvidence` up to the technical analysis; its types and all its properties
   that hold proved.
4. *Done:* `GovernedConclusions` and `DailyTechnicalDecisions`; all their properties proved.
5. *Done:* `InstrumentMappings` and `RadarBatch`: memoised facts, the acquired history, HTTP
   retries and the isolation of symbols; its properties proved.
6. *Done:* the abstract modules `RecordRoot`, `RadarEvaluation` and `AsOfArchive`, each with the proof
   that its detailed module implements it.
7. *Left, models:* `resolve_retained_material`; escalation readiness over the delivery records; the
   publication of replay artifacts with crashes; evidence admission with supersession,
   withdrawal and conflicts.
