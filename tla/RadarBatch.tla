------------------------------ MODULE RadarBatch ------------------------------
(***************************************************************************)
(* run_radar_batch: one symbol after the other, each an uncoordinated      *)
(* run_single_symbol_radar with an HTTP client of its own.  An evaluation  *)
(* runs the profile's gates over facts that are loaded when first asked    *)
(* for and kept: the retained checkpoint, the current content and the      *)
(* lightweight observation.  The last two come from one acquired history,  *)
(* which the producer keeps.  The provider may revise what it serves at    *)
(* any moment, refuse, or fail; the process may die between two steps.     *)
(*                                                                         *)
(* A history is the content the provider served: the rows of the window,   *)
(* whose validity is an answer's.  The shipped gates carry the identity    *)
(* of their occurrence, so identity drift cannot happen to them.           *)
(***************************************************************************)
EXTENDS RadarObservation, InstrumentMappings, Sequences, FiniteSets

CONSTANTS
    Settings,       \* the compositions to look at, one per behaviour
    WindowLength,   \* sessions of a history
    MaxRetries,     \* of an HTTP client
    Revision,       \* observation revision of the build
    MaxBatches,     \* bound: batches
    MaxFaults,      \* bound: failed steps and crashes
    MaxRevisions    \* bound: revisions of a history by the provider

\* A gate of a profile; "other" stands for an implementation nobody binds.
Gate == [kind: {"trigger", "ema", "other"}, accepts: SUBSET Relations]

\* symbols: the caller's, in order, none twice; retained: what the checkpoint
\* files hold at first, by an earlier build or an earlier run.
Setting == [symbols: Seq(Symbols), profile: Seq(Gate), registry: Registry,
            retained: [Instruments -> Witness]]

\* The sessions an observation was made of, under this calendar.
Observed(w) == {d \in TradingDays : MarketOf(w).start <= d /\ d <= MarketOf(w).session}

\* A ticker of the instrument meant it, and nothing else, on all of them.
Ours(r, instrument, w) ==
    \A ticker \in TickersOf(r, instrument), label \in Observed(w) :
        /\ Meanings(r, ticker, label) # {}
        /\ \A m \in Meanings(r, ticker, label) : m.instrument = instrument

\* A complete state that is retained at first is one a decoder accepts, made under
\* the same document.
ASSUME BatchAssumption ==
    /\ Settings \subseteq Setting
    /\ \A s \in Settings :
          /\ s.profile # <<>> /\ s.symbols # <<>>
          /\ \A m, n \in DOMAIN s.symbols : s.symbols[m] = s.symbols[n] => m = n
          /\ \A i \in Instruments :
                s.retained[i].status = "PRESENT_COMPLETE_STATE" =>
                   Corresponds(s.retained[i].state) /\ Ours(s.registry, i, s.retained[i])
    /\ TradingDays \subseteq Starts
    /\ Revision \in Revisions
    /\ WindowLength \in Nat \ {0} /\ MaxRetries \in Nat
    /\ MaxBatches \in Nat /\ MaxFaults \in Nat /\ MaxRevisions \in Nat

VARIABLES
    setting,
    checkpoint,     \* [Instruments -> Witness], the checkpoint files
    market,         \* [Tickers -> Contents], what the provider serves now
    pc,             \* where the batch stands
    asOf,           \* its evaluation time
    items,          \* its results so far
    before,         \* history: the checkpoints when it began
    fact,           \* the facts of the current evaluation
    history,        \* what its producer holds
    results,        \* the results of its gates
    attempt,        \* of the current acquisition
    requests,       \* requests sent for the current evaluation
    proposal,       \* the state it is about to save
    batches, faults, revisions

evaluation == <<fact, history, results, attempt, requests, proposal>>
counters == <<batches, faults, revisions>>
vars == <<setting, checkpoint, market, pc, asOf, items, before, evaluation, counters>>

\* off: no batch runs; next: before an item; gate: its pipeline runs; over: the
\* pipeline is done; the others are steps of its application service.
Points == {"off", "next", "gate", "over", "prepare", "request", "save"}
Facts == {"prior", "content", "light"}

\* What a fact, or the producer, holds.
Unasked == [status |-> "UNASKED"]
Unavailable == [status |-> "UNAVAILABLE"]
Present(value) == [status |-> "PRESENT", value |-> value]

Failures == {"EXECUTION_ERROR", "CHECKPOINT_SAVE_FAILED", "OBSERVATION_PREPARATION_FAILED"}
Item == [symbol: Symbols, result: {"SAVED", "NOT_ADVANCED"} \cup Failures]

Init ==
    /\ setting \in Settings
    /\ checkpoint = setting.retained /\ before = setting.retained
    /\ market \in [Tickers -> Contents]
    /\ pc = "off" /\ asOf \in Times /\ items = <<>>
    /\ fact = [f \in Facts |-> Unasked] /\ history = Unasked
    /\ results = <<>> /\ attempt = 0 /\ requests = 0 /\ proposal = Absent
    /\ batches = 0 /\ faults = 0 /\ revisions = 0

NoFault == UNCHANGED faults
Fault == faults < MaxFaults /\ faults' = faults + 1

-----------------------------------------------------------------------------
\* The batch.

Symbol == setting.symbols[Len(items) + 1]
Instrument == InstrumentOf(setting.registry, Symbol)
Ticker == TickerOf(setting.registry, Instrument)

StartBatch ==
    /\ pc = "off" /\ batches < MaxBatches
    /\ batches' = batches + 1
    /\ asOf' \in Times
    /\ items' = <<>> /\ before' = checkpoint
    /\ pc' = "next"
    /\ UNCHANGED <<setting, checkpoint, market, evaluation, faults, revisions>>

\* What the batch makes of an exception.
Category(raised) ==
    CASE raised = "preparation" -> "OBSERVATION_PREPARATION_FAILED"
      [] raised = "advancement" -> "CHECKPOINT_SAVE_FAILED"
      [] OTHER                  -> "EXECUTION_ERROR"

\* Mutant: a failure escapes the loop and ends the batch.
EndItemAndBatchOnFailure(result) ==
    /\ items' = Append(items, [symbol |-> Symbol, result |-> result])
    /\ pc' = IF Len(items) + 1 = Len(setting.symbols) \/ result \in Failures THEN "off" ELSE "next"

\* The item is complete: the next symbol, or the response.
EndItem(result) ==
    /\ items' = Append(items, [symbol |-> Symbol, result |-> result])
    /\ pc' = IF Len(items) + 1 = Len(setting.symbols) THEN "off" ELSE "next"

Triggers == {n \in DOMAIN setting.profile : setting.profile[n].kind = "trigger"}

\* One trigger at most, every gate bound, every configuration accepted.
Resolvable ==
    /\ \A m, n \in Triggers : m = n
    /\ \A n \in DOMAIN setting.profile :
          /\ setting.profile[n].kind # "other"
          /\ setting.profile[n].kind = "ema" <=> setting.profile[n].accepts # {}

\* Everything before the first gate succeeds, or raises without having touched a
\* checkpoint.
BeginItem ==
    /\ pc = "next"
    /\ Selectable(setting.registry, Symbol) /\ Resolvable
    /\ fact' = [f \in Facts |-> Unasked] /\ history' = Unasked
    /\ results' = <<>> /\ attempt' = 0 /\ requests' = 0 /\ proposal' = Absent
    /\ pc' = "gate"
    /\ UNCHANGED <<setting, checkpoint, market, asOf, items, before, counters>>

RefuseItem ==
    /\ pc = "next"
    /\ ~(Selectable(setting.registry, Symbol) /\ Resolvable)
    /\ EndItem(Category("other"))
    /\ UNCHANGED <<setting, checkpoint, market, asOf, before, evaluation, counters>>

\* The document cannot be read, or the client not be made.
SetupFails ==
    /\ pc = "next" /\ Fault
    /\ EndItem(Category("other"))
    /\ UNCHANGED <<setting, checkpoint, market, asOf, before, evaluation, batches, revisions>>

-----------------------------------------------------------------------------
\* Facts, loaded when a gate, or the preparation, first asks for them.

Occurrence == setting.profile[Len(results) + 1]

LastResult == results[Len(results)]

\* The pipeline stops at the first result that is not PASS.
PipelineOver ==
    /\ results # <<>>
    /\ LastResult.disposition # "PASS" \/ Len(results) = Len(setting.profile)

\* The trigger looks at the prior session before it asks for the content.
Objects(prior) ==
    \/ prior.status = "UNAVAILABLE"
    \/ /\ HasMarket(prior)
       /\ MarketOf(prior).session \notin TradingDays \/ MarketOf(prior).session > LatestSession[asOf]

Asks(f) ==
    /\ fact[f] = Unasked
    /\ CASE pc = "gate" /\ f = "prior"   -> Occurrence.kind = "trigger"
         [] pc = "gate" /\ f = "content" ->
               Occurrence.kind = "trigger" /\ fact["prior"] # Unasked /\ ~Objects(fact["prior"])
         [] pc = "gate" /\ f = "light"   -> Occurrence.kind = "ema"
         [] OTHER                        -> pc = "prepare"

AsksForHistory == \E f \in {"content", "light"} : Asks(f)

\* A loader raised: the gate that asked has failed and with it the pipeline, which
\* is a response, or the preparation has.
LoaderError == IF PipelineOver THEN Category("preparation") ELSE "NOT_ADVANCED"

LoaderRaises ==
    /\ EndItem(LoaderError)
    /\ UNCHANGED <<setting, checkpoint, market, asOf, before, evaluation, batches, revisions>>

\* lookup_state, read once.
ReadPrior ==
    /\ Asks("prior")
    /\ fact' = [fact EXCEPT !["prior"] = checkpoint[Instrument]]
    /\ UNCHANGED <<setting, checkpoint, market, pc, asOf, items, before, history, results,
                   attempt, requests, proposal, counters>>

\* The root cannot be reached.
PriorUnavailable ==
    /\ Asks("prior")
    /\ fact' = [fact EXCEPT !["prior"] = Unavailable]
    /\ Fault
    /\ UNCHANGED <<setting, checkpoint, market, pc, asOf, items, before, history, results,
                   attempt, requests, proposal, batches, revisions>>

\* The file cannot be read or decoded.
PriorFails == Asks("prior") /\ Fault /\ LoaderRaises

\* The sessions of a history: the last WindowLength up to the latest.
Window(latest) ==
    {d \in TradingDays :
        /\ d <= latest
        /\ Cardinality({e \in TradingDays : d < e /\ e <= latest}) < WindowLength}

Labels == Window(LatestSession[asOf])
Covered == Cardinality(Labels) = WindowLength
WindowStart == CHOOSE d \in Labels : \A e \in Labels : d <= e

\* Mutant: what the ticker means is looked up for the latest session only.
LatestLabelOnly == {LatestSession[asOf]}

\* The labels the mapping is resolved for, each of them.
ResolvedLabels == Labels

\* The ticker did not mean this instrument at some label.
NotOurs == Conflicts(setting.registry, Instrument, Ticker, ResolvedLabels)
Broken == Interrupted(setting.registry, Ticker, ResolvedLabels)

\* No request is sent for a window that is not the instrument's.
RefuseWindow ==
    /\ AsksForHistory /\ history = Unasked
    /\ ~Covered \/ NotOurs
    /\ NoFault /\ LoaderRaises

SkipWindow ==
    /\ AsksForHistory /\ history = Unasked
    /\ Covered /\ ~NotOurs /\ Broken
    /\ history' = Unavailable
    /\ UNCHANGED <<setting, checkpoint, market, pc, asOf, items, before, fact, results,
                   attempt, requests, proposal, counters>>

Acquire ==
    /\ AsksForHistory /\ history = Unasked
    /\ Covered /\ ~NotOurs /\ ~Broken
    /\ pc' = "request" /\ attempt' = 1
    /\ UNCHANGED <<setting, checkpoint, market, asOf, items, before, fact, history, results,
                   requests, proposal, counters>>

\* Mutant: the producer acquires anew for each fact that is derived.
ProducerForgets(h) == Unasked

\* What the producer holds once a fact was derived from it.
ProducerKeeps(h) == h

Derived(f) ==
    IF history.status = "UNAVAILABLE" THEN Unavailable
    ELSE IF f = "content" THEN history
    ELSE Present(Observe(Revision, history.value, asOf))

\* A fact is derived from the history the producer holds, and kept.
DeriveFact(f) ==
    /\ f \in {"content", "light"} /\ Asks(f) /\ history # Unasked
    /\ fact' = [fact EXCEPT ![f] = Derived(f)]
    /\ history' = ProducerKeeps(history)
    /\ UNCHANGED <<setting, checkpoint, market, pc, asOf, items, before, results, attempt,
                   requests, proposal, counters>>

-----------------------------------------------------------------------------
\* One acquisition through the HTTP client.

\* Mutant: the first request is not counted among the retries.
AttemptsBesidesFirst == MaxRetries + 2

Attempts == MaxRetries + 1

\* Ways a request ends other than well: no connection or a time-out; 429; 408 or
\* one of the server's own; any other status; a response that is not what was asked for, or not valid;
\* a response with a further page, or without a session of the window.
Retried == {"network", "throttled", "outage"}
Trouble == Retried \cup {"refused", "malformed", "incomplete"}

\* Where the evaluation goes on once its history is there.
Resume == pc' = IF PipelineOver THEN "prepare" ELSE "gate"

Sent == requests' = requests + 1

\* There is no key, or Polygon knows no such ticker: nothing is sent.
Unsendable ==
    /\ pc = "request" /\ attempt = 1
    /\ Fault /\ LoaderRaises

Answered ==
    /\ pc = "request"
    /\ Sent /\ Resume
    /\ history' = Present([session |-> LatestSession[asOf], content |-> market[Ticker],
                           start |-> WindowStart])
    /\ UNCHANGED <<setting, checkpoint, market, asOf, items, before, fact, results, attempt,
                   proposal, counters>>

\* The client waits and sends the request again.
Retry ==
    /\ pc = "request" /\ attempt < Attempts
    /\ Sent /\ Fault
    /\ attempt' = attempt + 1
    /\ UNCHANGED <<setting, checkpoint, market, pc, asOf, items, before, fact, history,
                   results, proposal, batches, revisions>>

\* The content is not available now: an expected answer.
NotAvailable(trouble) ==
    /\ pc = "request"
    /\ \/ trouble \in {"network", "throttled"} /\ attempt = Attempts
       \/ trouble = "incomplete"
    /\ Sent /\ Resume /\ Fault
    /\ history' = Unavailable
    /\ UNCHANGED <<setting, checkpoint, market, asOf, items, before, fact, results, attempt,
                   proposal, batches, revisions>>

\* Any other trouble is an error of the loader.
RequestFails(trouble) ==
    /\ pc = "request"
    /\ \/ trouble = "outage" /\ attempt = Attempts
       \/ trouble \in {"refused", "malformed"}
    /\ Fault /\ Sent
    /\ EndItem(LoaderError)
    /\ UNCHANGED <<setting, checkpoint, market, asOf, before, fact, history, results, attempt,
                   proposal, batches, revisions>>

\* The provider corrects what it serves.
Revise(ticker, content) ==
    /\ revisions < MaxRevisions
    /\ content # market[ticker]
    /\ revisions' = revisions + 1
    /\ market' = [market EXCEPT ![ticker] = content]
    /\ UNCHANGED <<setting, checkpoint, pc, asOf, items, before, evaluation, batches, faults>>

-----------------------------------------------------------------------------
\* The gates.

Reasons ==
    OrdinaryReasons \cup Relations
    \cup {"UNCHANGED", "PRIOR_STATE_UNAVAILABLE", "CURRENT_CONTENT_UNAVAILABLE",
          "PRIOR_NOT_SESSION", "PRIOR_SESSION_AHEAD", "CURRENT_SESSION_MISMATCH",
          "INCOMPARABLE_CONTENT_SCOPE", "HISTORY_UNAVAILABLE"}

Result == [disposition: {"PASS", "DROP", "ATTENTION"}, reason: Reasons]

\* The trigger's reason, from its facts; one that objects to the prior has asked
\* for no content.
TriggerSays(prior, content) ==
    IF prior.status = "UNAVAILABLE" THEN "PRIOR_STATE_UNAVAILABLE"
    ELSE IF content.status = "UNAVAILABLE" THEN "CURRENT_CONTENT_UNAVAILABLE"
    ELSE TriggerReason(prior, asOf, content.value)

TriggerResult(reason) ==
    [disposition |-> IF reason \in OrdinaryReasons THEN "PASS"
                     ELSE IF reason = "UNCHANGED" THEN "DROP" ELSE "ATTENTION",
     reason |-> reason]

EmaResult(gate, light) ==
    IF light.status = "UNAVAILABLE"
    THEN [disposition |-> "ATTENTION", reason |-> "HISTORY_UNAVAILABLE"]
    ELSE [disposition |-> IF light.value.relation \in gate.accepts THEN "PASS" ELSE "DROP",
          reason |-> light.value.relation]

Verdict(gate, prior, content, light) ==
    IF gate.kind = "ema" THEN EmaResult(gate, light) ELSE TriggerResult(TriggerSays(prior, content))

\* A gate whose facts are there is judged; the pipeline goes on after PASS.
Judge ==
    /\ pc = "gate" /\ \A f \in Facts : ~Asks(f)
    /\ LET result == Verdict(Occurrence, fact["prior"], fact["content"], fact["light"]) IN
       /\ results' = Append(results, result)
       /\ pc' = IF result.disposition = "PASS" /\ Len(results) + 1 < Len(setting.profile)
                THEN "gate" ELSE "over"
    /\ UNCHANGED <<setting, checkpoint, market, asOf, items, before, fact, history, attempt,
                   requests, proposal, counters>>

-----------------------------------------------------------------------------
\* The application service, once the pipeline is over.

\* Mutant: the outcome is that of the first gate.
OutcomeOfFirst ==
    CASE results[1].disposition = "PASS" -> "SELECTED"
      [] results[1].disposition = "DROP" -> "FILTERED"
      [] OTHER                           -> "ATTENTION"

Outcome ==
    CASE LastResult.disposition = "PASS" -> "SELECTED"
      [] LastResult.disposition = "DROP" -> "FILTERED"
      [] OTHER                              -> "ATTENTION"

\* A trigger was executed and its result may move the checkpoint.
MayAdvance ==
    \E n \in Triggers \cap DOMAIN results : Advances(fact["prior"], results[n].reason, Outcome)

StartPreparation ==
    /\ pc = "over" /\ MayAdvance
    /\ pc' = "prepare"
    /\ UNCHANGED <<setting, checkpoint, market, asOf, items, before, evaluation, counters>>

DoNotAdvance ==
    /\ pc = "over" /\ ~MayAdvance
    /\ EndItem("NOT_ADVANCED")
    /\ UNCHANGED <<setting, checkpoint, market, asOf, before, evaluation, counters>>

\* Content and light observation correspond to each other and to the trigger.
Consistent(reason) ==
    /\ fact["content"].status = "PRESENT" /\ fact["light"].status = "PRESENT"
    /\ LET content == fact["content"].value
           light == fact["light"].value
       IN /\ CanPrepare(fact["prior"], reason, light, content)
          /\ light.session = content.session /\ light.content = content.content
          /\ light.start = content.start

PrepareState ==
    /\ pc = "prepare" /\ \A f \in {"content", "light"} : ~Asks(f)
    /\ \E n \in Triggers \cap DOMAIN results, stamp \in Stamps :
          IF Consistent(results[n].reason)
          THEN /\ proposal' = Prepare(fact["prior"], fact["light"].value, fact["content"].value,
                                      Outcome, stamp)
               /\ pc' = "save"
               /\ UNCHANGED items
          ELSE EndItem(Category("preparation")) /\ UNCHANGED proposal
    /\ UNCHANGED <<setting, checkpoint, market, asOf, before, fact, history, results, attempt,
                   requests, counters>>

Save ==
    /\ pc = "save"
    /\ checkpoint' = [checkpoint EXCEPT ![Instrument] = Complete(proposal)]
    /\ EndItem("SAVED")
    /\ UNCHANGED <<setting, market, asOf, before, evaluation, counters>>

\* The file is replaced as a whole or not at all, and a replacement that is reported
\* to have failed may have taken effect.
SaveFails ==
    /\ pc = "save" /\ Fault
    /\ \E state \in {checkpoint[Instrument], Complete(proposal)} :
          checkpoint' = [checkpoint EXCEPT ![Instrument] = state]
    /\ EndItem(Category("advancement"))
    /\ UNCHANGED <<setting, market, asOf, before, evaluation, batches, revisions>>

\* The process dies: its response and what it holds are gone.
Crash ==
    /\ pc # "off" /\ Fault
    /\ pc' = "off" /\ items' = <<>>
    /\ UNCHANGED <<setting, checkpoint, market, asOf, before, evaluation, batches, revisions>>

-----------------------------------------------------------------------------
LoadFact ==
    \/ ReadPrior \/ PriorUnavailable \/ PriorFails
    \/ RefuseWindow \/ SkipWindow \/ Acquire
    \/ \E f \in Facts : DeriveFact(f)

Exchange ==
    \/ Unsendable \/ Answered \/ Retry
    \/ \E trouble \in Trouble : NotAvailable(trouble) \/ RequestFails(trouble)

Next ==
    \/ StartBatch \/ BeginItem \/ RefuseItem \/ SetupFails
    \/ LoadFact \/ Exchange \/ Judge
    \/ StartPreparation \/ DoNotAdvance \/ PrepareState \/ Save \/ SaveFails \/ Crash
    \/ \E ticker \in Tickers, content \in Contents : Revise(ticker, content)

Spec == Init /\ [][Next]_vars

-----------------------------------------------------------------------------
\* The checkpoints, the items and the evaluation have their types.
BatchTypeOK ==
    /\ setting \in Settings
    /\ checkpoint \in [Instruments -> Witness] /\ before \in [Instruments -> Witness]
    /\ market \in [Tickers -> Contents]
    /\ pc \in Points /\ asOf \in Times
    /\ items \in Seq(Item) /\ Len(items) <= Len(setting.symbols)
    /\ fact \in [prior: Witness \cup {Unasked, Unavailable},
                 content: {Unasked, Unavailable} \cup [status: {"PRESENT"}, value: CurrentContent],
                 light: {Unasked, Unavailable} \cup [status: {"PRESENT"}, value: Light]]
    /\ history \in {Unasked, Unavailable} \cup [status: {"PRESENT"}, value: CurrentContent]
    /\ results \in Seq(Result) /\ Len(results) <= Len(setting.profile)
    /\ attempt \in 0..(MaxRetries + 1) /\ requests \in Nat
    /\ proposal \in {Absent} \cup ObservationState
    /\ batches \in 0..MaxBatches /\ faults \in 0..MaxFaults /\ revisions \in 0..MaxRevisions

\* What is about to be saved is what every gate saw: each result of the pipeline
\* follows from the checkpoint file as it is and from the proposed state alone,
\* whatever the provider changed meanwhile; so no preparation ever fails because
\* two of its facts were acquired apart.
OneView ==
    /\ pc = "save" =>
          \A n \in DOMAIN results :
             results[n] = Verdict(setting.profile[n], checkpoint[Instrument],
                                  Present(ContentOf(proposal)), Present(proposal.light))
    /\ \A n \in DOMAIN items : items[n].result # "OBSERVATION_PREPARATION_FAILED"

\* One evaluation sends at most as many requests as its client may try once,
\* however many of its gates, and its preparation, ask for the history.
RequestsAreBounded == requests <= MaxRetries + 1

\* A batch that answers says for every symbol, in the caller's order, what became
\* of it: SAVED is a checkpoint that changed to a complete state of that
\* evaluation, after CHECKPOINT_SAVE_FAILED it may have, anything else is a
\* checkpoint as it was when the batch began, and so is one not reached yet.
ItemsTellTheTruth ==
    /\ \A n \in DOMAIN items :
          /\ items[n].symbol = setting.symbols[n]
          /\ Selectable(setting.registry, items[n].symbol) =>
                LET i == InstrumentOf(setting.registry, items[n].symbol) IN
                \/ /\ items[n].result \in {"SAVED", "CHECKPOINT_SAVE_FAILED"}
                   /\ checkpoint[i] # before[i]
                   /\ checkpoint[i].status = "PRESENT_COMPLETE_STATE"
                   /\ checkpoint[i].state.light.asOf = asOf
                \/ items[n].result # "SAVED" /\ checkpoint[i] = before[i]
    /\ pc # "off" => \A n \in (Len(items) + 1)..Len(setting.symbols) :
          Selectable(setting.registry, setting.symbols[n]) =>
             LET i == InstrumentOf(setting.registry, setting.symbols[n]) IN
             checkpoint[i] = before[i]
    /\ pc = "off" /\ items # <<>> => Len(items) = Len(setting.symbols)

\* A ticker that was given to another instrument never lends one the history of
\* the other: two instruments that a document knows by one ticker hold complete
\* observations of disjoint sessions.
TickersAreNotStitched ==
    \A i, j \in Instruments :
        /\ i # j
        /\ checkpoint[i].status = "PRESENT_COMPLETE_STATE"
        /\ checkpoint[j].status = "PRESENT_COMPLETE_STATE"
        /\ TickersOf(setting.registry, i) \cap TickersOf(setting.registry, j) # {}
        => Observed(checkpoint[i]) \cap Observed(checkpoint[j]) = {}
-----------------------------------------------------------------------------
\* RadarBatch implements RadarEvaluation: a history is held from the answer that
\* brings it to the end of its item.

Held ==
    IF pc \notin {"off", "next"} /\ history.status = "PRESENT"
    THEN {[instrument |-> Instrument, history |-> history.value]} ELSE {}

Evaluation == INSTANCE RadarEvaluation WITH held <- Held

\* Through lazily loaded facts, retries, revisions, failed saves and crashes, a
\* checkpoint only ever moves as if its evaluation had happened in one step.
ImplementsEvaluation == Evaluation!Spec
=============================================================================
