--------------------------- MODULE RadarBatchProofs ---------------------------
(***************************************************************************)
(* What a batch guarantees for any document, profile, calendar, number of  *)
(* symbols, retries, faults and revisions of what the provider serves.     *)
(***************************************************************************)
EXTENDS RadarBatch, FiniteSetTheorems, WellFoundedInduction, TLAPS

\* The order of the natural numbers, as a relation.
Smaller == {p \in Nat \X Nat : p[1] < p[2]}

LEMMA SmallerIsWellFounded == IsWellFoundedOn(Smaller, Nat)
BY NatLessThanWellFounded DEF OpToRel, Smaller

-----------------------------------------------------------------------------
(* The window of a history *)

\* How many sessions of a window are later than d.
Later(d, latest) == {e \in TradingDays : d < e /\ e <= latest}

LEMMA LaterIsFinite ==
    ASSUME NEW d \in TradingDays, NEW latest \in TradingDays
    PROVE  IsFiniteSet(Later(d, latest)) /\ Cardinality(Later(d, latest)) \in Nat
<1>1. TradingDays \subseteq Int
    BY ObservationAssumption
<1>2. IsFiniteSet(d..latest)
    BY <1>1, FS_Interval
<1>3. Later(d, latest) \subseteq d..latest
    <2>1. \A e \in Later(d, latest) : e \in Int /\ d <= e /\ e <= latest
        BY <1>1 DEF Later
    <2> QED BY <1>1, <2>1
<1>4. IsFiniteSet(Later(d, latest))
    BY <1>2, <1>3, FS_Subset
<1> QED BY <1>4, FS_CardinalityType

\* An earlier session has more sessions after it.
LEMMA EarlierHasMore ==
    ASSUME NEW a \in TradingDays, NEW b \in TradingDays, NEW latest \in TradingDays,
           a < b, b <= latest
    PROVE  Cardinality(Later(b, latest)) < Cardinality(Later(a, latest))
<1>1. TradingDays \subseteq Int
    BY ObservationAssumption
<1>2. IsFiniteSet(Later(a, latest))
    BY LaterIsFinite
<1>3. Later(b, latest) \subseteq Later(a, latest)
    <2>1. \A e \in TradingDays : b < e => a < e
        BY <1>1
    <2> QED BY <2>1 DEF Later
<1>4. b \in Later(a, latest) /\ b \notin Later(b, latest)
    BY <1>1 DEF Later
<1>5. Later(b, latest) # Later(a, latest)
    BY <1>4
<1>6. Cardinality(Later(b, latest)) < Cardinality(Later(a, latest))
    <2>1. Cardinality(Later(b, latest)) \in Nat /\ Cardinality(Later(a, latest)) \in Nat
        BY LaterIsFinite
    <2>2. /\ Cardinality(Later(b, latest)) <= Cardinality(Later(a, latest))
          /\ Cardinality(Later(a, latest)) = Cardinality(Later(b, latest))
                => Later(a, latest) = Later(b, latest)
        BY <1>2, <1>3, FS_Subset
    <2> QED BY <1>5, <2>1, <2>2
<1> QED BY <1>6

\* A window that has sessions has a first one, and is all sessions from there to
\* the latest.
LEMMA WindowIsAnInterval ==
    ASSUME NEW latest \in TradingDays, Window(latest) # {},
           NEW start, start = CHOOSE d \in Window(latest) : \A e \in Window(latest) : d <= e
    PROVE  /\ start \in TradingDays
           /\ Window(latest) = {d \in TradingDays : start <= d /\ d <= latest}
<1> DEFINE Ranks == {b \in Nat : \E d \in Window(latest) :
                                     b + Cardinality(Later(d, latest)) = WindowLength}
<1>0. TradingDays \subseteq Int /\ WindowLength \in Nat
    BY ObservationAssumption, BatchAssumption
<1>1. \A d \in Window(latest) :
          /\ d \in TradingDays /\ d <= latest
          /\ Cardinality(Later(d, latest)) \in Nat
          /\ Cardinality(Later(d, latest)) < WindowLength
    BY LaterIsFinite DEF Window, Later
<1>2. Ranks \subseteq Nat /\ Ranks # {}
    <2>1. PICK d \in Window(latest) : TRUE
        OBVIOUS
    <2>2. /\ WindowLength - Cardinality(Later(d, latest)) \in Nat
          /\ (WindowLength - Cardinality(Later(d, latest))) + Cardinality(Later(d, latest)) = WindowLength
        BY <1>0, <1>1, <2>1
    <2> QED BY <2>1, <2>2
<1>3. PICK least \in Ranks : \A b \in Ranks : ~ (<<b, least>> \in Smaller)
    <2> HIDE DEF Ranks
    <2> QED BY <1>2, SmallerIsWellFounded, WFMin
<1>4. \A b \in Ranks : ~ (b < least)
    BY <1>2, <1>3 DEF Smaller
<1>5. PICK first \in Window(latest) : least + Cardinality(Later(first, latest)) = WindowLength
    BY <1>3
<1>6. \A e \in Window(latest) : first <= e
    <2>0. \A d \in Window(latest) : d \in Int
        BY <1>0, <1>1
    <2> SUFFICES ASSUME NEW e \in Window(latest), e < first PROVE FALSE
        BY <1>5, <2>0
    <2>1. Cardinality(Later(first, latest)) < Cardinality(Later(e, latest))
        BY <1>1, EarlierHasMore
    <2> DEFINE b == WindowLength - Cardinality(Later(e, latest))
    <2>2. b \in Ranks
        BY <1>0, <1>1
    <2>3. b < least
        BY <1>0, <1>1, <1>5, <2>1
    <2> QED BY <1>4, <2>2, <2>3
<1>7. start \in Window(latest) /\ \A e \in Window(latest) : start <= e
    BY <1>6
<1>8. ASSUME NEW d \in TradingDays, start <= d, d <= latest
      PROVE  d \in Window(latest)
    <2>0. d \in Int /\ start \in Int
        BY <1>0, <1>1, <1>7
    <2>1. CASE d = start
        BY <1>7, <2>1
    <2>2. CASE start < d
        <3>1. Cardinality(Later(d, latest)) < Cardinality(Later(start, latest))
            BY <1>1, <1>7, <1>8, <2>2, EarlierHasMore
        <3>2. Cardinality(Later(d, latest)) < WindowLength
            BY <1>0, <1>1, <1>7, <3>1, <1>8, LaterIsFinite
        <3> QED BY <1>8, <3>2 DEF Window, Later
    <2> QED BY <1>0, <1>1, <1>7, <1>8, <2>0, <2>1, <2>2
<1> QED BY <1>1, <1>7, <1>8

-----------------------------------------------------------------------------
(* Settings and values *)

\* The instrument of a symbol that may be evaluated, and of no other symbol.
LEMMA SelectionIsOne ==
    ASSUME NEW r \in Registry, NEW symbol \in Symbols, Selectable(r, symbol)
    PROVE  /\ InstrumentOf(r, symbol) \in Instruments
           /\ TickersOf(r, InstrumentOf(r, symbol)) = {TickerOf(r, InstrumentOf(r, symbol))}
           /\ \A other \in Symbols :
                 Selectable(r, other) /\ InstrumentOf(r, other) = InstrumentOf(r, symbol)
                    => other = symbol
<1>1. ASSUME NEW y \in Symbols, Selectable(r, y)
      PROVE  \E l \in r.listings : /\ l.symbol = y /\ InstrumentOf(r, y) = l.instrument
                                   /\ l \in Listing
                                   /\ \E ticker \in Tickers : TickersOf(r, l.instrument) = {ticker}
    <2>1. PICK l \in ListedAs(r, y) :
             ListedAs(r, y) = {l} /\ \E ticker \in Tickers : TickersOf(r, l.instrument) = {ticker}
        BY <1>1 DEF Selectable
    <2>2. l \in r.listings /\ l.symbol = y /\ \A k \in r.listings : k.symbol = y => k = l
        BY <2>1 DEF ListedAs
    <2>3. (CHOOSE k \in r.listings : k.symbol = y) = l
        BY <2>2
    <2>4. InstrumentOf(r, y) = l.instrument
        BY <2>3 DEF InstrumentOf
    <2>5. r.listings \subseteq Listing
        BY DEF Registry
    <2> QED BY <2>1, <2>2, <2>4, <2>5
<1>2. PICK l \in r.listings :
         /\ l.symbol = symbol /\ InstrumentOf(r, symbol) = l.instrument /\ l \in Listing
         /\ \E ticker \in Tickers : TickersOf(r, l.instrument) = {ticker}
    BY <1>1
<1>3. l.instrument \in Instruments
    BY <1>2 DEF Listing
<1>4. TickersOf(r, l.instrument) = {TickerOf(r, l.instrument)}
    <2>1. PICK ticker \in Tickers : TickersOf(r, l.instrument) = {ticker}
        BY <1>2
    <2> QED BY <2>1 DEF TickerOf
<1>5. ASSUME NEW other \in Symbols, Selectable(r, other),
             InstrumentOf(r, other) = InstrumentOf(r, symbol)
      PROVE  other = symbol
    <2>1. PICK k \in r.listings : k.symbol = other /\ InstrumentOf(r, other) = k.instrument
        BY <1>1, <1>5
    <2>2. k = l
        BY <1>2, <1>5, <2>1 DEF Registry
    <2> QED BY <1>2, <2>1, <2>2
<1> QED BY <1>2, <1>3, <1>4, <1>5

LEMMA SettingFacts ==
    ASSUME NEW s \in Settings
    PROVE  /\ s.symbols \in Seq(Symbols) /\ s.symbols # <<>>
           /\ s.profile \in Seq(Gate) /\ s.profile # <<>>
           /\ s.registry \in Registry /\ s.retained \in [Instruments -> Witness]
           /\ \A m, n \in DOMAIN s.symbols : s.symbols[m] = s.symbols[n] => m = n
           /\ \A i \in Instruments :
                 s.retained[i].status = "PRESENT_COMPLETE_STATE" =>
                    Corresponds(s.retained[i].state) /\ Ours(s.registry, i, s.retained[i])
<1>1. s \in Setting
    BY BatchAssumption
<1>2. /\ s.symbols \in Seq(Symbols) /\ s.profile \in Seq(Gate)
      /\ s.registry \in Registry /\ s.retained \in [Instruments -> Witness]
    BY <1>1 DEF Setting
<1>3. /\ s.profile # <<>> /\ s.symbols # <<>>
      /\ \A m, n \in DOMAIN s.symbols : s.symbols[m] = s.symbols[n] => m = n
      /\ \A i \in Instruments :
            s.retained[i].status = "PRESENT_COMPLETE_STATE" =>
               Corresponds(s.retained[i].state) /\ Ours(s.registry, i, s.retained[i])
    BY BatchAssumption
<1> QED BY <1>2, <1>3

\* What a lookup can find.
LEMMA WitnessIs ==
    ASSUME NEW w \in Witness
    PROVE  /\ w.status \in {"ABSENT", "LEGACY_CONTENT_ONLY", "PRESENT_COMPLETE_STATE"}
           /\ w.status = "ABSENT" => w = Absent
           /\ w.status = "PRESENT_COMPLETE_STATE" => w.state \in ObservationState
           /\ HasMarket(w) => MarketOf(w) \in Market
           /\ PriorLight(w) \in Light \cup {NoLight}
BY DEF Witness, Absent, HasMarket, MarketOf, PriorLight, ObservationState

LEMMA PreparedTypes ==
    ASSUME NEW w, PriorLight(w) \in Light \cup {NoLight}, NEW light \in Light,
           NEW c \in CurrentContent, NEW outcome \in CommittedOutcomes, NEW stamp \in Stamps
    PROVE  Prepare(w, light, c, outcome, stamp) \in ObservationState
<1>1. Classify(PriorLight(w), light) \in Classifications
    BY DEF Classify, Classifications
<1>2. [session |-> c.session, content |-> c.content, start |-> c.start, observedAt |-> stamp]
        \in Market
    BY DEF Market, CurrentContent
<1>3. [prior |-> PriorLight(w), classification |-> Classify(PriorLight(w), light)] \in Change
    BY <1>1 DEF Change
<1> QED BY <1>2, <1>3 DEF Prepare, ObservationState

LEMMA ObservedTypes ==
    ASSUME NEW c \in CurrentContent, NEW time \in Times
    PROVE  Observe(Revision, c, time) \in Light
BY ObservationAssumption, BatchAssumption DEF Observe, Light, CurrentContent

-----------------------------------------------------------------------------
(* Types *)

Running == pc \in Points \ {"off", "next"}

\* The pipeline is over and the evaluation goes on.
Preparing == pc = "prepare" \/ (pc = "request" /\ PipelineOver)

\* Types, and what holds at each point of an evaluation: who is running has been
\* selected, and is past its pipeline exactly where the code is.
ShapeInv ==
    /\ BatchTypeOK
    /\ pc # "off" => Len(items) < Len(setting.symbols)
    /\ Running => Selectable(setting.registry, Symbol) /\ Resolvable
    /\ pc = "gate" => ~PipelineOver
    /\ pc \in {"over", "prepare", "save"} => PipelineOver
    /\ Preparing => Outcome \in CommittedOutcomes
    /\ pc = "request" => Covered
    /\ pc = "save" => proposal \in ObservationState

LEMMA SymbolTyped ==
    ASSUME ShapeInv, pc # "off"
    PROVE  /\ Symbol \in Symbols /\ Len(items) + 1 \in DOMAIN setting.symbols
           /\ Len(items) \in Nat
<1>1. setting \in Settings /\ items \in Seq(Item) /\ Len(items) < Len(setting.symbols)
    BY DEF ShapeInv, BatchTypeOK
<1>2. setting.symbols \in Seq(Symbols)
    BY <1>1, SettingFacts
<1> QED BY <1>1, <1>2 DEF Symbol

LEMMA InstrumentTyped ==
    ASSUME ShapeInv, Running
    PROVE  Instrument \in Instruments
<1>1. pc # "off"
    BY DEF Running
<1>2. setting.registry \in Registry /\ Selectable(setting.registry, Symbol)
    BY SettingFacts DEF ShapeInv, BatchTypeOK
<1> QED BY <1>1, <1>2, SymbolTyped, SelectionIsOne DEF Instrument

\* While its pipeline runs there is a gate to run.
LEMMA OccurrenceTyped ==
    ASSUME ShapeInv, pc = "gate"
    PROVE  /\ Len(results) + 1 \in DOMAIN setting.profile /\ Occurrence \in Gate
           /\ Occurrence.kind \in {"trigger", "ema"}
           /\ results # <<>> => LastResult.disposition = "PASS"
<1>1. setting.profile \in Seq(Gate) /\ setting.profile # <<>>
    BY SettingFacts DEF ShapeInv, BatchTypeOK
<1>2. results \in Seq(Result) /\ Len(results) <= Len(setting.profile) /\ ~PipelineOver
    BY DEF ShapeInv, BatchTypeOK
<1>3. Len(results) # Len(setting.profile)
    <2>1. CASE results = <<>>
        BY <1>1, <2>1
    <2>2. CASE results # <<>>
        BY <1>2, <2>2 DEF PipelineOver
    <2> QED BY <2>1, <2>2
<1>4. Len(results) + 1 \in DOMAIN setting.profile
    BY <1>1, <1>2, <1>3
<1>5. Occurrence \in Gate
    BY <1>1, <1>4 DEF Occurrence
<1>6. Occurrence.kind # "other"
    BY <1>4 DEF ShapeInv, Running, Points, Resolvable, Occurrence
<1> QED BY <1>2, <1>4, <1>5, <1>6 DEF PipelineOver, Gate

ItemResults == {"SAVED", "NOT_ADVANCED"} \cup Failures

LEMMA CategoryTyped ==
    /\ \A raised : Category(raised) \in ItemResults
    /\ LoaderError \in ItemResults
BY DEF Category, LoaderError, ItemResults, Failures

\* An item that ends is one more item.
LEMMA EndItemShape ==
    ASSUME ShapeInv, pc # "off", NEW result \in ItemResults, EndItem(result)
    PROVE  /\ items' = Append(items, [symbol |-> Symbol, result |-> result])
           /\ items' \in Seq(Item) /\ Len(items') = Len(items) + 1
           /\ Len(items') <= Len(setting.symbols)
           /\ pc' \in {"off", "next"}
           /\ pc' # "off" => Len(items') < Len(setting.symbols)
           /\ pc' = "off" => Len(items') = Len(setting.symbols)
           /\ ~Running' /\ ~Preparing' /\ pc' \in Points
<1>1. items \in Seq(Item) /\ Len(items) < Len(setting.symbols)
    BY DEF ShapeInv, BatchTypeOK
<1>2. [symbol |-> Symbol, result |-> result] \in Item
    BY SymbolTyped DEF Item, ItemResults
<1>3. items' = Append(items, [symbol |-> Symbol, result |-> result])
    BY DEF EndItem
<1> DEFINE item == [symbol |-> Symbol, result |-> result]
<1> HIDE DEF item
<1>4. items' \in Seq(Item) /\ Len(items') = Len(items) + 1
    <2>1. item \in Item /\ items' = Append(items, item)
        BY <1>2, <1>3 DEF item
    <2> QED BY <1>1, <2>1
<1>5. pc' = IF Len(items) + 1 = Len(setting.symbols) THEN "off" ELSE "next"
    BY DEF EndItem
<1>6. Len(setting.symbols) \in Nat
    <2>1. setting.symbols \in Seq(Symbols)
        BY SettingFacts DEF ShapeInv, BatchTypeOK
    <2> QED BY <2>1
<1>7. pc' \in {"off", "next"} /\ ~Running' /\ ~Preparing' /\ pc' \in Points
    BY <1>5 DEF Running, Preparing, Points
<1> QED BY <1>1, <1>3, <1>4, <1>5, <1>6, <1>7

\* What an item's end leaves of the types, whatever else it leaves alone.
LEMMA EndKeepsShape ==
    ASSUME ShapeInv, pc # "off", NEW result \in ItemResults, EndItem(result),
           UNCHANGED <<setting, market, asOf, before, fact, history, results, attempt, proposal>>,
           requests' \in Nat, faults' \in 0..MaxFaults, batches' = batches, revisions' = revisions,
           checkpoint' \in [Instruments -> Witness]
    PROVE  ShapeInv'
<1>1. BatchTypeOK'
    BY EndItemShape DEF ShapeInv, BatchTypeOK, Result
<1>2. /\ pc' # "off" => Len(items') < Len(setting'.symbols)
      /\ ~Running' /\ ~Preparing' /\ pc' \in {"off", "next"}
    BY EndItemShape
<1> QED BY <1>1, <1>2 DEF ShapeInv

LEMMA FaultTyped ==
    ASSUME ShapeInv, Fault
    PROVE  faults' \in 0..MaxFaults
BY BatchAssumption DEF ShapeInv, BatchTypeOK, Fault

LEMMA InitShape ==
    ASSUME Init
    PROVE  ShapeInv
<1>1. setting \in Settings /\ setting.retained \in [Instruments -> Witness]
    BY SettingFacts DEF Init
<1>2. BatchTypeOK
    <2>1. fact \in [prior: Witness \cup {Unasked, Unavailable},
                    content: {Unasked, Unavailable} \cup [status: {"PRESENT"}, value: CurrentContent],
                    light: {Unasked, Unavailable} \cup [status: {"PRESENT"}, value: Light]]
        BY DEF Init, Facts
    <2>2. setting.profile \in Seq(Gate) /\ setting.symbols \in Seq(Symbols)
        BY <1>1, SettingFacts
    <2> QED BY <1>1, <2>1, <2>2, BatchAssumption DEF Init, BatchTypeOK, Points
<1> QED BY <1>2 DEF Init, ShapeInv, Running, Preparing

LEMMA StartBatchShape ==
    ASSUME ShapeInv, StartBatch
    PROVE  ShapeInv'
<1>1. setting.symbols \in Seq(Symbols) /\ setting.symbols # <<>> /\ setting' = setting
    BY SettingFacts DEF ShapeInv, BatchTypeOK, StartBatch
<1>2. items' \in Seq(Item) /\ Len(items') < Len(setting'.symbols) /\ pc' = "next"
    BY <1>1 DEF StartBatch
<1>3. BatchTypeOK'
    BY <1>1, <1>2, BatchAssumption DEF ShapeInv, BatchTypeOK, StartBatch, evaluation, Points
<1> QED BY <1>2, <1>3 DEF ShapeInv, Running, Preparing

LEMMA BeginItemShape ==
    ASSUME ShapeInv, BeginItem
    PROVE  ShapeInv'
<1>1. BatchTypeOK'
    <2>1. fact' \in [prior: Witness \cup {Unasked, Unavailable},
                     content: {Unasked, Unavailable} \cup [status: {"PRESENT"}, value: CurrentContent],
                     light: {Unasked, Unavailable} \cup [status: {"PRESENT"}, value: Light]]
        BY DEF BeginItem, Facts
    <2>2. setting.profile \in Seq(Gate)
        BY SettingFacts DEF ShapeInv, BatchTypeOK
    <2> QED BY <2>1, <2>2, BatchAssumption DEF ShapeInv, BatchTypeOK, BeginItem, counters, Points
<1>2. /\ pc = "next" /\ pc' = "gate" /\ results' = <<>>
      /\ items' = items /\ setting' = setting
      /\ Selectable(setting.registry, Symbol) /\ Resolvable
    BY DEF BeginItem
<1>3. Symbol' = Symbol /\ Resolvable' = Resolvable
    BY <1>2 DEF Symbol, Resolvable, Triggers
<1>4. ~PipelineOver'
    BY <1>2 DEF PipelineOver
<1> QED BY <1>1, <1>2, <1>3, <1>4 DEF ShapeInv, Running, Preparing

\* Items that end before, or without, a save.
Ends == \/ RefuseItem \/ SetupFails \/ PriorFails \/ RefuseWindow \/ Unsendable \/ DoNotAdvance
        \/ \E trouble \in Trouble : RequestFails(trouble)

LEMMA EndsAre ==
    ASSUME Ends
    PROVE  /\ pc # "off"
           /\ \E result \in {"NOT_ADVANCED", "EXECUTION_ERROR", LoaderError} : EndItem(result)
           /\ UNCHANGED <<setting, market, asOf, before, fact, history, results, attempt, proposal,
                          batches, revisions, checkpoint>>
           /\ requests' = requests \/ (pc = "request" /\ requests' = requests + 1)
           /\ faults' = faults \/ Fault
<1>1. pc # "off"
    BY DEF Ends, RefuseItem, SetupFails, PriorFails, RefuseWindow, Unsendable, DoNotAdvance,
           RequestFails, Asks, AsksForHistory
<1>2. \E result \in {"NOT_ADVANCED", "EXECUTION_ERROR", LoaderError} : EndItem(result)
    <2>1. Category("other") = "EXECUTION_ERROR"
        BY DEF Category
    <2>2. \/ EndItem(Category("other")) \/ EndItem("NOT_ADVANCED") \/ EndItem(LoaderError)
        BY DEF Ends, RefuseItem, SetupFails, PriorFails, RefuseWindow, Unsendable, DoNotAdvance,
               RequestFails, LoaderRaises
    <2> QED BY <2>1, <2>2
<1>3. /\ UNCHANGED <<setting, market, asOf, before, fact, history, results, attempt, proposal,
                     batches, revisions, checkpoint>>
      /\ requests' = requests \/ (pc = "request" /\ requests' = requests + 1)
      /\ faults' = faults \/ Fault
    BY DEF Ends, RefuseItem, SetupFails, PriorFails, RefuseWindow, Unsendable, DoNotAdvance,
           RequestFails, LoaderRaises, evaluation, counters, Sent, NoFault
<1> QED BY <1>1, <1>2, <1>3

LEMMA EndsShape ==
    ASSUME ShapeInv, Ends
    PROVE  ShapeInv'
<1>1. \E result \in ItemResults : EndItem(result)
    BY EndsAre, CategoryTyped DEF ItemResults, Failures
<1>2. requests' \in Nat /\ faults' \in 0..MaxFaults /\ checkpoint' \in [Instruments -> Witness]
    BY EndsAre, FaultTyped DEF ShapeInv, BatchTypeOK
<1> QED BY <1>1, <1>2, EndsAre, EndKeepsShape

\* The results, the items and the symbol stay, and so does what is said of them.
LEMMA SameResults ==
    ASSUME UNCHANGED <<setting, items, results>>
    PROVE  /\ Symbol' = Symbol /\ Instrument' = Instrument /\ Resolvable' = Resolvable
           /\ Selectable(setting.registry, Symbol)' = Selectable(setting.registry, Symbol)
           /\ PipelineOver' = PipelineOver /\ Outcome' = Outcome /\ LastResult' = LastResult
           /\ Triggers' = Triggers /\ Ticker' = Ticker
BY DEF Symbol, Instrument, Resolvable, Triggers, PipelineOver, Outcome, LastResult, Ticker

FactTypes == [prior: Witness \cup {Unasked, Unavailable},
              content: {Unasked, Unavailable} \cup [status: {"PRESENT"}, value: CurrentContent],
              light: {Unasked, Unavailable} \cup [status: {"PRESENT"}, value: Light]]

\* Steps of a running evaluation that leave its results.
LEMMA StayShape ==
    ASSUME ShapeInv, Running, Running',
           UNCHANGED <<setting, checkpoint, market, asOf, items, before, results, batches, revisions>>,
           fact' \in FactTypes,
           history' \in {Unasked, Unavailable} \cup [status: {"PRESENT"}, value: CurrentContent],
           attempt' \in 0..(MaxRetries + 1), requests' \in Nat, faults' \in 0..MaxFaults,
           proposal' \in {Absent} \cup ObservationState,
           pc' = "gate" => ~PipelineOver,
           pc' \in {"over", "prepare", "save"} => PipelineOver,
           pc' = "prepare" \/ (pc' = "request" /\ PipelineOver) => Outcome \in CommittedOutcomes,
           pc' = "request" => Covered,
           pc' = "save" => proposal' \in ObservationState
    PROVE  ShapeInv'
<1>1. /\ Symbol' = Symbol /\ Resolvable' = Resolvable /\ PipelineOver' = PipelineOver
      /\ Outcome' = Outcome
      /\ Selectable(setting.registry, Symbol)' = Selectable(setting.registry, Symbol)
    BY SameResults
<1>2. pc' \in Points /\ pc # "off"
    BY DEF Running
<1>3. BatchTypeOK'
    BY <1>2 DEF ShapeInv, BatchTypeOK, FactTypes
<1>4. Len(items') < Len(setting'.symbols)
    BY <1>2 DEF ShapeInv
<1>5. Selectable(setting'.registry, Symbol') /\ Resolvable'
    BY <1>1 DEF ShapeInv
<1>6. Preparing' => Outcome' \in CommittedOutcomes
    BY <1>1 DEF Preparing
<1>7. Covered' = Covered
    BY DEF Covered, Labels
<1> QED BY <1>1, <1>3, <1>4, <1>5, <1>6, <1>7 DEF ShapeInv

\* Facts are asked for where an evaluation runs.
LEMMA AsksWhereItRuns ==
    ASSUME NEW f \in Facts, Asks(f)
    PROVE  pc \in {"gate", "prepare"} /\ fact[f] = Unasked /\ Running
BY DEF Asks, Running, Points, Facts

\* The facts in the two forms the lemmas use.
LEMMA FactKept ==
    ASSUME ShapeInv
    PROVE  /\ fact \in FactTypes /\ fact["prior"] \in Witness \cup {Unasked, Unavailable}
           /\ fact["content"] \in {Unasked, Unavailable} \cup [status: {"PRESENT"}, value: CurrentContent]
           /\ fact["light"] \in {Unasked, Unavailable} \cup [status: {"PRESENT"}, value: Light]
BY DEF ShapeInv, BatchTypeOK, FactTypes

\* A fact that is replaced by one of its type.
LEMMA FactSet ==
    ASSUME ShapeInv, NEW value
    PROVE  /\ value \in Witness \cup {Unasked, Unavailable} =>
                 [fact EXCEPT !["prior"] = value] \in FactTypes
           /\ value \in {Unasked, Unavailable} \cup [status: {"PRESENT"}, value: CurrentContent] =>
                 [fact EXCEPT !["content"] = value] \in FactTypes
           /\ value \in {Unasked, Unavailable} \cup [status: {"PRESENT"}, value: Light] =>
                 [fact EXCEPT !["light"] = value] \in FactTypes
BY FactKept DEF FactTypes

LEMMA PriorShape ==
    ASSUME ShapeInv, ReadPrior \/ PriorUnavailable
    PROVE  ShapeInv'
<1>1. /\ Asks("prior") /\ pc' = pc /\ UNCHANGED <<setting, checkpoint, market, asOf, items, before,
            results, batches, revisions, history, attempt, requests, proposal>>
      /\ faults' = faults \/ Fault
    BY DEF ReadPrior, PriorUnavailable, counters
<1>2. Running /\ pc \in {"gate", "prepare"}
    BY <1>1, AsksWhereItRuns DEF Facts
<1>3. Running'
    BY <1>1, <1>2 DEF Running
<1>4. checkpoint[Instrument] \in Witness
    BY <1>2, InstrumentTyped DEF ShapeInv, BatchTypeOK
<1>5. fact' \in FactTypes
    BY <1>4, FactSet DEF ReadPrior, PriorUnavailable
<1>6. faults' \in 0..MaxFaults
    BY <1>1, FaultTyped DEF ShapeInv, BatchTypeOK
<1>7. /\ attempt' \in 0..(MaxRetries + 1) /\ requests' \in Nat
      /\ history' \in {Unasked, Unavailable} \cup [status: {"PRESENT"}, value: CurrentContent]
      /\ proposal' \in {Absent} \cup ObservationState
    BY <1>1 DEF ShapeInv, BatchTypeOK
<1>8. /\ pc' = "gate" => ~PipelineOver
      /\ pc' \in {"over", "prepare", "save"} => PipelineOver
      /\ pc' = "prepare" \/ (pc' = "request" /\ PipelineOver) => Outcome \in CommittedOutcomes
      /\ pc' # "request" /\ pc' # "save"
    BY <1>1, <1>2 DEF ShapeInv, Preparing
<1> QED BY <1>1, <1>2, <1>3, <1>5, <1>6, <1>7, <1>8, StayShape

\* A present history carries the session it was acquired for.
LEMMA WindowTyped ==
    ASSUME ShapeInv, Covered
    PROVE  /\ Labels # {} /\ LatestSession[asOf] \in TradingDays
           /\ WindowStart \in TradingDays
           /\ Labels = {d \in TradingDays : WindowStart <= d /\ d <= LatestSession[asOf]}
<1>1. LatestSession[asOf] \in TradingDays
    BY ObservationAssumption DEF ShapeInv, BatchTypeOK
<1>2. Labels # {}
    <2>1. Cardinality(Labels) # 0
        BY BatchAssumption DEF Covered
    <2> QED BY <2>1, FS_EmptySet
<1>3. WindowStart = CHOOSE d \in Window(LatestSession[asOf]) :
                       \A e \in Window(LatestSession[asOf]) : d <= e
    BY DEF WindowStart, Labels
<1>4. Labels = Window(LatestSession[asOf])
    BY DEF Labels
<1> QED BY <1>1, <1>2, <1>3, <1>4, WindowIsAnInterval

LEMMA HistoryShape ==
    ASSUME ShapeInv, SkipWindow \/ Acquire \/ \E f \in Facts : DeriveFact(f)
    PROVE  ShapeInv'
<1>1. /\ UNCHANGED <<setting, checkpoint, market, asOf, items, before, results, batches, revisions,
                     requests, proposal, faults>>
      /\ pc' = pc \/ pc' = "request"
      /\ attempt' = attempt \/ attempt' = 1
    BY DEF SkipWindow, Acquire, DeriveFact, counters
<1>2. pc \in {"gate", "prepare"} /\ Running
    BY AsksWhereItRuns DEF SkipWindow, Acquire, DeriveFact, AsksForHistory, Facts
<1>3. Running'
    BY <1>1, <1>2 DEF Running, Points
<1>4. fact' \in FactTypes /\ history' \in {Unasked, Unavailable} \cup [status: {"PRESENT"}, value: CurrentContent]
    <2>1. CASE SkipWindow \/ Acquire
        BY <2>1, FactKept DEF SkipWindow, Acquire, ShapeInv, BatchTypeOK
    <2>2. ASSUME NEW f \in Facts, DeriveFact(f)
          PROVE  fact' \in FactTypes /\ history' = history
        <3>1. /\ f \in {"content", "light"} /\ history # Unasked
              /\ fact' = [fact EXCEPT ![f] = Derived(f)] /\ history' = history
            BY <2>2 DEF DeriveFact, ProducerKeeps
        <3>2. history \in {Unavailable} \cup [status: {"PRESENT"}, value: CurrentContent]
            BY <3>1 DEF ShapeInv, BatchTypeOK
        <3>3. CASE history = Unavailable
            <4>1. Derived(f) = Unavailable
                BY <3>3 DEF Derived, Unavailable
            <4> QED BY <3>1, <4>1, FactSet
        <3>4. CASE history \in [status: {"PRESENT"}, value: CurrentContent]
            <4>1. history.status # "UNAVAILABLE" /\ history.value \in CurrentContent
                BY <3>4
            <4>2. CASE f = "content"
                <5>1. Derived(f) = history
                    BY <4>1, <4>2 DEF Derived
                <5> QED BY <3>1, <3>4, <4>2, <5>1, FactSet
            <4>3. CASE f = "light"
                <5>1. Derived(f) = Present(Observe(Revision, history.value, asOf))
                    BY <4>1, <4>3 DEF Derived
                <5>2. Observe(Revision, history.value, asOf) \in Light
                    BY <4>1, ObservedTypes DEF ShapeInv, BatchTypeOK
                <5>3. Derived(f) \in [status: {"PRESENT"}, value: Light]
                    BY <5>1, <5>2 DEF Present
                <5> QED BY <3>1, <4>3, <5>3, FactSet
            <4> QED BY <3>1, <4>2, <4>3
        <3> QED BY <3>1, <3>2, <3>3, <3>4
    <2> QED BY <2>1, <2>2 DEF ShapeInv, BatchTypeOK
<1>5. /\ attempt' \in 0..(MaxRetries + 1) /\ requests' \in Nat /\ faults' \in 0..MaxFaults
      /\ proposal' \in {Absent} \cup ObservationState
    BY <1>1, BatchAssumption DEF ShapeInv, BatchTypeOK
<1>6. /\ pc' = "gate" => ~PipelineOver
      /\ pc' \in {"over", "prepare", "save"} => PipelineOver
      /\ pc' = "prepare" \/ (pc' = "request" /\ PipelineOver) => Outcome \in CommittedOutcomes
    BY <1>1, <1>2 DEF ShapeInv, Preparing
<1>7. (pc' = "request" => Covered) /\ pc' # "save"
    BY <1>1, <1>2 DEF SkipWindow, Acquire, DeriveFact
<1> QED BY <1>1, <1>2, <1>3, <1>4, <1>5, <1>6, <1>7, StayShape

LEMMA AnswerShape ==
    ASSUME ShapeInv, Answered \/ Retry \/ \E trouble \in Trouble : NotAvailable(trouble)
    PROVE  ShapeInv'
<1>1. /\ pc = "request"
      /\ UNCHANGED <<setting, checkpoint, market, asOf, items, before, results, batches, revisions,
                     fact, proposal>>
      /\ requests' = requests + 1 /\ (faults' = faults \/ Fault)
      /\ \/ pc' = IF PipelineOver THEN "prepare" ELSE "gate"
         \/ pc' = pc
      /\ \/ attempt' = attempt
         \/ attempt' = attempt + 1 /\ attempt < Attempts
    BY DEF Answered, Retry, NotAvailable, Sent, Resume, counters
<1>2. Running /\ Running'
    BY <1>1 DEF Running, Points
<1>3. history' \in {Unasked, Unavailable} \cup [status: {"PRESENT"}, value: CurrentContent]
    <2>1. CASE Answered
        <3>1. /\ LatestSession[asOf] \in Sessions /\ WindowStart \in Starts
              /\ LatestSession[asOf] \in TradingDays
            BY <1>1, WindowTyped, ObservationAssumption, BatchAssumption DEF ShapeInv
        <3>2. market[Ticker] \in Contents
            <4>1. Selectable(setting.registry, Symbol) /\ setting.registry \in Registry
                BY <1>2, SettingFacts DEF ShapeInv, BatchTypeOK
            <4>2. Ticker \in TickersOf(setting.registry, Instrument)
                BY <1>1, <4>1, SymbolTyped, SelectionIsOne DEF Ticker, Instrument
            <4> QED BY <4>2 DEF TickersOf, ShapeInv, BatchTypeOK
        <3> QED BY <2>1, <3>1, <3>2 DEF Answered, Present, CurrentContent
    <2>2. CASE ~Answered
        BY <2>2 DEF Retry, NotAvailable, ShapeInv, BatchTypeOK
    <2> QED BY <2>1, <2>2
<1>4. attempt' \in 0..(MaxRetries + 1) /\ requests' \in Nat /\ faults' \in 0..MaxFaults
    BY <1>1, FaultTyped, BatchAssumption DEF ShapeInv, BatchTypeOK, Attempts
<1>5. fact' \in FactTypes /\ proposal' \in {Absent} \cup ObservationState
    BY <1>1, FactKept DEF ShapeInv, BatchTypeOK
<1>6. /\ pc' = "gate" => ~PipelineOver
      /\ pc' \in {"over", "prepare", "save"} => PipelineOver
      /\ pc' = "prepare" \/ (pc' = "request" /\ PipelineOver) => Outcome \in CommittedOutcomes
      /\ (pc' = "request" => Covered) /\ pc' # "save"
    BY <1>1 DEF ShapeInv, Preparing
<1> QED BY <1>1, <1>2, <1>3, <1>4, <1>5, <1>6, StayShape

LEMMA VerdictTyped ==
    ASSUME NEW gate, NEW prior, NEW content, NEW light
    PROVE  Verdict(gate, prior, content, light).disposition \in {"PASS", "DROP", "ATTENTION"}
BY DEF Verdict, EmaResult, TriggerResult

\* The result of a gate that has its facts.
LEMMA ResultTyped ==
    ASSUME ShapeInv, pc = "gate", \A f \in Facts : ~Asks(f)
    PROVE  Verdict(Occurrence, fact["prior"], fact["content"], fact["light"]) \in Result
<1> DEFINE r == Verdict(Occurrence, fact["prior"], fact["content"], fact["light"])
<1>1. CASE Occurrence.kind = "ema"
    <2>1. fact["light"] # Unasked
        BY <1>1 DEF Asks, Facts
    <2>2. CASE fact["light"] = Unavailable
        BY <1>1, <2>2 DEF Verdict, EmaResult, Unavailable, Result, Reasons
    <2>3. CASE fact["light"] \in [status: {"PRESENT"}, value: Light]
        <3>1. fact["light"].value.relation \in Relations /\ fact["light"].status # "UNAVAILABLE"
            BY <2>3 DEF Light
        <3>2. fact["light"].value.relation \in Reasons
            BY <3>1 DEF Reasons
        <3> QED BY <1>1, <3>1, <3>2 DEF Verdict, EmaResult, Result
    <2> QED BY <2>1, <2>2, <2>3, FactKept
<1>2. CASE Occurrence.kind # "ema"
    <2> DEFINE reason == TriggerSays(fact["prior"], fact["content"])
    <2>1. reason \in Reasons
        BY DEF TriggerSays, TriggerReason, Reasons, OrdinaryReasons
    <2> HIDE DEF reason
    <2>2. TriggerResult(reason) \in Result
        BY <2>1 DEF TriggerResult, Result
    <2> QED BY <1>2, <2>2 DEF Verdict, reason
<1> QED BY <1>1, <1>2

LEMMA JudgeShape ==
    ASSUME ShapeInv, Judge
    PROVE  ShapeInv'
<1> DEFINE r == Verdict(Occurrence, fact["prior"], fact["content"], fact["light"])
<1>1. /\ pc = "gate" /\ r \in Result
      /\ results' = Append(results, r)
      /\ pc' = IF r.disposition = "PASS" /\ Len(results) + 1 < Len(setting.profile)
               THEN "gate" ELSE "over"
      /\ UNCHANGED <<setting, checkpoint, market, asOf, items, before, fact, history, attempt,
                     requests, proposal, batches, faults, revisions>>
    BY ResultTyped DEF Judge, counters
<1> HIDE DEF r
<1>2. /\ results \in Seq(Result) /\ Len(results) + 1 \in DOMAIN setting.profile
      /\ setting.profile \in Seq(Gate)
    BY <1>1, OccurrenceTyped, SettingFacts DEF ShapeInv, BatchTypeOK
<1>3. /\ results' \in Seq(Result) /\ Len(results') = Len(results) + 1 /\ results' # <<>>
      /\ results'[Len(results')] = r
    BY <1>1, <1>2
<1>4. LastResult' = r
    BY <1>3 DEF LastResult
<1>5. BatchTypeOK'
    BY <1>1, <1>2, <1>3 DEF ShapeInv, BatchTypeOK, Points
<1>6. PipelineOver' <=> pc' = "over"
    BY <1>1, <1>2, <1>3, <1>4 DEF PipelineOver
<1>7. /\ Selectable(setting.registry, Symbol)' = Selectable(setting.registry, Symbol)
      /\ Resolvable' = Resolvable /\ Running
    BY <1>1 DEF Symbol, Resolvable, Triggers, Running, Points
<1>8. pc' \in {"gate", "over"} /\ ~Preparing' /\ Len(items') < Len(setting'.symbols)
    BY <1>1 DEF Preparing, ShapeInv
<1> QED BY <1>5, <1>6, <1>7, <1>8 DEF ShapeInv

\* What the gates may let advance ends in an outcome that is committed.
LEMMA AdvanceCommits ==
    ASSUME MayAdvance
    PROVE  Outcome \in CommittedOutcomes
BY DEF MayAdvance, Advances

LEMMA StartPreparationShape ==
    ASSUME ShapeInv, StartPreparation
    PROVE  ShapeInv'
<1>1. /\ pc = "over" /\ pc' = "prepare" /\ Outcome \in CommittedOutcomes
      /\ UNCHANGED <<setting, checkpoint, market, asOf, items, before, fact, history, results,
                     attempt, requests, proposal, batches, faults, revisions>>
    BY AdvanceCommits DEF StartPreparation, evaluation, counters
<1>2. Running /\ Running' /\ PipelineOver
    BY <1>1 DEF Running, Points, ShapeInv
<1>3. /\ fact' \in FactTypes
      /\ history' \in {Unasked, Unavailable} \cup [status: {"PRESENT"}, value: CurrentContent]
      /\ attempt' \in 0..(MaxRetries + 1) /\ requests' \in Nat /\ faults' \in 0..MaxFaults
      /\ proposal' \in {Absent} \cup ObservationState
    BY <1>1, FactKept DEF ShapeInv, BatchTypeOK
<1> QED BY <1>1, <1>2, <1>3, StayShape

LEMMA PrepareShape ==
    ASSUME ShapeInv, PrepareState
    PROVE  ShapeInv'
<1>1. PICK n \in Triggers \cap DOMAIN results, stamp \in Stamps :
          IF Consistent(results[n].reason)
          THEN /\ proposal' = Prepare(fact["prior"], fact["light"].value, fact["content"].value,
                                      Outcome, stamp)
               /\ pc' = "save" /\ items' = items
          ELSE EndItem(Category("preparation")) /\ proposal' = proposal
    BY DEF PrepareState
<1>2. /\ pc = "prepare" /\ Running /\ PipelineOver /\ Outcome \in CommittedOutcomes
      /\ UNCHANGED <<setting, checkpoint, market, asOf, before, fact, history, results, attempt,
                     requests, batches, faults, revisions>>
    BY DEF PrepareState, counters, Running, Points, ShapeInv, Preparing
<1>3. /\ fact' \in FactTypes
      /\ history' \in {Unasked, Unavailable} \cup [status: {"PRESENT"}, value: CurrentContent]
      /\ attempt' \in 0..(MaxRetries + 1) /\ requests' \in Nat /\ faults' \in 0..MaxFaults
      /\ checkpoint' \in [Instruments -> Witness]
    BY <1>2, FactKept DEF ShapeInv, BatchTypeOK
<1>4. CASE Consistent(results[n].reason)
    <2>1. /\ pc' = "save" /\ items' = items
          /\ proposal' = Prepare(fact["prior"], fact["light"].value, fact["content"].value,
                                 Outcome, stamp)
        BY <1>1, <1>4
    <2>2. fact["light"].value \in Light /\ fact["content"].value \in CurrentContent
        BY <1>4, FactKept DEF Consistent, Unasked, Unavailable
    <2>3. PriorLight(fact["prior"]) \in Light \cup {NoLight}
        BY FactKept, WitnessIs DEF PriorLight, Unasked, Unavailable
    <2>4. proposal' \in ObservationState
        BY <1>2, <2>1, <2>2, <2>3, PreparedTypes
    <2>5. Running'
        BY <2>1 DEF Running, Points
    <2> QED BY <1>2, <1>3, <2>1, <2>4, <2>5, StayShape
<1>5. CASE ~Consistent(results[n].reason)
    <2>1. EndItem(Category("preparation")) /\ proposal' = proposal
        BY <1>1, <1>5
    <2> QED BY <1>2, <1>3, <2>1, CategoryTyped, EndKeepsShape
<1> QED BY <1>4, <1>5

LEMMA SaveShape ==
    ASSUME ShapeInv, Save \/ SaveFails
    PROVE  ShapeInv'
<1>1. /\ pc = "save" /\ Running /\ proposal \in ObservationState
      /\ UNCHANGED <<setting, market, asOf, before, fact, history, results, attempt, requests,
                     proposal, batches, revisions>>
      /\ faults' = faults \/ Fault
      /\ \E result \in ItemResults : EndItem(result)
    BY CategoryTyped DEF Save, SaveFails, evaluation, counters, Running, Points, ItemResults, ShapeInv
<1>2. Instrument \in Instruments /\ checkpoint \in [Instruments -> Witness]
    BY <1>1, InstrumentTyped DEF ShapeInv, BatchTypeOK
<1>3. Complete(proposal) \in Witness
    BY <1>1 DEF Witness, Complete
<1>4. checkpoint' \in [Instruments -> Witness]
    <2>1. \E state \in Witness : checkpoint' = [checkpoint EXCEPT ![Instrument] = state]
        BY <1>2, <1>3 DEF Save, SaveFails
    <2> QED BY <1>2, <2>1
<1>5. faults' \in 0..MaxFaults /\ requests' \in Nat
    BY <1>1, FaultTyped DEF ShapeInv, BatchTypeOK
<1> QED BY <1>1, <1>4, <1>5, EndKeepsShape

LEMMA CrashShape ==
    ASSUME ShapeInv, Crash
    PROVE  ShapeInv'
<1>1. faults' \in 0..MaxFaults
    BY FaultTyped DEF Crash
<1>2. setting.symbols \in Seq(Symbols)
    BY SettingFacts DEF ShapeInv, BatchTypeOK
<1>3. BatchTypeOK'
    BY <1>1, <1>2 DEF ShapeInv, BatchTypeOK, Crash, evaluation, Points
<1> QED BY <1>3 DEF Crash, ShapeInv, Running, Preparing

LEMMA ReviseShape ==
    ASSUME ShapeInv, NEW ticker \in Tickers, NEW content \in Contents, Revise(ticker, content)
    PROVE  ShapeInv'
<1>1. revisions' \in 0..MaxRevisions /\ market' \in [Tickers -> Contents]
    BY BatchAssumption DEF ShapeInv, BatchTypeOK, Revise
<1>2. BatchTypeOK'
    BY <1>1 DEF ShapeInv, BatchTypeOK, Revise, evaluation
<1>3. UNCHANGED <<setting, items, results, pc, asOf, proposal>>
    BY DEF Revise, evaluation
<1>4. Covered' = Covered /\ Running' = Running /\ Preparing' = Preparing
    BY <1>3, SameResults DEF Covered, Labels, Running, Preparing
<1> QED BY <1>2, <1>3, <1>4, SameResults DEF ShapeInv

LEMMA StutterShape ==
    ASSUME ShapeInv, UNCHANGED vars
    PROVE  ShapeInv'
<1>1. UNCHANGED <<setting, checkpoint, market, pc, asOf, items, before, fact, history, results,
                  attempt, requests, proposal, batches, faults, revisions>>
    BY DEF vars, evaluation, counters
<1>2. BatchTypeOK'
    BY <1>1 DEF ShapeInv, BatchTypeOK
<1>3. Covered' = Covered /\ Running' = Running /\ Preparing' = Preparing
    BY <1>1, SameResults DEF Covered, Labels, Running, Preparing
<1> QED BY <1>1, <1>2, <1>3, SameResults DEF ShapeInv

\* The steps, in groups that the invariants treat alike.
Reads == ReadPrior \/ PriorUnavailable
Looks == SkipWindow \/ Acquire \/ \E f \in Facts : DeriveFact(f)
Answers == Answered \/ Retry \/ \E trouble \in Trouble : NotAvailable(trouble)

\* The steps, by what they change.
LEMMA NextIs ==
    ASSUME Next
    PROVE  \/ StartBatch \/ BeginItem \/ Ends \/ Reads \/ Looks \/ Answers \/ Judge
           \/ StartPreparation \/ PrepareState \/ Save \/ SaveFails \/ Crash
           \/ \E ticker \in Tickers, content \in Contents : Revise(ticker, content)
BY DEF Next, LoadFact, Exchange, Ends, Reads, Looks, Answers

LEMMA ShapeStep ==
    ASSUME ShapeInv, [Next]_vars
    PROVE  ShapeInv'
<1>1. CASE Next
    BY <1>1, NextIs, StartBatchShape, BeginItemShape, EndsShape, PriorShape, HistoryShape,
       AnswerShape, JudgeShape, StartPreparationShape, PrepareShape, SaveShape, CrashShape,
       ReviseShape DEF Ends, Reads, Looks, Answers
<1>2. CASE UNCHANGED vars
    BY <1>2, StutterShape
<1> QED BY <1>1, <1>2

LEMMA Shaped == Spec => []ShapeInv
<1>1. Init => ShapeInv
    BY InitShape
<1>2. ShapeInv /\ [Next]_vars => ShapeInv'
    BY ShapeStep
<1> QED BY <1>1, <1>2, PTL DEF Spec

\* The checkpoints, the items, the facts and what the producer holds have their
\* types for any document, profile and calendar.
THEOREM BatchTypesCorrect == Spec => []BatchTypeOK
<1>1. ShapeInv => BatchTypeOK
    BY DEF ShapeInv
<1> QED BY <1>1, Shaped, PTL

-----------------------------------------------------------------------------
(* Requests *)

\* Requests are counted with the attempts of one acquisition, and there is one
\* acquisition: once its history is there no request follows.
RequestInv ==
    /\ RequestsAreBounded
    /\ pc = "request" => history = Unasked /\ attempt >= 1 /\ requests = attempt - 1
    /\ Running /\ pc # "request" /\ history = Unasked => requests = 0

LEMMA RequestStep ==
    ASSUME ShapeInv, ShapeInv', RequestInv, [Next]_vars
    PROVE  RequestInv'
<1> USE BatchAssumption DEF RequestInv, RequestsAreBounded
<1>0. /\ attempt \in 0..(MaxRetries + 1) /\ requests \in Nat /\ pc \in Points
      /\ history = Unasked \/ history.status \in {"UNAVAILABLE", "PRESENT"}
      /\ MaxRetries \in Nat /\ Unasked.status = "UNASKED"
    BY DEF ShapeInv, BatchTypeOK, Unavailable, Unasked
<1>1. CASE StartBatch
    BY <1>1 DEF StartBatch, evaluation, Running
<1>2. CASE BeginItem
    BY <1>2 DEF BeginItem, Running
<1>3. CASE Ends
    <2>2. pc' \in {"off", "next"}
        BY <1>3, EndsAre DEF EndItem
    <2>3. requests' = requests \/ (pc = "request" /\ requests' = requests + 1)
        BY <1>3, EndsAre
    <2>4. requests' <= MaxRetries + 1
        BY <1>0, <2>3
    <2> QED BY <2>2, <2>4 DEF Running
<1>4. CASE Reads
    BY <1>4, AsksWhereItRuns DEF Reads, ReadPrior, PriorUnavailable, Running, counters, Facts
<1>5. CASE Looks
    <2>1. pc \in {"gate", "prepare"} /\ Running
        BY <1>5, AsksWhereItRuns DEF Looks, SkipWindow, Acquire, DeriveFact, AsksForHistory, Facts
    <2>2. CASE SkipWindow
        BY <1>0, <2>1, <2>2 DEF SkipWindow, Unavailable, Unasked
    <2>3. CASE Acquire
        BY <1>0, <2>1, <2>3 DEF Acquire
    <2>4. CASE \E f \in Facts : DeriveFact(f)
        BY <1>0, <2>1, <2>4 DEF DeriveFact, ProducerKeeps
    <2> QED BY <1>5, <2>2, <2>3, <2>4 DEF Looks
<1>6. CASE Answers
    <2>1. pc = "request" /\ requests' = requests + 1
        BY <1>6 DEF Answers, Answered, Retry, NotAvailable, Sent
    <2>2. CASE Answered
        BY <1>0, <2>1, <2>2 DEF Answered, Resume, Present, Unasked
    <2>3. CASE Retry
        BY <1>0, <2>1, <2>3 DEF Retry, Attempts
    <2>4. CASE \E trouble \in Trouble : NotAvailable(trouble)
        BY <1>0, <2>1, <2>4 DEF NotAvailable, Resume, Unavailable, Unasked
    <2> QED BY <1>6, <2>2, <2>3, <2>4 DEF Answers
<1>7. CASE Judge
    BY <1>7 DEF Judge, Running, Points
<1>8. CASE StartPreparation
    BY <1>8 DEF StartPreparation, evaluation, Running, Points
<1>9. CASE PrepareState
    <2>1. pc = "prepare" /\ pc' \in {"save", "off", "next"}
          /\ UNCHANGED <<history, attempt, requests>>
        BY <1>9 DEF PrepareState, EndItem
    <2> QED BY <2>1 DEF Running, Points
<1>10. CASE Save \/ SaveFails
    <2>1. pc' \in {"off", "next"} /\ UNCHANGED <<history, attempt, requests>>
        BY <1>10 DEF Save, SaveFails, evaluation, EndItem
    <2> QED BY <2>1 DEF Running, Points
<1>11. CASE Crash
    BY <1>11 DEF Crash, evaluation, Running
<1>12. CASE \E ticker \in Tickers, content \in Contents : Revise(ticker, content)
    BY <1>12 DEF Revise, evaluation, Running
<1>13. CASE UNCHANGED vars
    BY <1>13 DEF vars, evaluation, Running
<1> QED BY <1>1, <1>2, <1>3, <1>4, <1>5, <1>6, <1>7, <1>8, <1>9, <1>10, <1>11, <1>12, <1>13, NextIs

\* One evaluation sends at most as many requests as its client may try once: a
\* history is acquired once, because the producer keeps what it got.
THEOREM RequestsStayBounded == Spec => []RequestsAreBounded
<1>1. Init => RequestInv
    BY BatchAssumption DEF Init, RequestInv, RequestsAreBounded, Running
<1>2. ShapeInv /\ ShapeInv' /\ RequestInv /\ [Next]_vars => RequestInv'
    BY RequestStep
<1>3. RequestInv => RequestsAreBounded
    BY DEF RequestInv
<1> QED BY <1>1, <1>2, <1>3, Shaped, PTL DEF Spec

-----------------------------------------------------------------------------
(* One view *)

\* The window may be acquired under the instrument's ticker.
Whole == Covered /\ ~NotOurs /\ ~Broken

\* A result is still what its gate would say of the facts, all of which it asked for,
\* and another gate was judged only after PASS.
Grounded(n) ==
    LET gate == setting.profile[n] IN
    /\ results[n] = Verdict(gate, fact["prior"], fact["content"], fact["light"])
    /\ gate.kind = "ema" => fact["light"] # Unasked
    /\ gate.kind # "ema" => /\ fact["prior"] # Unasked
                            /\ Objects(fact["prior"]) \/ fact["content"] # Unasked
    /\ n < Len(results) => results[n].disposition = "PASS"

\* The proposed state is about the content every gate saw.
Proposed ==
    /\ fact["content"].status = "PRESENT" /\ fact["light"].status = "PRESENT"
    /\ proposal.light = fact["light"].value
    /\ ContentOf(proposal) = fact["content"].value
    /\ \E stamp \in Stamps :
          proposal = Prepare(fact["prior"], fact["light"].value, fact["content"].value, Outcome, stamp)

FactsInv ==
    /\ fact["prior"] \in {Unasked, Unavailable, checkpoint[Instrument]}
    /\ history = Unasked => fact["content"] = Unasked /\ fact["light"] = Unasked
    /\ fact["content"] \in {Unasked, Derived("content")}
    /\ fact["light"] \in {Unasked, Derived("light")}
    /\ pc = "request" => history = Unasked /\ Whole
    /\ history.status = "PRESENT" =>
          /\ Whole
          /\ history.value.session = LatestSession[asOf] /\ history.value.start = WindowStart

PipelineInv ==
    /\ \A n \in DOMAIN results : Grounded(n)
    /\ Preparing \/ pc = "save" => MayAdvance
    /\ pc = "save" => Proposed

ViewInv == Running => FactsInv /\ PipelineInv

\* Every complete checkpoint is about one observation, of sessions of its own
\* instrument.
RetainedInv ==
    \A i \in Instruments : checkpoint[i].status = "PRESENT_COMPLETE_STATE" =>
        Corresponds(checkpoint[i].state) /\ Ours(setting.registry, i, checkpoint[i])

LEMMA StatusesDiffer ==
    /\ Unasked.status = "UNASKED" /\ Unavailable.status = "UNAVAILABLE" /\ Absent.status = "ABSENT"
    /\ \A v : Present(v).status = "PRESENT" /\ Present(v).value = v
    /\ \A s : Complete(s).status = "PRESENT_COMPLETE_STATE" /\ Complete(s).state = s
BY DEF Unasked, Unavailable, Present, Absent, Complete

LEMMA GateKinds ==
    ASSUME ShapeInv, Running, NEW n \in DOMAIN results
    PROVE  /\ n \in DOMAIN setting.profile
           /\ setting.profile[n].kind \in {"trigger", "ema"}
           /\ n \in Triggers <=> setting.profile[n].kind # "ema"
<1>1. /\ setting.profile \in Seq(Gate) /\ results \in Seq(Result)
      /\ Len(results) <= Len(setting.profile) /\ Resolvable
    BY SettingFacts DEF ShapeInv, BatchTypeOK
<1>2. n \in DOMAIN setting.profile
    BY <1>1
<1>3. setting.profile[n] \in Gate /\ setting.profile[n].kind # "other"
    BY <1>1, <1>2 DEF Resolvable
<1> QED BY <1>2, <1>3 DEF Gate, Triggers

\* A trigger that objects to what is retained does not advance it.
LEMMA ObjectionsDoNotAdvance ==
    ASSUME NEW prior, NEW content, NEW outcome,
           Advances(prior, TriggerSays(prior, content), outcome)
    PROVE  /\ prior.status # "UNAVAILABLE" /\ content.status # "UNAVAILABLE" /\ ~Objects(prior)
           /\ TriggerSays(prior, content) = TriggerReason(prior, asOf, content.value)
           /\ TriggerReason(prior, asOf, content.value) \in OrdinaryReasons \cup {"UNCHANGED"}
BY DEF Advances, TriggerSays, TriggerReason, Objects, OrdinaryReasons

LEMMA TriggerVerdict ==
    ASSUME NEW gate, NEW prior, NEW content, NEW light, gate.kind # "ema"
    PROVE  Verdict(gate, prior, content, light).reason = TriggerSays(prior, content)
<1> DEFINE reason == TriggerSays(prior, content)
<1> HIDE DEF reason
<1>1. TriggerResult(reason).reason = reason
    BY DEF TriggerResult
<1>2. Verdict(gate, prior, content, light) = TriggerResult(reason)
    BY DEF Verdict, reason
<1> QED BY <1>1, <1>2 DEF reason

\* Where the checkpoint may advance, the executed trigger had both its facts.
LEMMA AdvancingFacts ==
    ASSUME ShapeInv, Running, FactsInv, \A n \in DOMAIN results : Grounded(n), MayAdvance
    PROVE  /\ fact["prior"] = checkpoint[Instrument] /\ fact["prior"] \in Witness
           /\ history.status = "PRESENT" /\ fact["content"] = history
           /\ history.value \in CurrentContent
           /\ \A n \in Triggers \cap DOMAIN results :
                 /\ results[n].reason = TriggerReason(fact["prior"], asOf, history.value)
                 /\ Advances(fact["prior"], results[n].reason, Outcome)
<1>1. PICK n \in Triggers \cap DOMAIN results : Advances(fact["prior"], results[n].reason, Outcome)
    BY DEF MayAdvance
<1>2. setting.profile[n].kind # "ema" /\ \A m \in Triggers : m = n
    BY <1>1, GateKinds DEF ShapeInv, Resolvable
<1>3. Grounded(n)
    BY <1>1
<1>4. /\ fact["prior"] # Unasked /\ (Objects(fact["prior"]) \/ fact["content"] # Unasked)
      /\ results[n].reason = TriggerSays(fact["prior"], fact["content"])
    BY <1>2, <1>3, TriggerVerdict DEF Grounded
<1>5. /\ fact["prior"].status # "UNAVAILABLE" /\ fact["content"].status # "UNAVAILABLE"
      /\ ~Objects(fact["prior"])
      /\ results[n].reason = TriggerReason(fact["prior"], asOf, fact["content"].value)
    BY <1>1, <1>4, ObjectionsDoNotAdvance
<1>6. fact["prior"] = checkpoint[Instrument] /\ fact["prior"] \in Witness
    <2>1. fact["prior"] # Unavailable
        BY <1>5, StatusesDiffer
    <2> QED BY <1>4, <2>1, FactKept DEF FactsInv
<1>7. fact["content"] = Derived("content") /\ fact["content"] # Unasked /\ fact["content"] # Unavailable
    BY <1>4, <1>5, StatusesDiffer DEF FactsInv
<1>8. history # Unasked /\ history # Unavailable
    BY <1>7, StatusesDiffer DEF FactsInv, Derived
<1>9. history \in [status: {"PRESENT"}, value: CurrentContent]
    BY <1>8 DEF ShapeInv, BatchTypeOK
<1>10. fact["content"] = history /\ history.status = "PRESENT" /\ history.value \in CurrentContent
    BY <1>7, <1>9 DEF Derived
<1> QED BY <1>1, <1>2, <1>5, <1>6, <1>10

\* Within an item the window does not move.
LEMMA SameWindow ==
    ASSUME UNCHANGED <<setting, items, asOf>>
    PROVE  /\ Whole' = Whole /\ WindowStart' = WindowStart
           /\ LatestSession[asOf]' = LatestSession[asOf] /\ Instrument' = Instrument
BY DEF Whole, Covered, NotOurs, Broken, ResolvedLabels, Labels, WindowStart, Instrument, Ticker, Symbol

\* Whether the checkpoint may advance depends on the prior fact and the results.
LEMMA SameAdvance ==
    ASSUME UNCHANGED <<setting, results>>, fact'["prior"] = fact["prior"]
    PROVE  MayAdvance' = MayAdvance
BY DEF MayAdvance, Triggers, Outcome, LastResult

\* A gate judges by the evaluation time and its facts, and by nothing else.
LEMMA SameVerdict ==
    ASSUME asOf' = asOf
    PROVE  \A gate, p, c, l : /\ Verdict(gate, p, c, l)' = Verdict(gate, p, c, l)
                              /\ Objects(p)' = Objects(p)
<1>1. \A p, c : TriggerSays(p, c)' = TriggerSays(p, c)
    BY DEF TriggerSays, TriggerReason
<1>2. \A p : Objects(p)' = Objects(p)
    BY DEF Objects
<1> QED BY <1>1, <1>2 DEF Verdict

\* No fact a gate has seen is replaced, so every result stands.
LEMMA ResultsStand ==
    ASSUME ShapeInv, ViewInv, NEW f \in Facts, Asks(f), NEW v, v # Unasked,
           fact' = [fact EXCEPT ![f] = v], UNCHANGED <<setting, results, asOf>>
    PROVE  /\ \A n \in DOMAIN results' : Grounded(n)'
           /\ pc = "prepare" => f = "light" /\ MayAdvance'
<1>1. Running /\ pc \in {"gate", "prepare"} /\ fact[f] = Unasked
    BY AsksWhereItRuns
<1>2. FactsInv /\ PipelineInv
    BY <1>1 DEF ViewInv
<1>3. \A g \in Facts \ {f} : fact'[g] = fact[g]
    BY FactKept DEF FactTypes, Facts
<1>4. fact'[f] = v
    BY FactKept DEF FactTypes, Facts
<1>5. ASSUME pc = "prepare"
      PROVE  MayAdvance /\ f = "light"
    <2>1. MayAdvance
        BY <1>2, <1>5 DEF PipelineInv, Preparing
    <2>2. fact["prior"] \in Witness /\ fact["content"] = history /\ history.status = "PRESENT"
        BY <1>1, <1>2, <2>1, AdvancingFacts DEF PipelineInv
    <2>3. fact["prior"] # Unasked /\ fact["content"] # Unasked
        BY <2>2, StatusesDiffer, WitnessIs
    <2> QED BY <1>1, <2>1, <2>3 DEF Facts
<1>6. ASSUME NEW n \in DOMAIN results
      PROVE  Grounded(n)'
    <2> DEFINE gate == setting.profile[n]
    <2>1. Grounded(n) /\ setting'.profile[n] = gate /\ results'[n] = results[n]
        BY <1>2 DEF PipelineInv
    <2>2. CASE gate.kind = "ema"
        <3>1. fact'["light"] = fact["light"] /\ fact["light"] # Unasked
            BY <1>1, <1>3, <2>1, <2>2 DEF Grounded, Facts
        <3>2. \A p, c : Verdict(gate, p, c, fact["light"]) = EmaResult(gate, fact["light"])
            BY <2>2 DEF Verdict
        <3>3. results'[n] = Verdict(gate, fact'["prior"], fact'["content"], fact'["light"])
            BY <2>1, <3>1, <3>2 DEF Grounded
        <3> QED BY <2>1, <2>2, <3>1, <3>3, SameVerdict DEF Grounded
    <2>3. CASE gate.kind # "ema"
        <3>1. fact["prior"] # Unasked /\ (Objects(fact["prior"]) \/ fact["content"] # Unasked)
            BY <2>1, <2>3 DEF Grounded
        <3>2. f # "content"
            BY <1>1, <1>5, <3>1 DEF Asks
        <3>3. fact'["prior"] = fact["prior"] /\ fact'["content"] = fact["content"]
            BY <1>1, <1>3, <3>1, <3>2 DEF Facts
        <3>4. \A l : Verdict(gate, fact["prior"], fact["content"], l)
                       = TriggerResult(TriggerSays(fact["prior"], fact["content"]))
            BY <2>3 DEF Verdict
        <3>5. results'[n] = Verdict(gate, fact["prior"], fact["content"], fact'["light"])
            BY <2>1, <3>4 DEF Grounded
        <3>6. Grounded(n)'
            BY <2>1, <2>3, <3>1, <3>3, <3>5, SameVerdict DEF Grounded
        <3> QED BY <3>6
    <2> QED BY <2>2, <2>3
<1>7. results' = results
    OBVIOUS
<1>8. pc = "prepare" => f = "light" /\ MayAdvance'
    <2>1. ASSUME pc = "prepare" PROVE fact'["prior"] = fact["prior"]
        BY <1>3, <1>5, <2>1 DEF Facts
    <2> QED BY <1>5, <2>1, SameAdvance
<1> QED BY <1>6, <1>7, <1>8

\* A fact that is loaded later was never used before: a grounded result stands.
LEMMA ReadsKeepView ==
    ASSUME ShapeInv, ViewInv, Reads
    PROVE  ViewInv'
<1>1. /\ Asks("prior") /\ "prior" \in Facts
      /\ UNCHANGED <<setting, checkpoint, pc, asOf, items, results, history>>
      /\ \E v \in {checkpoint[Instrument], Unavailable} : fact' = [fact EXCEPT !["prior"] = v]
    BY DEF Reads, ReadPrior, PriorUnavailable, Facts
<1>2. PICK v \in {checkpoint[Instrument], Unavailable} : fact' = [fact EXCEPT !["prior"] = v]
    BY <1>1
<1>3. Running /\ pc \in {"gate", "prepare"}
    BY <1>1, AsksWhereItRuns
<1>4. v # Unasked
    <2>1. checkpoint[Instrument] \in Witness
        BY <1>3, InstrumentTyped DEF ShapeInv, BatchTypeOK
    <2> QED BY <1>2, <2>1, WitnessIs, StatusesDiffer
<1>5. (\A n \in DOMAIN results' : Grounded(n)') /\ pc # "prepare"
    <2>1. "prior" # "light"
        OBVIOUS
    <2> QED BY <1>1, <1>2, <1>3, <1>4, <2>1, ResultsStand
<1>6. /\ fact'["prior"] = v /\ fact'["content"] = fact["content"] /\ fact'["light"] = fact["light"]
    BY <1>2, FactKept DEF FactTypes
<1>7. FactsInv'
    <2>1. FactsInv /\ pc' = "gate"
        BY <1>1, <1>3, <1>5 DEF ViewInv
    <2>2. Derived("content")' = Derived("content") /\ Derived("light")' = Derived("light")
        BY <1>1 DEF Derived, Observe
    <2> QED BY <1>1, <1>2, <1>6, <2>1, <2>2, SameWindow DEF FactsInv
<1>8. ~(Preparing \/ pc = "save")'
    BY <1>1, <1>3, <1>5 DEF Preparing
<1> QED BY <1>1, <1>5, <1>7, <1>8 DEF ViewInv, PipelineInv

\* Steps that leave the facts and the results.
LEMMA SamePipeline ==
    ASSUME PipelineInv, UNCHANGED <<setting, asOf, fact, results>>,
           (Preparing \/ pc = "save")' => Preparing, pc' # "save"
    PROVE  PipelineInv'
<1>1. MayAdvance' = MayAdvance
    BY SameAdvance
<1>2. ASSUME NEW n \in DOMAIN results
      PROVE  Grounded(n)'
    BY SameVerdict DEF Grounded, PipelineInv
<1> QED BY <1>1, <1>2 DEF PipelineInv

\* What is derived comes from the one history the producer holds.
LEMMA LooksKeepView ==
    ASSUME ShapeInv, ViewInv, Looks
    PROVE  ViewInv'
<1>1. /\ Running /\ pc \in {"gate", "prepare"}
      /\ UNCHANGED <<setting, checkpoint, asOf, items, results>>
    BY AsksWhereItRuns DEF Looks, SkipWindow, Acquire, DeriveFact, AsksForHistory, Facts
<1>2. FactsInv /\ PipelineInv
    BY <1>1 DEF ViewInv
<1>3. PipelineOver' = PipelineOver
    BY <1>1, SameResults
<1>4. CASE SkipWindow
    <2>1. history = Unasked /\ history' = Unavailable /\ UNCHANGED <<pc, fact>>
        BY <1>4 DEF SkipWindow
    <2>2. FactsInv'
        BY <1>1, <1>2, <2>1, SameWindow, StatusesDiffer DEF FactsInv
    <2>3. PipelineInv'
        BY <1>1, <1>2, <1>3, <2>1, SamePipeline DEF Preparing
    <2> QED BY <2>2, <2>3 DEF ViewInv
<1>5. CASE Acquire
    <2>1. history = Unasked /\ UNCHANGED <<history, fact>> /\ pc' = "request" /\ Whole
        BY <1>5 DEF Acquire, Whole
    <2>2. FactsInv'
        BY <1>1, <1>2, <2>1, SameWindow, StatusesDiffer DEF FactsInv
    <2>3. Preparing' => Preparing
        BY <1>1, <1>3, <2>1 DEF Preparing, ShapeInv
    <2>4. PipelineInv'
        BY <1>1, <1>2, <2>1, <2>3, SamePipeline
    <2> QED BY <2>2, <2>4 DEF ViewInv
<1>6. ASSUME NEW f \in Facts, DeriveFact(f)
      PROVE  ViewInv'
    <2>1. /\ f \in {"content", "light"} /\ Asks(f) /\ history # Unasked
          /\ fact' = [fact EXCEPT ![f] = Derived(f)] /\ UNCHANGED <<history, pc>>
        BY <1>6 DEF DeriveFact, ProducerKeeps
    <2>2. Derived(f) # Unasked
        <3>1. CASE history.status = "UNAVAILABLE"
            BY <3>1, StatusesDiffer DEF Derived
        <3>2. CASE history.status # "UNAVAILABLE"
            BY <2>1, <3>2, StatusesDiffer DEF Derived
        <3> QED BY <3>1, <3>2
    <2>3. (\A n \in DOMAIN results' : Grounded(n)') /\ (pc = "prepare" => f = "light" /\ MayAdvance')
        BY <1>1, <2>1, <2>2, ResultsStand
    <2>4. fact'[f] = Derived(f) /\ \A g \in Facts \ {f} : fact'[g] = fact[g]
        BY <2>1, FactKept DEF FactTypes, Facts
    <2>5. Derived("content")' = Derived("content") /\ Derived("light")' = Derived("light")
        BY <1>1, <2>1 DEF Derived, Observe
    <2>6. FactsInv'
        <3>1. fact'["prior"] = fact["prior"]
            BY <2>1, <2>4 DEF Facts
        <3>2. /\ fact'["content"] \in {Unasked, Derived("content")}
              /\ fact'["light"] \in {Unasked, Derived("light")}
            BY <1>2, <2>1, <2>4 DEF FactsInv, Facts
        <3> QED BY <1>1, <1>2, <2>1, <2>5, <3>1, <3>2, SameWindow DEF FactsInv
    <2>7. PipelineInv'
        BY <1>1, <2>1, <2>3 DEF PipelineInv, Preparing
    <2> QED BY <2>6, <2>7 DEF ViewInv
<1> QED BY <1>4, <1>5, <1>6 DEF Looks

LEMMA AnswersKeepView ==
    ASSUME ShapeInv, ViewInv, Answers
    PROVE  ViewInv'
<1>1. /\ pc = "request" /\ pc' \in {"request", "prepare", "gate"} /\ Running
      /\ UNCHANGED <<setting, checkpoint, asOf, items, results, fact>>
      /\ pc' = "prepare" => PipelineOver
    BY DEF Answers, Answered, Retry, NotAvailable, Resume, Running, Points
<1>2. FactsInv /\ PipelineInv
    BY <1>1 DEF ViewInv
<1>3. history = Unasked /\ Whole
    BY <1>1, <1>2 DEF FactsInv
<1>4. PipelineOver' = PipelineOver
    BY <1>1, SameResults
<1>5. PipelineInv'
    <2>1. Preparing' => Preparing
        BY <1>1, <1>4 DEF Preparing
    <2> QED BY <1>1, <1>2, <2>1, SamePipeline
<1>6. FactsInv'
    <2>1. fact["content"] = Unasked /\ fact["light"] = Unasked
        BY <1>2, <1>3 DEF FactsInv
    <2>2. CASE Answered
        <3>1. /\ history'.status = "PRESENT" /\ pc' # "request"
              /\ history'.value.session = LatestSession[asOf] /\ history'.value.start = WindowStart
            BY <2>2 DEF Answered, Present, Resume
        <3>2. history' # Unasked
            BY <3>1, StatusesDiffer
        <3> QED BY <1>1, <1>2, <1>3, <2>1, <3>1, <3>2, SameWindow DEF FactsInv
    <2>3. CASE Retry
        <3>1. history' = history
            BY <2>3 DEF Retry
        <3> QED BY <1>1, <1>2, <1>3, <2>1, <3>1, SameWindow, StatusesDiffer DEF FactsInv
    <2>4. CASE \E trouble \in Trouble : NotAvailable(trouble)
        <3>1. history' = Unavailable /\ pc' # "request"
            BY <2>4 DEF NotAvailable, Resume
        <3> QED BY <1>1, <1>2, <1>3, <2>1, <3>1, SameWindow, StatusesDiffer DEF FactsInv
    <2> QED BY <2>2, <2>3, <2>4 DEF Answers
<1> QED BY <1>5, <1>6 DEF ViewInv

\* A gate is judged only when every fact it asks for is there.
LEMMA JudgeKeepsView ==
    ASSUME ShapeInv, ViewInv, Judge
    PROVE  ViewInv'
<1> DEFINE r == Verdict(Occurrence, fact["prior"], fact["content"], fact["light"])
<1>1. /\ pc = "gate" /\ Running /\ results' = Append(results, r) /\ pc' \in {"gate", "over"}
      /\ \A f \in Facts : ~Asks(f)
      /\ UNCHANGED <<setting, checkpoint, asOf, items, fact, history>>
    BY DEF Judge, Running, Points
<1>2. FactsInv /\ PipelineInv
    BY <1>1 DEF ViewInv
<1>3. Len(results) + 1 \in DOMAIN setting.profile /\ Occurrence = setting.profile[Len(results) + 1]
    BY <1>1, OccurrenceTyped DEF Occurrence
<1>4. /\ Occurrence.kind = "ema" => fact["light"] # Unasked
      /\ Occurrence.kind # "ema" =>
            fact["prior"] # Unasked /\ (Objects(fact["prior"]) \/ fact["content"] # Unasked)
    BY <1>1, OccurrenceTyped DEF Asks, Facts
<1> HIDE DEF r
<1>5. /\ DOMAIN results' = DOMAIN results \cup {Len(results) + 1}
      /\ results'[Len(results) + 1] = r
      /\ \A n \in DOMAIN results : results'[n] = results[n] /\ n # Len(results) + 1
    <2>1. results \in Seq(Result) /\ r \in Result
        BY <1>1, ResultTyped DEF ShapeInv, BatchTypeOK, r
    <2> QED BY <1>1, <2>1
<1>9. /\ Len(results') = Len(results) + 1 /\ Len(results) \in Nat
      /\ \A n \in DOMAIN results : n \in Nat /\ n <= Len(results)
      /\ results # <<>> => results[Len(results)].disposition = "PASS"
    <2>1. results \in Seq(Result) /\ r \in Result /\ ~PipelineOver
        BY <1>1, ResultTyped DEF ShapeInv, BatchTypeOK, r
    <2> QED BY <1>1, <2>1 DEF PipelineOver, LastResult
<1>6. ASSUME NEW n \in DOMAIN results'
      PROVE  Grounded(n)'
    <2>1. CASE n = Len(results) + 1
        <3>1. results'[n] = Verdict(setting.profile[n], fact["prior"], fact["content"], fact["light"])
            BY <1>3, <1>5, <2>1 DEF r
        <3>2. ~(n < Len(results'))
            BY <1>9, <2>1
        <3> QED BY <1>1, <1>3, <1>4, <2>1, <3>1, <3>2, SameVerdict DEF Grounded
    <2>2. CASE n \in DOMAIN results
        <3>1. Grounded(n) /\ results'[n] = results[n]
            BY <1>2, <1>5, <2>2 DEF PipelineInv
        <3>2. results[n].disposition = "PASS"
            BY <1>9, <2>2, <3>1 DEF Grounded
        <3> QED BY <1>1, <3>1, <3>2, SameVerdict DEF Grounded
    <2> QED BY <1>5, <2>1, <2>2
<1>7. FactsInv'
    BY <1>1, <1>2, SameWindow DEF FactsInv, Derived, Observe
<1>8. ~(Preparing \/ pc = "save")'
    BY <1>1 DEF Preparing
<1> QED BY <1>6, <1>7, <1>8 DEF ViewInv, PipelineInv

LEMMA StartPreparationKeepsView ==
    ASSUME ShapeInv, ViewInv, StartPreparation
    PROVE  ViewInv'
<1>1. /\ pc = "over" /\ Running /\ pc' = "prepare" /\ MayAdvance
      /\ UNCHANGED <<setting, checkpoint, asOf, items, fact, history, results>>
    BY DEF StartPreparation, evaluation, Running, Points
<1>2. FactsInv /\ PipelineInv
    BY <1>1 DEF ViewInv
<1>3. FactsInv'
    BY <1>1, <1>2, SameWindow DEF FactsInv, Derived, Observe
<1>4. MayAdvance'
    BY <1>1, SameAdvance
<1>5. ASSUME NEW n \in DOMAIN results
      PROVE  Grounded(n)'
    BY <1>1, <1>2, SameVerdict DEF Grounded, PipelineInv
<1> QED BY <1>1, <1>3, <1>4, <1>5 DEF ViewInv, PipelineInv

\* The trigger's reason is what the comparison with the retained market facts says.
LEMMA ReasonsAgree ==
    ASSUME NEW w \in Witness, NEW c \in CurrentContent, NEW time \in Times,
           TriggerReason(w, time, c) \in OrdinaryReasons \cup {"UNCHANGED"}
    PROVE  /\ MarketReason(w, c) = TriggerReason(w, time, c)
           /\ HasMarket(w) => MarketOf(w).session <= c.session
<1>1. LatestSession[time] \in Int /\ c.session \in Int
      /\ (HasMarket(w) => MarketOf(w).session \in Int)
    BY WitnessIs, ObservationAssumption DEF CurrentContent, Market
<1> QED BY <1>1 DEF TriggerReason, MarketReason, OrdinaryReasons

\* What may advance can be compared with what is retained.
LEMMA AdvancesAreCoherent ==
    ASSUME NEW w \in Witness, NEW c \in CurrentContent, NEW time \in Times, NEW outcome,
           w.status = "PRESENT_COMPLETE_STATE" => Corresponds(w.state),
           Advances(w, TriggerReason(w, time, c), outcome)
    PROVE  ~Incoherent(PriorLight(w), Observe(Revision, c, time))
<1> DEFINE cur == Observe(Revision, c, time)
<1> SUFFICES ASSUME PriorLight(w) # NoLight
             PROVE  ~Incoherent(PriorLight(w), cur)
    BY DEF Incoherent
<1>1. /\ w.status = "PRESENT_COMPLETE_STATE" /\ PriorLight(w) = w.state.light
      /\ MarketOf(w) = w.state.market /\ HasMarket(w) /\ MarketOf(w) \in Market
    BY WitnessIs DEF PriorLight, MarketOf, HasMarket
<1>2. /\ PriorLight(w).session = MarketOf(w).session /\ PriorLight(w).start = MarketOf(w).start
      /\ PriorLight(w).content = MarketOf(w).content
    BY <1>1 DEF Corresponds
<1>3. cur.session = c.session /\ cur.start = c.start /\ cur.content = c.content
    BY DEF Observe
<1>4. TriggerReason(w, time, c) \in OrdinaryReasons
    BY <1>1 DEF Advances
<1>5. MarketOf(w).session <= c.session
    BY <1>1, <1>4, ReasonsAgree
<1>6. MarketOf(w).session \in Int /\ c.session \in Int /\ LatestSession[time] \in Int
    BY <1>1, ObservationAssumption DEF CurrentContent, Market
<1>7. MarketOf(w).session = c.session =>
          MarketOf(w).start = c.start /\ MarketOf(w).content # c.content
    BY <1>1, <1>4, <1>6 DEF TriggerReason, OrdinaryReasons
<1> HIDE DEF cur
<1> QED BY <1>2, <1>3, <1>5, <1>6, <1>7 DEF Incoherent

\* The content and the light observation a preparation works with.
LEMMA PreparationFacts ==
    ASSUME ShapeInv, ViewInv, pc = "prepare", ~Asks("light")
    PROVE  /\ MayAdvance /\ FactsInv /\ PipelineInv
           /\ fact["prior"] = checkpoint[Instrument] /\ fact["prior"] \in Witness
           /\ history.status = "PRESENT" /\ history.value \in CurrentContent
           /\ fact["content"] = history
           /\ fact["light"] = Present(Observe(Revision, history.value, asOf))
           /\ \A n \in Triggers \cap DOMAIN results :
                 /\ results[n].reason = TriggerReason(fact["prior"], asOf, history.value)
                 /\ Advances(fact["prior"], results[n].reason, Outcome)
<1>1. Running /\ FactsInv /\ PipelineInv
    BY DEF ViewInv, Running, Points
<1>2. MayAdvance /\ \A n \in DOMAIN results : Grounded(n)
    BY <1>1 DEF PipelineInv, Preparing
<1>3. /\ fact["prior"] = checkpoint[Instrument] /\ fact["prior"] \in Witness
      /\ history.status = "PRESENT" /\ history.value \in CurrentContent
      /\ fact["content"] = history
      /\ \A n \in Triggers \cap DOMAIN results :
            /\ results[n].reason = TriggerReason(fact["prior"], asOf, history.value)
            /\ Advances(fact["prior"], results[n].reason, Outcome)
    BY <1>1, <1>2, AdvancingFacts
<1>4. fact["light"] # Unasked
    BY DEF Asks
<1>5. fact["light"] = Derived("light")
    BY <1>1, <1>4 DEF FactsInv
<1>6. Derived("light") = Present(Observe(Revision, history.value, asOf))
    BY <1>3 DEF Derived
<1> QED BY <1>1, <1>2, <1>3, <1>5, <1>6

\* The checks of _prepare_state cannot fail, since both facts are of one history.
LEMMA PreparationSucceeds ==
    ASSUME ShapeInv, ViewInv, RetainedInv, pc = "prepare", ~Asks("light"),
           NEW n \in Triggers \cap DOMAIN results
    PROVE  Consistent(results[n].reason)
<1> DEFINE w == fact["prior"]
           c == history.value
           light == Observe(Revision, c, asOf)
<1>1. /\ w = checkpoint[Instrument] /\ w \in Witness /\ c \in CurrentContent
      /\ history.status = "PRESENT" /\ fact["content"] = history /\ fact["light"] = Present(light)
      /\ results[n].reason = TriggerReason(w, asOf, c)
      /\ Advances(w, TriggerReason(w, asOf, c), Outcome)
    BY PreparationFacts
<1>2. asOf \in Times /\ Instrument \in Instruments
    BY InstrumentTyped DEF ShapeInv, BatchTypeOK, Running, Points
<1>3. w.status = "PRESENT_COMPLETE_STATE" => Corresponds(w.state)
    BY <1>1, <1>2 DEF RetainedInv
<1>4. ~Incoherent(PriorLight(w), light)
    BY <1>1, <1>2, <1>3, AdvancesAreCoherent
<1>5. MarketReason(w, c) = TriggerReason(w, asOf, c)
    BY <1>1, <1>2, ReasonsAgree DEF Advances
<1>6. light.session = c.session /\ light.content = c.content /\ light.start = c.start
    BY DEF Observe
<1>7. fact["light"].status = "PRESENT" /\ fact["light"].value = light
    BY <1>1, StatusesDiffer
<1> HIDE DEF light
<1>8. CanPrepare(w, results[n].reason, light, c)
    BY <1>1, <1>4, <1>5 DEF CanPrepare
<1> QED BY <1>1, <1>6, <1>7, <1>8 DEF Consistent

LEMMA PrepareKeepsView ==
    ASSUME ShapeInv, ViewInv, RetainedInv, PrepareState
    PROVE  ViewInv' /\ pc' = "save" /\ items' = items
<1>1. /\ pc = "prepare" /\ ~Asks("content") /\ ~Asks("light") /\ Running
      /\ UNCHANGED <<setting, checkpoint, asOf, fact, history, results>>
    BY DEF PrepareState, Running, Points
<1>2. PICK n \in Triggers \cap DOMAIN results, stamp \in Stamps :
          IF Consistent(results[n].reason)
          THEN /\ proposal' = Prepare(fact["prior"], fact["light"].value, fact["content"].value,
                                      Outcome, stamp)
               /\ pc' = "save" /\ items' = items
          ELSE EndItem(Category("preparation")) /\ proposal' = proposal
    BY DEF PrepareState
<1>3. Consistent(results[n].reason)
    BY <1>1, PreparationSucceeds
<1>4. /\ proposal' = Prepare(fact["prior"], fact["light"].value, fact["content"].value,
                             Outcome, stamp)
      /\ pc' = "save" /\ items' = items
    BY <1>2, <1>3
<1>5. /\ MayAdvance /\ FactsInv /\ PipelineInv
      /\ history.value \in CurrentContent /\ fact["content"] = history
      /\ history.status = "PRESENT"
      /\ fact["light"] = Present(Observe(Revision, history.value, asOf))
    BY <1>1, PreparationFacts
<1>6. proposal'.light = fact["light"].value /\ ContentOf(proposal') = fact["content"].value
    <2> DEFINE light == fact["light"].value
               c == fact["content"].value
    <2>1. c \in CurrentContent
        BY <1>5
    <2>2. c = [session |-> c.session, content |-> c.content, start |-> c.start]
        BY <2>1 DEF CurrentContent
    <2> HIDE DEF light, c
    <2>3. /\ proposal'.light = light
          /\ proposal'.market = [session |-> c.session, content |-> c.content, start |-> c.start,
                                 observedAt |-> stamp]
        BY <1>4 DEF Prepare, light, c
    <2>4. ContentOf(proposal') = c
        BY <2>2, <2>3 DEF ContentOf
    <2> QED BY <2>3, <2>4 DEF light, c
<1>7. Proposed'
    <2>1. Outcome' = Outcome
        BY <1>1 DEF Outcome, LastResult
    <2>2. /\ fact'["content"] = fact["content"] /\ fact'["light"] = fact["light"]
          /\ fact'["prior"] = fact["prior"]
        BY <1>1
    <2>3. fact["content"].status = "PRESENT" /\ fact["light"].status = "PRESENT"
        BY <1>5, StatusesDiffer
    <2> QED BY <1>4, <1>6, <2>1, <2>2, <2>3 DEF Proposed, ContentOf, Prepare
<1>8. FactsInv'
    BY <1>1, <1>4, <1>5, SameWindow DEF FactsInv, Derived, Observe
<1>9. MayAdvance' /\ \A m \in DOMAIN results : Grounded(m)'
    BY <1>1, <1>5, SameAdvance, SameVerdict DEF Grounded, PipelineInv
<1> QED BY <1>1, <1>4, <1>7, <1>8, <1>9 DEF ViewInv, PipelineInv

\* What is known when a state is about to be saved.
LEMMA ProposedFacts ==
    ASSUME ShapeInv, ViewInv, pc = "save"
    PROVE  /\ Running /\ FactsInv /\ PipelineInv /\ Whole /\ Instrument \in Instruments
           /\ proposal \in ObservationState
           /\ fact["prior"] = checkpoint[Instrument] /\ fact["prior"] \in Witness
           /\ history.value \in CurrentContent /\ fact["content"] = Present(history.value)
           /\ ContentOf(proposal) = history.value
           /\ proposal.light = Observe(Revision, history.value, asOf)
           /\ fact["light"] = Present(proposal.light)
           /\ proposal.market.session = LatestSession[asOf] /\ proposal.market.start = WindowStart
           /\ \E n \in Triggers \cap DOMAIN results :
                 Advances(fact["prior"], TriggerReason(fact["prior"], asOf, history.value), Outcome)
<1>1. Running /\ FactsInv /\ PipelineInv /\ proposal \in ObservationState
    BY DEF ViewInv, Running, Points, ShapeInv
<1>2. MayAdvance /\ Proposed /\ \A n \in DOMAIN results : Grounded(n)
    BY <1>1 DEF PipelineInv
<1>3. /\ fact["prior"] = checkpoint[Instrument] /\ fact["prior"] \in Witness
      /\ history.status = "PRESENT" /\ fact["content"] = history /\ history.value \in CurrentContent
      /\ \A n \in Triggers \cap DOMAIN results :
            /\ results[n].reason = TriggerReason(fact["prior"], asOf, history.value)
            /\ Advances(fact["prior"], results[n].reason, Outcome)
    BY <1>1, <1>2, AdvancingFacts
<1>4. Whole /\ history.value.session = LatestSession[asOf] /\ history.value.start = WindowStart
    BY <1>1, <1>3 DEF FactsInv
<1>5. history = Present(history.value)
    <2>1. history \in [status: {"PRESENT"}, value: CurrentContent]
        BY <1>3, StatusesDiffer DEF ShapeInv, BatchTypeOK
    <2> QED BY <2>1 DEF Present
<1>6. ContentOf(proposal) = history.value
    BY <1>2, <1>3 DEF Proposed
<1>7. proposal.market.session = history.value.session /\ proposal.market.start = history.value.start
    BY <1>6 DEF ContentOf
<1>8. fact["light"] = Derived("light") /\ Derived("light") = Present(Observe(Revision, history.value, asOf))
    BY <1>1, <1>2, <1>3, StatusesDiffer DEF FactsInv, Proposed, Derived
<1>9. proposal.light = Observe(Revision, history.value, asOf)
    BY <1>2, <1>8, StatusesDiffer DEF Proposed
<1>10. \E n \in Triggers \cap DOMAIN results :
           Advances(fact["prior"], TriggerReason(fact["prior"], asOf, history.value), Outcome)
    BY <1>2, <1>3 DEF MayAdvance
<1>11. Instrument \in Instruments
    BY <1>1, InstrumentTyped
<1> QED BY <1>1, <1>3, <1>4, <1>5, <1>6, <1>7, <1>8, <1>9, <1>10, <1>11

\* A saved state changes the checkpoint, is of this evaluation, and of sessions on
\* which the ticker meant the instrument.
LEMMA SavedState ==
    ASSUME ShapeInv, ViewInv, pc = "save"
    PROVE  /\ Complete(proposal) # checkpoint[Instrument] /\ proposal.light.asOf = asOf
           /\ Corresponds(proposal)
           /\ Ours(setting.registry, Instrument, Complete(proposal))
<1> DEFINE c == history.value
           w == fact["prior"]
<1>1. /\ Running /\ FactsInv /\ Whole /\ Instrument \in Instruments /\ proposal \in ObservationState
      /\ w = checkpoint[Instrument] /\ w \in Witness /\ c \in CurrentContent
      /\ ContentOf(proposal) = c /\ proposal.light = Observe(Revision, c, asOf)
      /\ proposal.market.session = LatestSession[asOf] /\ proposal.market.start = WindowStart
      /\ Advances(w, TriggerReason(w, asOf, c), Outcome)
    BY ProposedFacts
<1>2. /\ proposal.market.session = c.session /\ proposal.market.content = c.content
      /\ proposal.market.start = c.start
    BY <1>1 DEF ContentOf
<1>3. proposal.light.asOf = asOf /\ Corresponds(proposal)
    BY <1>1, <1>2 DEF Observe, Corresponds
<1>4. Complete(proposal) # checkpoint[Instrument]
    <2> SUFFICES ASSUME w = Complete(proposal) PROVE FALSE
        BY <1>1
    <2>1. w.status = "PRESENT_COMPLETE_STATE" /\ MarketOf(w) = proposal.market /\ HasMarket(w)
        BY StatusesDiffer DEF MarketOf, HasMarket
    <2>2. LatestSession[asOf] \in Int
        BY ObservationAssumption DEF ShapeInv, BatchTypeOK
    <2>3. TriggerReason(w, asOf, c) \notin OrdinaryReasons
        BY <1>1, <1>2, <2>1, <2>2 DEF TriggerReason, OrdinaryReasons
    <2> QED BY <1>1, <2>1, <2>3 DEF Advances
<1>5. Observed(Complete(proposal)) = Labels
    <2>1. MarketOf(Complete(proposal)) = proposal.market
        BY StatusesDiffer DEF MarketOf
    <2>2. Labels = {d \in TradingDays : WindowStart <= d /\ d <= LatestSession[asOf]}
        BY <1>1, WindowTyped DEF Whole
    <2> QED BY <1>1, <2>1, <2>2 DEF Observed
<1>6. TickersOf(setting.registry, Instrument) = {Ticker}
    <2>1. Selectable(setting.registry, Symbol) /\ setting.registry \in Registry /\ pc # "off"
        BY <1>1, SettingFacts DEF ShapeInv, BatchTypeOK
    <2> QED BY <2>1, SymbolTyped, SelectionIsOne DEF Instrument, Ticker
<1>7. ASSUME NEW label \in Labels
      PROVE  /\ Meanings(setting.registry, Ticker, label) # {}
             /\ \A m \in Meanings(setting.registry, Ticker, label) : m.instrument = Instrument
    <2>1. ~Conflicts(setting.registry, Instrument, Ticker, Labels) /\ ~Interrupted(setting.registry, Ticker, Labels)
        BY <1>1 DEF Whole, NotOurs, Broken, ResolvedLabels
    <2> QED BY <2>1 DEF Conflicts, Interrupted
<1> QED BY <1>3, <1>4, <1>5, <1>6, <1>7 DEF Ours

\* Only a save writes a checkpoint, and what it writes is about one window of the
\* instrument.
LEMMA RetainedStep ==
    ASSUME ShapeInv, ViewInv, RetainedInv, [Next]_vars
    PROVE  RetainedInv'
<1>1. setting' = setting
    BY NextIs, EndsAre DEF StartBatch, BeginItem, Reads, ReadPrior, PriorUnavailable, Looks, SkipWindow,
           Acquire, DeriveFact, Answers, Answered, Retry, NotAvailable, Judge, StartPreparation,
           PrepareState, Save, SaveFails, Crash, Revise, vars
<1>2. CASE Save \/ SaveFails
    <2>1. /\ pc = "save"
          /\ \E state \in {checkpoint[Instrument], Complete(proposal)} :
                checkpoint' = [checkpoint EXCEPT ![Instrument] = state]
        BY <1>2 DEF Save, SaveFails
    <2>2. PICK state \in {checkpoint[Instrument], Complete(proposal)} :
             checkpoint' = [checkpoint EXCEPT ![Instrument] = state]
        BY <2>1
    <2>3. checkpoint \in [Instruments -> Witness] /\ Instrument \in Instruments
        BY <2>1, ProposedFacts DEF ShapeInv, BatchTypeOK
    <2>4. /\ Corresponds(Complete(proposal).state)
          /\ Ours(setting.registry, Instrument, Complete(proposal))
        BY <2>1, SavedState, StatusesDiffer
    <2>5. ASSUME NEW i \in Instruments, checkpoint'[i].status = "PRESENT_COMPLETE_STATE"
          PROVE  Corresponds(checkpoint'[i].state) /\ Ours(setting.registry, i, checkpoint'[i])
        <3>1. CASE i = Instrument /\ state = Complete(proposal)
            <4>1. checkpoint'[i] = Complete(proposal)
                BY <2>2, <2>3, <3>1
            <4> QED BY <2>4, <3>1, <4>1
        <3>2. CASE ~(i = Instrument /\ state = Complete(proposal))
            <4>1. checkpoint'[i] = checkpoint[i]
                BY <2>2, <2>3, <3>2
            <4> QED BY <2>5, <4>1 DEF RetainedInv
        <3> QED BY <3>1, <3>2
    <2> QED BY <1>1, <2>5 DEF RetainedInv
<1>3. CASE ~(Save \/ SaveFails)
    <2>1. checkpoint' = checkpoint
        BY <1>3, NextIs, EndsAre DEF StartBatch, BeginItem, Reads, ReadPrior, PriorUnavailable, Looks,
               SkipWindow, Acquire, DeriveFact, Answers, Answered, Retry, NotAvailable, Judge,
               StartPreparation, PrepareState, Crash, Revise, vars
    <2> QED BY <1>1, <2>1 DEF RetainedInv
<1> QED BY <1>2, <1>3

LEMMA ViewStep ==
    ASSUME ShapeInv, ShapeInv', ViewInv, RetainedInv, [Next]_vars
    PROVE  ViewInv'
<1>1. CASE StartBatch \/ Ends \/ Save \/ SaveFails \/ Crash
    <2>1. pc' \in {"off", "next"}
        BY <1>1, EndsAre DEF StartBatch, Save, SaveFails, Crash, EndItem
    <2> QED BY <2>1 DEF ViewInv, Running
<1>2. CASE BeginItem
    <2>1. /\ pc' = "gate" /\ results' = <<>> /\ history' = Unasked
          /\ fact' = [f \in Facts |-> Unasked]
        BY <1>2 DEF BeginItem
    <2>2. fact'["prior"] = Unasked /\ fact'["content"] = Unasked /\ fact'["light"] = Unasked
        BY <2>1 DEF Facts
    <2>3. FactsInv'
        BY <2>1, <2>2, StatusesDiffer DEF FactsInv
    <2>4. PipelineInv'
        BY <2>1 DEF PipelineInv, Preparing
    <2> QED BY <2>3, <2>4 DEF ViewInv
<1>3. CASE \/ \E ticker \in Tickers, content \in Contents : Revise(ticker, content)
           \/ UNCHANGED vars
    <2>1. UNCHANGED <<setting, checkpoint, pc, asOf, items, fact, history, results, proposal>>
        BY <1>3 DEF Revise, evaluation, vars
    <2>2. Running' = Running /\ Preparing' = Preparing /\ Proposed' = Proposed
        <3>1. Outcome' = Outcome
            BY <2>1 DEF Outcome, LastResult
        <3> QED BY <2>1, <3>1, SameResults DEF Running, Preparing, Proposed, ContentOf, Prepare
    <2>3. FactsInv => FactsInv'
        BY <2>1, SameWindow DEF FactsInv, Derived, Observe
    <2>4. \A n \in DOMAIN results : Grounded(n) => Grounded(n)'
        BY <2>1, SameVerdict DEF Grounded
    <2>5. PipelineInv => PipelineInv'
        BY <2>1, <2>2, <2>4, SameAdvance DEF PipelineInv
    <2> QED BY <2>2, <2>3, <2>5 DEF ViewInv
<1> QED BY <1>1, <1>2, <1>3, NextIs, ReadsKeepView, LooksKeepView, AnswersKeepView, JudgeKeepsView,
           StartPreparationKeepsView, PrepareKeepsView

LEMMA InitRetained ==
    ASSUME Init
    PROVE  ViewInv /\ RetainedInv
BY SettingFacts DEF Init, ViewInv, Running, RetainedInv

LEMMA Viewed == Spec => [](ViewInv /\ RetainedInv)
<1>1. Init => ViewInv /\ RetainedInv
    BY InitRetained
<1>2. ShapeInv /\ ShapeInv' /\ (ViewInv /\ RetainedInv) /\ [Next]_vars => (ViewInv /\ RetainedInv)'
    BY ViewStep, RetainedStep
<1> QED BY <1>1, <1>2, Shaped, PTL DEF Spec

\* Instruments that a document knows by one ticker hold complete observations of
\* disjoint sessions: a ticker that was given away never lends its later history.
THEOREM NoTickerIsStitched == Spec => []TickersAreNotStitched
<1>1. ShapeInv /\ RetainedInv => TickersAreNotStitched
    <2> SUFFICES ASSUME ShapeInv, RetainedInv, NEW i \in Instruments, NEW j \in Instruments, i # j,
                        checkpoint[i].status = "PRESENT_COMPLETE_STATE",
                        checkpoint[j].status = "PRESENT_COMPLETE_STATE",
                        NEW ticker \in TickersOf(setting.registry, i) \cap TickersOf(setting.registry, j),
                        NEW d \in Observed(checkpoint[i]) \cap Observed(checkpoint[j])
                 PROVE  FALSE
        BY DEF TickersAreNotStitched
    <2>1. Ours(setting.registry, i, checkpoint[i]) /\ Ours(setting.registry, j, checkpoint[j])
        BY DEF RetainedInv
    <2>2. PICK m \in Meanings(setting.registry, ticker, d) : TRUE
        BY <2>1 DEF Ours
    <2>3. m.instrument = i /\ m.instrument = j
        BY <2>1, <2>2 DEF Ours
    <2> QED BY <2>3
<1> QED BY <1>1, Shaped, Viewed, PTL

-----------------------------------------------------------------------------
(* Items *)

\* An item before the save says that nothing was saved: no preparation fails.
LEMMA EndsWell ==
    ASSUME ShapeInv, ViewInv, Ends
    PROVE  \E result \in {"NOT_ADVANCED", "EXECUTION_ERROR"} : EndItem(result)
<1>1. CASE RefuseItem \/ SetupFails \/ DoNotAdvance
    <2>1. Category("other") = "EXECUTION_ERROR"
        BY DEF Category
    <2>2. EndItem(Category("other")) \/ EndItem("NOT_ADVANCED")
        BY <1>1 DEF RefuseItem, SetupFails, DoNotAdvance
    <2> QED BY <2>1, <2>2
<1>2. CASE ~(RefuseItem \/ SetupFails \/ DoNotAdvance)
    <2>0. PriorFails \/ RefuseWindow \/ Unsendable \/ \E trouble \in Trouble : RequestFails(trouble)
        BY <1>2 DEF Ends
    <2>1. /\ EndItem(LoaderError)
          /\ Asks("prior") \/ (AsksForHistory /\ history = Unasked) \/ pc = "request"
        <3>1. CASE PriorFails
            BY <3>1 DEF PriorFails, LoaderRaises
        <3>2. CASE RefuseWindow
            BY <3>2 DEF RefuseWindow, LoaderRaises
        <3>3. CASE Unsendable
            BY <3>3 DEF Unsendable, LoaderRaises
        <3>4. CASE \E trouble \in Trouble : RequestFails(trouble)
            BY <3>4 DEF RequestFails
        <3> QED BY <2>0, <3>1, <3>2, <3>3, <3>4
    <2>2. Running /\ pc \in {"gate", "prepare", "request"}
        BY <2>1, AsksWhereItRuns DEF AsksForHistory, Facts, Running, Points
    <2>3. FactsInv /\ PipelineInv
        BY <2>2 DEF ViewInv
    <2>4. fact["prior"] = Unasked \/ history = Unasked
        BY <2>1, <2>3 DEF Asks, FactsInv
    <2>5. ~MayAdvance
        <3> SUFFICES ASSUME MayAdvance PROVE FALSE
            OBVIOUS
        <3>1. fact["prior"] \in Witness /\ history.status = "PRESENT"
            BY <2>2, <2>3, AdvancingFacts DEF PipelineInv
        <3> QED BY <2>4, <3>1, WitnessIs, StatusesDiffer
    <2>6. ~PipelineOver
        BY <2>2, <2>3, <2>5 DEF PipelineInv, Preparing, ShapeInv
    <2>7. LoaderError = "NOT_ADVANCED"
        BY <2>6 DEF LoaderError
    <2> QED BY <2>1, <2>7
<1> QED BY <1>1, <1>2

\* The checkpoint is the one the batch found.
Kept(symbol) ==
    Selectable(setting.registry, symbol) =>
        checkpoint[InstrumentOf(setting.registry, symbol)]
           = before[InstrumentOf(setting.registry, symbol)]

\* The checkpoint is a complete state of this evaluation time.
Changed(symbol) ==
    LET i == InstrumentOf(setting.registry, symbol) IN
    /\ checkpoint[i] # before[i]
    /\ checkpoint[i].status = "PRESENT_COMPLETE_STATE"
    /\ checkpoint[i].state.light.asOf = asOf

\* What an item says of its symbol is so.
Told(item) ==
    Selectable(setting.registry, item.symbol) =>
        \/ item.result \in {"SAVED", "CHECKPOINT_SAVE_FAILED"} /\ Changed(item.symbol)
        \/ item.result # "SAVED" /\ Kept(item.symbol)

\* Every item is told, and what is not reached yet is kept.
ItemInv ==
    /\ \A n \in DOMAIN items :
          /\ items[n].symbol = setting.symbols[n] /\ Told(items[n])
          /\ items[n].result # "OBSERVATION_PREPARATION_FAILED"
    /\ pc # "off" => \A n \in (Len(items) + 1)..Len(setting.symbols) : Kept(setting.symbols[n])
    /\ pc = "off" /\ items # <<>> => Len(items) = Len(setting.symbols)

\* Steps within an item leave the items as they are.
LEMMA ItemsKept ==
    ASSUME ItemInv, UNCHANGED <<setting, items, checkpoint, before, asOf>>, pc' = "off" <=> pc = "off"
    PROVE  ItemInv'
<1>1. \A symbol : Kept(symbol)' = Kept(symbol) /\ Changed(symbol)' = Changed(symbol)
    BY DEF Kept, Changed
<1>2. \A item : Told(item)' = Told(item)
    BY <1>1 DEF Told
<1> QED BY <1>1, <1>2 DEF ItemInv

\* An item ends: what was said of the earlier ones, and what is not reached yet,
\* still stands, and the new one is told.
LEMMA ItemEnds ==
    ASSUME ShapeInv, ItemInv, pc # "off", setting' = setting,
           NEW result \in ItemResults \ {"OBSERVATION_PREPARATION_FAILED"}, EndItem(result),
           NEW item, item = [symbol |-> Symbol, result |-> result],
           \A it \in Item : it.symbol # Symbol /\ Told(it) => Told(it)',
           \A symbol \in Symbols : symbol # Symbol /\ Kept(symbol) => Kept(symbol)',
           Told(item)'
    PROVE  ItemInv'
<1> DEFINE N == Len(items) + 1
<1>1. /\ setting.symbols \in Seq(Symbols) /\ items \in Seq(Item)
      /\ \A m, n \in DOMAIN setting.symbols : setting.symbols[m] = setting.symbols[n] => m = n
      /\ Len(items) < Len(setting.symbols) /\ Symbol = setting.symbols[N] /\ N \in Nat
    BY SettingFacts DEF ShapeInv, BatchTypeOK, Symbol
<1>2. /\ items' = Append(items, item) /\ Len(items') = N /\ items' \in Seq(Item)
      /\ pc' = "off" => Len(items') = Len(setting.symbols)
    BY EndItemShape
<1>3. item.symbol = Symbol /\ item.result = result
    OBVIOUS
<1>4. /\ DOMAIN items' = 1..N /\ DOMAIN items = 1..(N - 1) /\ items'[N] = item
      /\ \A n \in 1..(N - 1) : items'[n] = items[n]
    BY <1>1, <1>2
<1>5. \A n \in DOMAIN setting.symbols :
          setting.symbols[n] \in Symbols /\ (n # N => setting.symbols[n] # Symbol)
    BY <1>1
<1>6. ASSUME NEW n \in DOMAIN items'
      PROVE  \E it : /\ items'[n] = it /\ it.symbol = setting.symbols[n] /\ Told(it)'
                     /\ it.result # "OBSERVATION_PREPARATION_FAILED"
    <2>1. CASE n = N
        BY <1>1, <1>3, <1>4, <2>1
    <2>2. CASE n # N
        <3>1. n \in DOMAIN items /\ items'[n] = items[n] /\ n \in DOMAIN setting.symbols
            BY <1>1, <1>4, <2>2
        <3>2. PICK it \in Item : it = items[n]
            BY <1>1, <3>1
        <3>3. /\ it.symbol = setting.symbols[n] /\ Told(it)
              /\ it.result # "OBSERVATION_PREPARATION_FAILED"
            BY <3>1, <3>2 DEF ItemInv
        <3>4. Told(it)'
            BY <1>5, <2>2, <3>1, <3>2, <3>3
        <3> QED BY <3>1, <3>2, <3>3, <3>4
    <2> QED BY <2>1, <2>2
<1>7. ASSUME NEW n \in (Len(items') + 1)..Len(setting.symbols)
      PROVE  Kept(setting.symbols[n])'
    <2>1. n \in (Len(items) + 1)..Len(setting.symbols) /\ n # N /\ n \in DOMAIN setting.symbols
        BY <1>1, <1>2
    <2>2. PICK symbol \in Symbols : symbol = setting.symbols[n]
        BY <1>5, <2>1
    <2>3. Kept(symbol) /\ symbol # Symbol
        <3>1. Kept(setting.symbols[n])
            BY <2>1 DEF ItemInv
        <3> QED BY <1>5, <2>1, <2>2, <3>1
    <2>4. Kept(symbol)'
        BY <2>3
    <2> QED BY <2>2, <2>4
<1>8. \A n \in DOMAIN items' :
          /\ items'[n].symbol = setting'.symbols[n] /\ Told(items[n])'
          /\ items'[n].result # "OBSERVATION_PREPARATION_FAILED"
    BY <1>6
<1>9. pc' = "off" => Len(items') = Len(setting.symbols)
    BY <1>2
<1> QED BY <1>7, <1>8, <1>9 DEF ItemInv

\* Nothing else than the checkpoint of the current instrument is touched.
LEMMA OthersStand ==
    ASSUME ShapeInv, pc = "save", UNCHANGED <<setting, asOf, before>>,
           NEW state, checkpoint' = [checkpoint EXCEPT ![Instrument] = state]
    PROVE  /\ \A symbol \in Symbols : symbol # Symbol /\ Kept(symbol) => Kept(symbol)'
           /\ \A item \in Item : item.symbol # Symbol /\ Told(item) => Told(item)'
<1>1. /\ setting.registry \in Registry /\ Selectable(setting.registry, Symbol) /\ Symbol \in Symbols
      /\ checkpoint \in [Instruments -> Witness]
    BY SettingFacts, SymbolTyped DEF ShapeInv, BatchTypeOK, Running, Points
<1>2. ASSUME NEW symbol \in Symbols, symbol # Symbol, Selectable(setting.registry, symbol)
      PROVE  checkpoint'[InstrumentOf(setting.registry, symbol)]
                = checkpoint[InstrumentOf(setting.registry, symbol)]
    <2>1. /\ InstrumentOf(setting.registry, symbol) # Instrument
          /\ InstrumentOf(setting.registry, symbol) \in Instruments
        BY <1>1, <1>2, SelectionIsOne DEF Instrument
    <2> QED BY <1>1, <2>1
<1>3. ASSUME NEW symbol \in Symbols, symbol # Symbol
      PROVE  Kept(symbol) => Kept(symbol)'
    BY <1>2, <1>3 DEF Kept
<1>4. ASSUME NEW item \in Item, item.symbol # Symbol, Told(item)
      PROVE  Told(item)'
    <2>0. item.symbol \in Symbols
        BY DEF Item
    <2>1. CASE Selectable(setting.registry, item.symbol)
        <3>1. Changed(item.symbol) => Changed(item.symbol)'
            BY <1>2, <1>4, <2>0, <2>1 DEF Changed
        <3>2. Kept(item.symbol) => Kept(item.symbol)'
            BY <1>3, <1>4, <2>0
        <3> QED BY <1>4, <2>1, <3>1, <3>2 DEF Told
    <2>2. CASE ~Selectable(setting.registry, item.symbol)
        BY <2>2 DEF Told
    <2> QED BY <2>1, <2>2
<1> QED BY <1>3, <1>4

\* The symbol in turn has its checkpoint untouched.
LEMMA CurrentIsKept ==
    ASSUME ShapeInv, ItemInv, pc # "off"
    PROVE  Kept(Symbol)
<1>1. Len(items) + 1 \in (Len(items) + 1)..Len(setting.symbols)
    <2>1. /\ Len(items) + 1 \in DOMAIN setting.symbols /\ Len(items) \in Nat
          /\ setting.symbols \in Seq(Symbols)
        BY SymbolTyped, SettingFacts DEF ShapeInv, BatchTypeOK
    <2> QED BY <2>1
<1> QED BY <1>1 DEF ItemInv, Symbol

\* An item that ends without a save leaves its checkpoint.
LEMMA EndsAreTold ==
    ASSUME ShapeInv, ViewInv, ItemInv, Ends
    PROVE  ItemInv'
<1>1. PICK result \in {"NOT_ADVANCED", "EXECUTION_ERROR"} : EndItem(result)
    BY EndsWell
<1>2. pc # "off" /\ UNCHANGED <<setting, checkpoint, before, asOf>>
    BY EndsAre
<1>3. PICK item \in Item : item = [symbol |-> Symbol, result |-> result]
    <2>1. Symbol \in Symbols
        BY <1>2, SymbolTyped
    <2> QED BY <2>1 DEF Item, Failures
<1>4. /\ \A it : Told(it)' = Told(it)
      /\ \A symbol : Kept(symbol)' = Kept(symbol)
    BY <1>2 DEF Told, Kept, Changed
<1>5. Told(item)
    <2>1. item.symbol = Symbol /\ item.result # "SAVED"
        BY <1>1, <1>3
    <2> QED BY <1>2, <2>1, CurrentIsKept DEF Told
<1>6. result \in ItemResults \ {"OBSERVATION_PREPARATION_FAILED"}
    BY <1>1 DEF ItemResults, Failures
<1> QED BY <1>1, <1>2, <1>3, <1>4, <1>5, <1>6, ItemEnds

\* An item that ends with a save, or with one that failed.
LEMMA SavesAreTold ==
    ASSUME ShapeInv, ViewInv, ItemInv, Save \/ SaveFails
    PROVE  ItemInv'
<1>1. /\ pc = "save" /\ UNCHANGED <<setting, before, asOf>>
      /\ \E state \in {checkpoint[Instrument], Complete(proposal)} :
            checkpoint' = [checkpoint EXCEPT ![Instrument] = state]
      /\ \/ EndItem("SAVED") /\ checkpoint' = [checkpoint EXCEPT ![Instrument] = Complete(proposal)]
         \/ EndItem("CHECKPOINT_SAVE_FAILED")
    <2>1. Category("advancement") = "CHECKPOINT_SAVE_FAILED"
        BY DEF Category
    <2>2. CASE Save
        BY <2>2 DEF Save
    <2>3. CASE SaveFails
        BY <2>1, <2>3 DEF SaveFails
    <2> QED BY <2>2, <2>3
<1>2. PICK state \in {checkpoint[Instrument], Complete(proposal)} :
         checkpoint' = [checkpoint EXCEPT ![Instrument] = state]
    BY <1>1
<1>3. PICK result \in {"SAVED", "CHECKPOINT_SAVE_FAILED"} :
         /\ EndItem(result)
         /\ result = "SAVED" => checkpoint' = [checkpoint EXCEPT ![Instrument] = Complete(proposal)]
    BY <1>1
<1>4. PICK item \in Item : item = [symbol |-> Symbol, result |-> result]
    <2>1. Symbol \in Symbols
        BY <1>1, SymbolTyped
    <2> QED BY <2>1 DEF Item, Failures
<1>5. /\ checkpoint \in [Instruments -> Witness] /\ Instrument \in Instruments
      /\ checkpoint[Instrument] = before[Instrument]
    <2>1. Instrument \in Instruments /\ Selectable(setting.registry, Symbol)
        BY <1>1, ProposedFacts DEF ShapeInv
    <2> QED BY <1>1, <2>1, CurrentIsKept DEF Kept, Instrument, ShapeInv, BatchTypeOK
<1>6. Told(item)'
    <2>1. item.symbol = Symbol /\ item.result = result
        BY <1>4
    <2>2. PICK i \in Instruments : i = Instrument
        BY <1>5
    <2>3. InstrumentOf(setting'.registry, item.symbol) = i /\ before'[i] = before[i] /\ asOf' = asOf
        BY <1>1, <2>1, <2>2 DEF Instrument
    <2>4. CASE checkpoint' = [checkpoint EXCEPT ![Instrument] = Complete(proposal)]
        <3>1. checkpoint'[i] = Complete(proposal) /\ Complete(proposal) # before[i]
            BY <1>1, <1>5, <2>2, <2>4, SavedState
        <3>2. /\ Complete(proposal).status = "PRESENT_COMPLETE_STATE"
              /\ Complete(proposal).state.light.asOf = asOf
            BY <1>1, SavedState, StatusesDiffer
        <3>3. checkpoint'[i] # before'[i] /\ checkpoint'[i].status = "PRESENT_COMPLETE_STATE"
              /\ checkpoint'[i].state.light.asOf = asOf'
            BY <2>3, <3>1, <3>2
        <3>4. Changed(item.symbol)'
            BY <2>3, <3>3 DEF Changed
        <3> QED BY <1>3, <2>1, <3>4 DEF Told
    <2>5. CASE checkpoint' # [checkpoint EXCEPT ![Instrument] = Complete(proposal)]
        <3>1. result # "SAVED"
            BY <1>3, <2>5
        <3>2. checkpoint'[i] = before[i]
            BY <1>2, <1>5, <2>2, <2>5
        <3>3. Kept(item.symbol)'
            BY <2>3, <3>2 DEF Kept
        <3> QED BY <2>1, <3>1, <3>3 DEF Told
    <2> QED BY <2>4, <2>5
<1>7. /\ \A symbol \in Symbols : symbol # Symbol /\ Kept(symbol) => Kept(symbol)'
      /\ \A it \in Item : it.symbol # Symbol /\ Told(it) => Told(it)'
    BY <1>1, <1>2, OthersStand
<1>8. result \in ItemResults \ {"OBSERVATION_PREPARATION_FAILED"} /\ pc # "off"
    BY <1>1, <1>3 DEF ItemResults, Failures
<1> QED BY <1>1, <1>3, <1>4, <1>6, <1>7, <1>8, ItemEnds

LEMMA ItemStep ==
    ASSUME ShapeInv, ViewInv, RetainedInv, ItemInv, [Next]_vars
    PROVE  ItemInv'
<1>1. CASE StartBatch
    <2>1. items' = <<>> /\ pc' = "next" /\ before' = checkpoint' /\ checkpoint' = checkpoint
        BY <1>1 DEF StartBatch
    <2> QED BY <2>1 DEF ItemInv, Kept
<1>2. CASE Crash
    BY <1>2 DEF Crash, ItemInv
<1>3. CASE PrepareState
    <2>1. pc' = "save" /\ items' = items
        BY <1>3, PrepareKeepsView
    <2>2. pc # "off" /\ UNCHANGED <<setting, checkpoint, before, asOf>>
        BY <1>3 DEF PrepareState
    <2> QED BY <2>1, <2>2, ItemsKept
<1>4. CASE \/ BeginItem \/ Reads \/ Looks \/ Answers \/ Judge \/ StartPreparation
           \/ \E ticker \in Tickers, content \in Contents : Revise(ticker, content)
           \/ UNCHANGED vars
    <2>1. UNCHANGED <<setting, items, checkpoint, before, asOf>>
        BY <1>4 DEF BeginItem, Reads, ReadPrior, PriorUnavailable, Looks, SkipWindow, Acquire, DeriveFact,
               Answers, Answered, Retry, NotAvailable, Judge, StartPreparation, Revise, vars
    <2>2. pc' = "off" <=> pc = "off"
        BY <1>4, AsksWhereItRuns
           DEF BeginItem, Reads, ReadPrior, PriorUnavailable, Looks, SkipWindow, Acquire, DeriveFact,
               Answers, Answered, Retry, NotAvailable, Resume, Judge, StartPreparation, Revise, vars,
               AsksForHistory, Facts
    <2> QED BY <2>1, <2>2, ItemsKept
<1> QED BY <1>1, <1>2, <1>3, <1>4, NextIs, EndsAreTold, SavesAreTold

LEMMA InitItems ==
    ASSUME Init
    PROVE  ItemInv
BY DEF Init, ItemInv

LEMMA ItemsTold == Spec => []ItemInv
<1>1. Init => ItemInv
    BY InitItems
<1>2. ShapeInv /\ (ViewInv /\ RetainedInv) /\ ItemInv /\ [Next]_vars => ItemInv'
    BY ItemStep
<1> QED BY <1>1, <1>2, Shaped, Viewed, PTL DEF Spec

\* A batch that answers says for every symbol, in the caller's order, what became of
\* it: SAVED is a changed checkpoint of this evaluation, anything but a failed save is
\* the checkpoint the batch found, and so is what it has not reached.
THEOREM ItemsAreTrue == Spec => []ItemsTellTheTruth
<1>1. ItemInv => ItemsTellTheTruth
    <2> SUFFICES ASSUME ItemInv PROVE ItemsTellTheTruth
        OBVIOUS
    <2>1. ASSUME NEW n \in DOMAIN items, Selectable(setting.registry, items[n].symbol)
          PROVE  LET i == InstrumentOf(setting.registry, items[n].symbol) IN
                 \/ /\ items[n].result \in {"SAVED", "CHECKPOINT_SAVE_FAILED"}
                    /\ checkpoint[i] # before[i]
                    /\ checkpoint[i].status = "PRESENT_COMPLETE_STATE"
                    /\ checkpoint[i].state.light.asOf = asOf
                 \/ items[n].result # "SAVED" /\ checkpoint[i] = before[i]
        <3>1. Told(items[n])
            BY <2>1 DEF ItemInv
        <3> QED BY <2>1, <3>1 DEF Told, Changed, Kept
    <2>2. \A n \in DOMAIN items : items[n].symbol = setting.symbols[n]
        BY DEF ItemInv
    <2>3. ASSUME pc # "off", NEW n \in (Len(items) + 1)..Len(setting.symbols),
                 Selectable(setting.registry, setting.symbols[n])
          PROVE  LET i == InstrumentOf(setting.registry, setting.symbols[n]) IN
                 checkpoint[i] = before[i]
        BY <2>3 DEF ItemInv, Kept
    <2>4. pc = "off" /\ items # <<>> => Len(items) = Len(setting.symbols)
        BY DEF ItemInv
    <2> QED BY <2>1, <2>2, <2>3, <2>4 DEF ItemsTellTheTruth
<1> QED BY <1>1, ItemsTold, PTL

\* What is about to be saved is what every gate saw, whatever the provider revised in
\* between; so no preparation fails because two of its facts were acquired apart.
THEOREM OneViewHolds == Spec => []OneView
<1>1. ShapeInv /\ ViewInv /\ ItemInv => OneView
    <2> SUFFICES ASSUME ShapeInv, ViewInv, ItemInv PROVE OneView
        OBVIOUS
    <2>1. ASSUME pc = "save", NEW n \in DOMAIN results
          PROVE  results[n] = Verdict(setting.profile[n], checkpoint[Instrument],
                                      Present(ContentOf(proposal)), Present(proposal.light))
        <3>1. /\ PipelineInv /\ fact["prior"] = checkpoint[Instrument]
              /\ fact["content"] = Present(ContentOf(proposal))
              /\ fact["light"] = Present(proposal.light)
            BY <2>1, ProposedFacts
        <3>2. Grounded(n)
            BY <3>1 DEF PipelineInv
        <3>3. results[n] = Verdict(setting.profile[n], fact["prior"], fact["content"], fact["light"])
            BY <3>2 DEF Grounded
        <3> QED BY <3>1, <3>3
    <2>2. \A n \in DOMAIN items : items[n].result # "OBSERVATION_PREPARATION_FAILED"
        BY DEF ItemInv
    <2> QED BY <2>1, <2>2 DEF OneView
<1> QED BY <1>1, Shaped, Viewed, ItemsTold, PTL
-----------------------------------------------------------------------------
(* RadarEvaluation *)

\* The abstract evaluation speaks of the same values.
LEMMA SameValues ==
    /\ \A w, time, c : Evaluation!TriggerReason(w, time, c) = TriggerReason(w, time, c)
    /\ \A w, reason, light, c :
          Evaluation!CanPrepare(w, reason, light, c) <=> CanPrepare(w, reason, light, c)
    /\ \A w, light, c, outcome, stamp :
          Evaluation!Prepare(w, light, c, outcome, stamp) = Prepare(w, light, c, outcome, stamp)
    /\ \A w, reason, outcome : Evaluation!Advances(w, reason, outcome) <=> Advances(w, reason, outcome)
    /\ \A c, time : Evaluation!Observe(Revision, c, time) = Observe(Revision, c, time)
    /\ \A state : Evaluation!Complete(state) = Complete(state)
    /\ Evaluation!OrdinaryReasons = OrdinaryReasons
    /\ Evaluation!CommittedOutcomes = CommittedOutcomes
<1>1. \A w : Evaluation!HasMarket(w) = HasMarket(w) /\ Evaluation!MarketOf(w) = MarketOf(w)
             /\ Evaluation!PriorLight(w) = PriorLight(w)
    BY DEF Evaluation!HasMarket, HasMarket, Evaluation!MarketOf, MarketOf,
           Evaluation!PriorLight, PriorLight
<1>2. \A w, time, c : Evaluation!TriggerReason(w, time, c) = TriggerReason(w, time, c)
    BY <1>1 DEF Evaluation!TriggerReason, TriggerReason
<1>3. \A w, c : Evaluation!MarketReason(w, c) = MarketReason(w, c)
    BY <1>1 DEF Evaluation!MarketReason, MarketReason
<1>4. \A prior, light : /\ Evaluation!Incoherent(prior, light) <=> Incoherent(prior, light)
                        /\ Evaluation!Classify(prior, light) = Classify(prior, light)
    BY DEF Evaluation!Incoherent, Incoherent, Evaluation!Classify, Classify
<1>5. \A w, reason, light, c :
          Evaluation!CanPrepare(w, reason, light, c) <=> CanPrepare(w, reason, light, c)
    BY <1>1, <1>3, <1>4 DEF Evaluation!CanPrepare, CanPrepare
<1>6. \A w, light, c, outcome, stamp :
          Evaluation!Prepare(w, light, c, outcome, stamp) = Prepare(w, light, c, outcome, stamp)
    BY <1>1, <1>4 DEF Evaluation!Prepare, Prepare
<1>7. /\ Evaluation!OrdinaryReasons = OrdinaryReasons
      /\ Evaluation!CommittedOutcomes = CommittedOutcomes
    BY DEF Evaluation!OrdinaryReasons, OrdinaryReasons, Evaluation!CommittedOutcomes,
           CommittedOutcomes
<1>8. \A w, reason, outcome : Evaluation!Advances(w, reason, outcome) <=> Advances(w, reason, outcome)
    BY <1>7 DEF Evaluation!Advances, Advances
<1>9. \A c, time : Evaluation!Observe(Revision, c, time) = Observe(Revision, c, time)
    BY DEF Evaluation!Observe, Observe
<1>10. \A state : Evaluation!Complete(state) = Complete(state)
    BY DEF Evaluation!Complete, Complete
<1> QED BY <1>2, <1>5, <1>6, <1>7, <1>8, <1>9, <1>10

\* A gate that has its facts disposes as it would of the history alone.
LEMMA GateDisposes ==
    ASSUME NEW gate, gate.kind \in {"trigger", "ema"}, NEW w \in Witness, NEW c \in CurrentContent
    PROVE  Verdict(gate, w, Present(c), Present(Observe(Revision, c, asOf))).disposition
             = Evaluation!Disposition(gate, w, c)
<1> DEFINE light == Observe(Revision, c, asOf)
           reason == TriggerReason(w, asOf, c)
<1>1. /\ Present(c).status # "UNAVAILABLE" /\ Present(c).value = c
      /\ Present(light).status # "UNAVAILABLE" /\ Present(light).value = light
      /\ w.status # "UNAVAILABLE"
    BY StatusesDiffer, WitnessIs
<1>2. light.relation = RelationOf[c.content]
    BY DEF Observe
<1> HIDE DEF light
<1>3. CASE gate.kind = "ema"
    <2>1. Verdict(gate, w, Present(c), Present(light)) = EmaResult(gate, Present(light))
        BY <1>3 DEF Verdict
    <2>2. EmaResult(gate, Present(light)).disposition
            = IF RelationOf[c.content] \in gate.accepts THEN "PASS" ELSE "DROP"
        BY <1>1, <1>2 DEF EmaResult
    <2> QED BY <1>3, <2>1, <2>2 DEF Evaluation!Disposition, light
<1>4. CASE gate.kind = "trigger"
    <2>1. Verdict(gate, w, Present(c), Present(light)) = TriggerResult(reason)
        BY <1>1, <1>4 DEF Verdict, TriggerSays
    <2> HIDE DEF reason
    <2>2. TriggerResult(reason).disposition
            = IF reason \in OrdinaryReasons THEN "PASS"
              ELSE IF reason = "UNCHANGED" THEN "DROP" ELSE "ATTENTION"
        BY DEF TriggerResult
    <2>3. Evaluation!TriggerReason(w, asOf, c) = reason /\ Evaluation!OrdinaryReasons = OrdinaryReasons
        BY SameValues DEF reason
    <2>4. gate.kind # "ema"
        BY <1>4
    <2>5. Evaluation!Disposition(gate, w, c)
            = IF reason \in OrdinaryReasons THEN "PASS"
              ELSE IF reason = "UNCHANGED" THEN "DROP" ELSE "ATTENTION"
        <3>1. CASE reason \in OrdinaryReasons
            BY <1>4, <2>3, <2>4, <3>1 DEF Evaluation!Disposition, OrdinaryReasons
        <3>2. CASE reason = "UNCHANGED"
            BY <1>4, <2>3, <2>4, <3>2 DEF Evaluation!Disposition, OrdinaryReasons
        <3>3. CASE reason \notin OrdinaryReasons /\ reason # "UNCHANGED"
            BY <1>4, <2>3, <2>4, <3>3 DEF Evaluation!Disposition
        <3> QED BY <3>1, <3>2, <3>3 DEF OrdinaryReasons
    <2> QED BY <2>1, <2>2, <2>5 DEF light
<1> QED BY <1>3, <1>4

\* The results of a pipeline that ends in a save are those of an evaluation at once.
LEMMA ResultsDispose ==
    ASSUME ShapeInv, ViewInv, pc = "save", NEW n \in DOMAIN results
    PROVE  /\ n \in DOMAIN setting.profile
           /\ results[n].disposition
                = Evaluation!Disposition(setting.profile[n], checkpoint[Instrument], history.value)
           /\ n < Len(results) => results[n].disposition = "PASS"
<1>1. /\ Running /\ PipelineInv
      /\ fact["prior"] = checkpoint[Instrument] /\ fact["prior"] \in Witness
      /\ history.value \in CurrentContent /\ fact["content"] = Present(history.value)
      /\ fact["light"] = Present(Observe(Revision, history.value, asOf))
    BY ProposedFacts
<1>2. Grounded(n)
    BY <1>1 DEF PipelineInv
<1>3. n \in DOMAIN setting.profile /\ setting.profile[n].kind \in {"trigger", "ema"}
    BY <1>1, GateKinds
<1>4. results[n] = Verdict(setting.profile[n], checkpoint[Instrument], Present(history.value),
                           Present(Observe(Revision, history.value, asOf)))
    BY <1>1, <1>2 DEF Grounded
<1> QED BY <1>1, <1>2, <1>3, <1>4, GateDisposes DEF Grounded

\* A checkpoint that is replaced, whether or not the replacement is reported to have
\* failed, is advanced in one step.
LEMMA SaveAdvances ==
    ASSUME ShapeInv, ViewInv, RetainedInv, pc = "save", pc' \in {"off", "next"},
           checkpoint' = [checkpoint EXCEPT ![Instrument] = Complete(proposal)],
           UNCHANGED <<setting, market, asOf>>
    PROVE  Evaluation!Advance
<1> DEFINE c == history.value
           w == checkpoint[Instrument]
           light == Observe(Revision, c, asOf)
           e == [instrument |-> Instrument, history |-> c]
           n == Len(results)
<1>1. /\ Running /\ FactsInv /\ PipelineInv /\ Instrument \in Instruments
      /\ fact["prior"] = w /\ w \in Witness
      /\ c \in CurrentContent /\ fact["content"] = Present(c) /\ fact["light"] = Present(light)
      /\ Advances(w, TriggerReason(w, asOf, c), Outcome)
      /\ \E k \in Triggers \cap DOMAIN results : TRUE
    BY ProposedFacts
<1>2. history.status = "PRESENT"
    <2>1. MayAdvance /\ \A m \in DOMAIN results : Grounded(m)
        BY <1>1 DEF PipelineInv
    <2> QED BY <1>1, <2>1, AdvancingFacts
<1>3. Held = {e} /\ Held' = {}
    BY <1>2 DEF Held
<1>4. /\ results \in Seq(Result) /\ PipelineOver /\ Len(results) <= Len(setting.profile)
      /\ setting.profile \in Seq(Gate)
    BY SettingFacts DEF ShapeInv, BatchTypeOK
<1>5. n \in DOMAIN results /\ n \in Nat /\ DOMAIN results = 1..n
    BY <1>4 DEF PipelineOver
<1>6. \A k \in 1..n :
          /\ k \in DOMAIN setting.profile
          /\ results[k].disposition = Evaluation!Disposition(setting.profile[k], w, c)
          /\ k < n => results[k].disposition = "PASS"
    BY <1>5, ResultsDispose
<1>7. Evaluation!EndsAt(n, w, c)
    <2>1. \A k \in 1..(n - 1) : Evaluation!Disposition(setting.profile[k], w, c) = "PASS"
        BY <1>5, <1>6
    <2>2. n = Len(setting.profile) \/ Evaluation!Disposition(setting.profile[n], w, c) # "PASS"
        BY <1>4, <1>5, <1>6 DEF PipelineOver, LastResult
    <2> QED BY <2>1, <2>2 DEF Evaluation!EndsAt
<1>8. /\ Outcome \in CommittedOutcomes
      /\ Outcome = "SELECTED" <=> Evaluation!Disposition(setting.profile[n], w, c) = "PASS"
    <2>1. Outcome \in CommittedOutcomes
        BY <1>1 DEF Advances
    <2> QED BY <1>5, <1>6, <2>1 DEF Outcome, LastResult
<1>9. Evaluation!Moves(n, w, c, Outcome)
    <2>1. PICK k \in Triggers \cap DOMAIN results : TRUE
        BY <1>1
    <2>2. k \in 1..n /\ setting.profile[k].kind = "trigger"
        BY <1>5, <2>1 DEF Triggers
    <2>3. ~Incoherent(PriorLight(w), light)
        <3>1. w.status = "PRESENT_COMPLETE_STATE" => Corresponds(w.state)
            BY <1>1 DEF RetainedInv
        <3>2. asOf \in Times
            BY DEF ShapeInv, BatchTypeOK
        <3> QED BY <1>1, <3>1, <3>2, AdvancesAreCoherent
    <2>4. CanPrepare(w, TriggerReason(w, asOf, c), light, c)
        <3>1. asOf \in Times
            BY DEF ShapeInv, BatchTypeOK
        <3>2. MarketReason(w, c) = TriggerReason(w, asOf, c)
            BY <1>1, <3>1, ReasonsAgree DEF Advances
        <3> QED BY <2>3, <3>2 DEF CanPrepare
    <2> QED BY <1>1, <2>2, <2>4, SameValues DEF Evaluation!Moves
<1>10. PICK stamp \in Stamps :
           Complete(proposal) = Evaluation!Complete(Evaluation!Prepare(w,
                                   Evaluation!Observe(Revision, c, asOf), c, Outcome, stamp))
    <2>1. PICK stamp \in Stamps :
              proposal = Prepare(fact["prior"], fact["light"].value, fact["content"].value, Outcome, stamp)
        BY <1>1 DEF PipelineInv, Proposed
    <2>2. fact["light"].value = light /\ fact["content"].value = c
        BY <1>1, StatusesDiffer
    <2>3. proposal = Prepare(w, light, c, Outcome, stamp)
        BY <1>1, <2>1, <2>2
    <2> QED BY <2>3, SameValues
<1>11. e.instrument = Instrument /\ e.history = c /\ n \in DOMAIN setting.profile
    BY <1>5, <1>6
<1>12. Outcome \in Evaluation!CommittedOutcomes
    BY <1>8, SameValues
<1> HIDE DEF c, w, light, e, n
<1>13. checkpoint' = [checkpoint EXCEPT ![e.instrument] =
                         Evaluation!Complete(Evaluation!Prepare(checkpoint[e.instrument],
                             Evaluation!Observe(Revision, e.history, asOf), e.history, Outcome, stamp))]
    BY <1>10, <1>11 DEF w
<1>14. checkpoint[e.instrument] = w
    BY <1>11 DEF w
<1>15. /\ Evaluation!EndsAt(n, checkpoint[e.instrument], e.history)
       /\ Outcome = "SELECTED" <=>
             Evaluation!Disposition(setting.profile[n], checkpoint[e.instrument], e.history) = "PASS"
       /\ Evaluation!Moves(n, checkpoint[e.instrument], e.history, Outcome)
    BY <1>7, <1>8, <1>9, <1>11, <1>14
<1>16. Evaluation!AdvanceAfter(n, e, Outcome, stamp)
    BY <1>13, <1>15 DEF Evaluation!AdvanceAfter
<1>17. e \in Held /\ Held' = {}
    BY <1>3
<1> QED
    BY <1>11, <1>12, <1>16, <1>17 DEF Evaluation!Advance
\* A history is held only while an item runs.
LEMMA HeldIs ==
    ASSUME UNCHANGED <<setting, items, history>>,
           pc \in {"off", "next"} <=> pc' \in {"off", "next"}
    PROVE  Held' = Held
BY DEF Held, Instrument, Symbol

\* The answer that brings a history is one the instrument's ticker serves now, of
\* sessions on which it meant the instrument.
LEMMA AnswerTakes ==
    ASSUME ShapeInv, ViewInv, Answered
    PROVE  Evaluation!Take
<1> DEFINE c == [session |-> LatestSession[asOf], content |-> market[Ticker], start |-> WindowStart]
           registry == setting.registry
<1>1. /\ pc = "request" /\ pc' \in {"gate", "prepare"} /\ Running /\ history' = Present(c)
      /\ UNCHANGED <<setting, checkpoint, market, asOf, items>>
    BY DEF Answered, Resume, Running, Points
<1>2. history = Unasked /\ Whole
    BY <1>1 DEF ViewInv, FactsInv
<1>3. Held = {}
    BY <1>2, StatusesDiffer DEF Held
<1>4. Held' = {[instrument |-> Instrument, history |-> c]}
    <2>1. history'.status = "PRESENT" /\ history'.value = c /\ Instrument' = Instrument
        BY <1>1, SameWindow, StatusesDiffer
    <2> QED BY <1>1, <2>1 DEF Held
<1>5. Instrument \in Instruments /\ Ticker \in Tickers /\ Ticker \in TickersOf(registry, Instrument)
    <2>1. Selectable(registry, Symbol) /\ registry \in Registry /\ pc # "off"
        BY <1>1, SettingFacts DEF ShapeInv, BatchTypeOK
    <2>2. TickersOf(registry, Instrument) = {Ticker} /\ Instrument \in Instruments
        BY <2>1, SymbolTyped, SelectionIsOne DEF Instrument, Ticker
    <2> QED BY <2>2 DEF TickersOf
<1>6. /\ WindowStart \in TradingDays
      /\ Labels = {d \in TradingDays : WindowStart <= d /\ d <= LatestSession[asOf]}
    BY <1>2, WindowTyped DEF Whole
<1>7. ASSUME NEW label \in Labels
      PROVE  /\ Meanings(registry, Ticker, label) # {}
             /\ \A m \in Meanings(registry, Ticker, label) : m.instrument = Instrument
    <2>1. ~Conflicts(registry, Instrument, Ticker, Labels) /\ ~Interrupted(registry, Ticker, Labels)
        BY <1>2 DEF Whole, NotOurs, Broken, ResolvedLabels
    <2> QED BY <2>1 DEF Conflicts, Interrupted
<1>8. /\ Evaluation!TickersOf(registry, Instrument) = TickersOf(registry, Instrument)
      /\ \A label : Evaluation!Meanings(registry, Ticker, label) = Meanings(registry, Ticker, label)
    BY DEF Evaluation!TickersOf, TickersOf, Evaluation!Meanings, Meanings, Evaluation!Active,
           Active, Evaluation!Never, Never
<1>9. Evaluation!Meant(Ticker, Instrument, WindowStart)
    BY <1>6, <1>7, <1>8 DEF Evaluation!Meant
<1>10. WindowStart \in Starts
    BY <1>6, BatchAssumption
<1>11. Ticker \in Evaluation!TickersOf(setting.registry, Instrument)
    BY <1>5, <1>8
<1>12. \E instrument \in Instruments, ticker \in Tickers, start \in Starts :
          /\ ticker \in Evaluation!TickersOf(setting.registry, instrument)
          /\ Evaluation!Meant(ticker, instrument, start)
          /\ Held' = {[instrument |-> instrument,
                       history |-> [session |-> LatestSession[asOf], content |-> market[ticker],
                                    start |-> start]]}
    BY <1>4, <1>5, <1>9, <1>10, <1>11
<1> QED BY <1>1, <1>3, <1>12 DEF Evaluation!Take

\* Every step of a batch is one of RadarEvaluation, or one that no checkpoint shows.
LEMMA EvaluationStep ==
    ASSUME ShapeInv, ViewInv, RetainedInv, [Next]_vars
    PROVE  [Evaluation!Next]_(Evaluation!vars)
<1>1. ASSUME UNCHANGED <<setting, checkpoint, market, asOf>>, Held' = Held
      PROVE  UNCHANGED Evaluation!vars
    BY <1>1 DEF Evaluation!vars
<1>2. ASSUME UNCHANGED <<setting, checkpoint, market, asOf>>, pc' \in {"off", "next"}
      PROVE  [Evaluation!Next]_(Evaluation!vars)
    <2>1. Held' = {}
        BY <1>2 DEF Held
    <2>2. CASE Held = {}
        BY <1>1, <1>2, <2>1, <2>2
    <2>3. CASE Held # {}
        BY <1>2, <2>1, <2>3 DEF Evaluation!Drop, Evaluation!Next
    <2> QED BY <2>2, <2>3
<1>3. CASE StartBatch
    <2>1. /\ pc = "off" /\ pc' = "next" /\ asOf' \in Times
          /\ UNCHANGED <<setting, checkpoint, market>>
        BY <1>3 DEF StartBatch
    <2>2. Held = {} /\ Held' = {}
        BY <2>1 DEF Held
    <2> QED BY <2>1, <2>2 DEF Evaluation!Restart, Evaluation!Next
<1>4. CASE BeginItem
    <2>1. pc = "next" /\ history' = Unasked /\ UNCHANGED <<setting, checkpoint, market, asOf>>
        BY <1>4 DEF BeginItem
    <2>2. Held = {} /\ Held' = {}
        BY <2>1, StatusesDiffer DEF Held
    <2> QED BY <1>1, <2>1, <2>2
<1>5. CASE Ends \/ Crash
    <2>1. pc' \in {"off", "next"} /\ UNCHANGED <<setting, checkpoint, market, asOf>>
        BY <1>5, EndsAre DEF EndItem, Crash
    <2> QED BY <1>2, <2>1
<1>6. CASE Reads \/ Judge \/ StartPreparation
    <2>1. /\ UNCHANGED <<setting, checkpoint, market, asOf, items, history>>
          /\ pc \in {"gate", "prepare", "over"} /\ pc' \in {"gate", "prepare", "over"}
        BY <1>6, AsksWhereItRuns
        DEF Reads, ReadPrior, PriorUnavailable, Judge, StartPreparation, evaluation, Facts
    <2>2. Held' = Held
        BY <2>1, HeldIs
    <2> QED BY <1>1, <2>1, <2>2
<1>7. CASE Looks
    <2>1. UNCHANGED <<setting, checkpoint, market, asOf, items>> /\ pc \in {"gate", "prepare"}
        BY <1>7, AsksWhereItRuns
        DEF Looks, SkipWindow, Acquire, DeriveFact, AsksForHistory, Facts
    <2>2. \/ UNCHANGED <<pc, history>>
          \/ history = Unasked /\ history' \in {Unasked, Unavailable}
        BY <1>7 DEF Looks, SkipWindow, Acquire, DeriveFact, ProducerKeeps
    <2>3. CASE UNCHANGED <<pc, history>>
        BY <1>1, <2>1, <2>3, HeldIs
    <2>4. CASE history = Unasked /\ history' \in {Unasked, Unavailable}
        <3>1. Held = {} /\ Held' = {}
            BY <2>4, StatusesDiffer DEF Held
        <3> QED BY <1>1, <2>1, <3>1
    <2> QED BY <2>2, <2>3, <2>4
<1>8. CASE Answered
    BY <1>8, AnswerTakes DEF Evaluation!Next
<1>9. CASE Retry \/ \E trouble \in Trouble : NotAvailable(trouble)
    <2>1. /\ UNCHANGED <<setting, checkpoint, market, asOf>> /\ pc = "request"
          /\ history' \in {history, Unavailable}
        BY <1>9 DEF Retry, NotAvailable
    <2>2. history = Unasked
        BY <2>1 DEF ViewInv, FactsInv, Running, Points
    <2>3. Held = {} /\ Held' = {}
        BY <2>1, <2>2, StatusesDiffer DEF Held
    <2> QED BY <1>1, <2>1, <2>3
<1>10. CASE PrepareState
    <2>1. /\ UNCHANGED <<setting, checkpoint, market, asOf, history>>
          /\ pc = "prepare" /\ pc' = "save" /\ items' = items
        BY <1>10, PrepareKeepsView DEF PrepareState
    <2>2. Held' = Held
        BY <2>1, HeldIs
    <2> QED BY <1>1, <2>1, <2>2
<1>11. CASE Save \/ SaveFails
    <2>1. /\ pc = "save" /\ pc' \in {"off", "next"} /\ UNCHANGED <<setting, market, asOf>>
          /\ \E state \in {checkpoint[Instrument], Complete(proposal)} :
                checkpoint' = [checkpoint EXCEPT ![Instrument] = state]
        BY <1>11 DEF Save, SaveFails, EndItem
    <2>2. CASE checkpoint' = [checkpoint EXCEPT ![Instrument] = Complete(proposal)]
        BY <2>1, <2>2, SaveAdvances DEF Evaluation!Next
    <2>3. CASE checkpoint' = [checkpoint EXCEPT ![Instrument] = checkpoint[Instrument]]
        <3>1. checkpoint' = checkpoint
            BY <2>3 DEF ShapeInv, BatchTypeOK
        <3> QED BY <1>2, <2>1, <3>1
    <2> QED BY <2>1, <2>2, <2>3
<1>12. ASSUME NEW ticker \in Tickers, NEW content \in Contents, Revise(ticker, content)
       PROVE  Evaluation!Next
    <2>1. /\ market' = [market EXCEPT ![ticker] = content]
          /\ UNCHANGED <<setting, checkpoint, asOf, pc, items, history>>
        BY <1>12 DEF Revise, evaluation
    <2>2. Held' = Held
        BY <2>1, HeldIs
    <2> QED BY <2>1, <2>2 DEF Evaluation!Revise, Evaluation!Next
<1>13. CASE UNCHANGED vars
    <2>1. UNCHANGED <<setting, checkpoint, market, asOf, pc, items, history>>
        BY <1>13 DEF vars, evaluation
    <2>2. Held' = Held
        BY <2>1, HeldIs
    <2> QED BY <1>1, <2>1, <2>2
<1> QED
    BY <1>3, <1>4, <1>5, <1>6, <1>7, <1>8, <1>9, <1>10, <1>11, <1>12, <1>13, NextIs DEF Answers

\* A batch, with lazily loaded facts, retries, a provider that revises, failed saves
\* and crashes, implements RadarEvaluation: a checkpoint only ever moves as if its
\* evaluation had happened at once, over one history and the checkpoint as it stands.
THEOREM BatchImplementsEvaluation == Spec => ImplementsEvaluation
<1>1. Init => Evaluation!Init
    BY DEF Init, Evaluation!Init, Held
<1>2. ShapeInv /\ (ViewInv /\ RetainedInv) /\ [Next]_vars => [Evaluation!Next]_(Evaluation!vars)
    BY EvaluationStep
<1> QED BY <1>1, <1>2, Shaped, Viewed, PTL DEF Spec, ImplementsEvaluation, Evaluation!Spec
=============================================================================
