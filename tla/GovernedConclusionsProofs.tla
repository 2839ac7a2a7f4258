---------------------- MODULE GovernedConclusionsProofs ----------------------
(***************************************************************************)
(* Conclusions drawn by any number of threads, on any snapshot, while the  *)
(* governed pipeline runs.                                                 *)
(***************************************************************************)
EXTENDS GovernedConclusions, GovernedEvidenceHistoryProofs

-----------------------------------------------------------------------------
(* The policies, for every snapshot *)

\* The comparisons the assessment cites.
LEMMA ComparisonsAre ==
    ASSUME NEW s
    PROVE  /\ Holds(s)["trend_ema8_above_ema20"] = (s.ema8 > s.ema20)
           /\ Holds(s)["trend_ema8_below_ema20"] = (s.ema8 < s.ema20)
           /\ Holds(s)["trend_close_above_ema144"] = (s.close > s.ema144)
           /\ Holds(s)["trend_close_below_ema144"] = (s.close < s.ema144)
           /\ Holds(s)["trend_close_above_ema169"] = (s.close > s.ema169)
           /\ Holds(s)["trend_close_below_ema169"] = (s.close < s.ema169)
           /\ Holds(s)["momentum_macd_line_above_signal"] = (s.macd > s.signal)
           /\ Holds(s)["momentum_macd_line_below_signal"] = (s.macd < s.signal)
           /\ Holds(s)["momentum_rsi_at_or_above_neutral"] = (s.rsi >= RsiNeutral)
           /\ Holds(s)["momentum_rsi_below_neutral"] = (s.rsi < RsiNeutral)
           /\ Holds(s)["rsi_at_or_above_elevated"] = (s.rsi >= RsiElevated)
           /\ Holds(s)["rsi_at_or_below_depressed"] = (s.rsi <= RsiDepressed)
           /\ Holds(s)["volatility_at_or_above_high"] = (s.volatility >= VolatilityHigh)
           /\ Holds(s)["extension_above_positive_band"] = (s.distance > ExtensionBand)
           /\ Holds(s)["extension_below_negative_band"] = (s.distance < 0 - ExtensionBand)
BY Zenon DEF Holds

LEMMA EverySnapshotAssessable ==
    ASSUME NEW s \in TechnicalSnapshot
    PROVE  Assessable(s)
<1> USE DEF TechnicalSnapshot
<1>1. ASSUME NEW id \in DOMAIN Needs, Needs[id] <= s.bars, Holds(s)[id]
      PROVE  id \in Satisfied(s)
    BY <1>1 DEF Satisfied, ComparisonEvidence
<1>2. CASE Trend(s) = "positive" /\ Momentum(s) = "negative"
    <2>1. /\ s.bars >= 169 /\ s.ema8 > s.ema20 /\ s.close > s.ema144 /\ s.close > s.ema169
          /\ s.macd < s.signal /\ s.rsi < RsiNeutral
        BY <1>2 DEF Trend, Momentum, Direction
    <2>2. OppositionEvidence(s) =
            {"trend_ema8_above_ema20", "trend_close_above_ema144", "trend_close_above_ema169",
             "momentum_macd_line_below_signal", "momentum_rsi_below_neutral"}
        BY <1>2 DEF OppositionEvidence
    <2>3. \A id \in OppositionEvidence(s) : id \in DOMAIN Needs /\ Needs[id] <= s.bars
        BY <2>1, <2>2 DEF Needs
    <2>4. \A id \in OppositionEvidence(s) : Holds(s)[id]
        BY <2>1, <2>2, ComparisonsAre
    <2> QED BY <1>1, <2>3, <2>4 DEF Assessable
<1>3. CASE Trend(s) = "negative" /\ Momentum(s) = "positive"
    <2>1. /\ s.bars >= 169 /\ s.ema8 < s.ema20 /\ s.close < s.ema144 /\ s.close < s.ema169
          /\ s.macd > s.signal /\ s.rsi >= RsiNeutral
        BY <1>3 DEF Trend, Momentum, Direction
    <2>2. OppositionEvidence(s) =
            {"trend_ema8_below_ema20", "trend_close_below_ema144", "trend_close_below_ema169",
             "momentum_macd_line_above_signal", "momentum_rsi_at_or_above_neutral"}
        BY <1>3 DEF OppositionEvidence
    <2>3. \A id \in OppositionEvidence(s) : id \in DOMAIN Needs /\ Needs[id] <= s.bars
        BY <2>1, <2>2 DEF Needs
    <2>4. \A id \in OppositionEvidence(s) : Holds(s)[id]
        BY <2>1, <2>2, ComparisonsAre
    <2> QED BY <1>1, <2>3, <2>4 DEF Assessable
<1>4. Opposed(s) => \/ Trend(s) = "positive" /\ Momentum(s) = "negative"
                    \/ Trend(s) = "negative" /\ Momentum(s) = "positive"
    BY DEF Opposed
<1> QED BY <1>2, <1>3, <1>4 DEF Assessable

LEMMA OutcomesAre ==
    ASSUME NEW s
    PROVE  Outcome(s) \in {"insufficient_data", "mixed", "caution", "aligned"}
BY DEF Outcome

LEMMA DirectionsAre ==
    ASSUME NEW s
    PROVE  /\ Trend(s) \in {"unavailable", "positive", "negative", "mixed"}
           /\ Momentum(s) \in {"unavailable", "positive", "negative", "mixed"}
BY DEF Trend, Momentum, Direction

\* An aligned assessment has two directions that agree.
LEMMA AlignedAgree ==
    ASSUME NEW s, Outcome(s) = "aligned"
    PROVE  \/ Trend(s) = "positive" /\ Momentum(s) = "positive"
           \/ Trend(s) = "negative" /\ Momentum(s) = "negative"
<1>1. /\ "unavailable" \notin {Trend(s), Momentum(s), VolatilityState(s), ExtensionState(s)}
      /\ "mixed" \notin {Trend(s), Momentum(s)} /\ ~Opposed(s)
    BY DEF Outcome
<1> QED BY <1>1, DirectionsAre DEF Opposed

LEMMA EverySnapshotDeployable ==
    ASSUME NEW s
    PROVE  Deployable(s)
<1>1. CASE Outcome(s) = "aligned"
    BY <1>1, AlignedAgree DEF Deployable, StrategyMode, AllowedModeRulePairs
<1>2. CASE Outcome(s) \in {"insufficient_data", "mixed", "caution"}
    BY <1>2 DEF Deployable, StrategyMode, AllowedModeRulePairs, RuleFor
<1> QED BY <1>1, <1>2, OutcomesAre

\* The cautions are the ones the reference leaves out.
LEMMA CautionsAre ==
    ASSUME NEW s \in TechnicalSnapshot, s.bars >= 169
    PROVE  Cautions(s) = {} <=> Unqualified(s)
<1> USE DEF TechnicalSnapshot
<1> DEFINE Cited == {CautionFor[id] : id \in DOMAIN CautionFor \cap Satisfied(s)}
           Bad(id) == Holds(s)[id]
<1>1. \A id \in DOMAIN CautionFor : id \in Satisfied(s) <=> Bad(id)
    <2>1. \A id \in DOMAIN CautionFor : id \in DOMAIN Needs /\ Needs[id] <= s.bars
        BY DEF CautionFor, Needs
    <2> QED BY <2>1 DEF Satisfied, ComparisonEvidence
<1>2. Cited = {} <=> \A id \in DOMAIN CautionFor : ~Bad(id)
    BY <1>1
<1>3. (\A id \in DOMAIN CautionFor : ~Bad(id)) <=>
          /\ ~(s.rsi >= RsiElevated) /\ ~(s.rsi <= RsiDepressed)
          /\ ~(s.distance > ExtensionBand) /\ ~(s.distance < 0 - ExtensionBand)
          /\ ~(s.volatility >= VolatilityHigh)
    BY ComparisonsAre DEF CautionFor
<1>4. Degraded(s) <=> s.bars < MinimumBarCount
    <2>1. MinimumBarCount = 250 /\ \A c \in DOMAIN Required : Required[c] <= 169
        BY DEF MinimumBarCount, Required
    <2>2. Unavailable(s) = {}
        BY <2>1 DEF Unavailable, Required
    <2> QED BY <2>2 DEF Degraded
<1>5. Warnings(s) = {} <=> s.bars >= MinimumBarCount /\ s.lag <= StaleAfterCalendarDays
    BY DEF Warnings, MinimumBarCount, StaleAfterCalendarDays
<1>6. {c \in {"source_quality_degraded"} : Degraded(s)} = {} <=> ~Degraded(s)
    OBVIOUS
<1>7. Cautions(s) = {} <=> Cited = {} /\ ~Degraded(s) /\ Warnings(s) = {}
    BY <1>6 DEF Cautions
<1>8. (Cited = {} /\ ~Degraded(s) /\ Warnings(s) = {}) <=> Unqualified(s)
    <2> HIDE DEF Cited, Bad
    <2> QED BY <1>2, <1>3, <1>4, <1>5 DEF Unqualified, MinimumBarCount, StaleAfterCalendarDays,
           RsiElevated, RsiDepressed, ExtensionBand, VolatilityHigh
<1> QED BY <1>7, <1>8

LEMMA EverySnapshotActiveWhenUnqualified ==
    ASSUME NEW s \in TechnicalSnapshot
    PROVE  ActiveWhenUnqualified(s)
<1> USE DEF TechnicalSnapshot
<1>1. Trend(s) = "positive" <=> s.bars >= 169 /\ s.ema8 > s.ema20 /\ s.close > s.ema144
                                /\ s.close > s.ema169
    BY DEF Trend, Direction
<1>2. Trend(s) = "negative" <=> s.bars >= 169 /\ s.ema8 < s.ema20 /\ s.close < s.ema144
                                /\ s.close < s.ema169
    BY DEF Trend, Direction
<1>3. Momentum(s) = "positive" <=> s.bars >= 34 /\ s.macd > s.signal /\ s.rsi >= RsiNeutral
    BY DEF Momentum, Direction, RsiNeutral
<1>4. Momentum(s) = "negative" <=> s.bars >= 34 /\ s.macd < s.signal /\ s.rsi < RsiNeutral
    BY DEF Momentum, Direction, RsiNeutral
<1>5. ASSUME NEW d \in {"positive", "negative"}, Trend(s) = d, Momentum(s) = d
      PROVE  Outcome(s) = "aligned" <=> Unqualified(s)
    <2>1. s.bars >= 169
        BY <1>1, <1>2, <1>5
    <2>2. VolatilityState(s) # "unavailable" /\ ExtensionState(s) # "unavailable"
        BY <2>1 DEF VolatilityState, ExtensionState
    <2>3. ~Opposed(s)
        BY <1>5 DEF Opposed
    <2>4. Outcome(s) = "aligned" <=> Cautions(s) = {}
        BY <1>5, <2>2, <2>3 DEF Outcome
    <2> QED BY <2>1, <2>4, CautionsAre
<1>6. /\ StrategyMode(s)[1] = "positive_directional_continuation" <=>
             Outcome(s) = "aligned" /\ Trend(s) = "positive" /\ Momentum(s) = "positive"
      /\ StrategyMode(s)[1] = "negative_directional_continuation" <=>
             Outcome(s) = "aligned" /\ Trend(s) = "negative" /\ Momentum(s) = "negative"
    BY AlignedAgree DEF StrategyMode
<1>7. Unqualified(s) => s.bars >= 169
    BY DEF Unqualified, MinimumBarCount
<1>8. Trend(s) = "positive" /\ Momentum(s) = "positive" <=> s.bars >= 169 /\ Rising(s)
    BY <1>1, <1>3 DEF Rising
<1>9. Trend(s) = "negative" /\ Momentum(s) = "negative" <=> s.bars >= 169 /\ Falling(s)
    BY <1>2, <1>4 DEF Falling
<1> QED BY <1>5, <1>6, <1>7, <1>8, <1>9 DEF ActiveWhenUnqualified

\* The snapshot a scenario gives stays.
LEMMA SnapshotTyped == ConcludingSpec => [](snapshot \in TechnicalSnapshot)
<1>1. Init /\ ConclusionsInit => snapshot \in TechnicalSnapshot
    BY ConclusionsAssumption DEF Init, ConclusionsInit
<1>2. snapshot \in TechnicalSnapshot /\ [ConcludingNext]_allVars => (snapshot \in TechnicalSnapshot)'
    <2> SUFFICES ASSUME [ConcludingNext]_allVars PROVE snapshot' = snapshot
        OBVIOUS
    <2>1. ASSUME NEW t \in Threads, Conclude(t) PROVE snapshot' = snapshot
        <3>1. ASSUME NEW kind, DeriveFrom(t, kind) PROVE snapshot' = snapshot
            BY <3>1 DEF DeriveFrom, governed
        <3>2. ASSUME NEW kind, Answer(t, kind) PROVE snapshot' = snapshot
            BY <3>2 DEF Answer, governed
        <3>3. ASSUME NEW does, BeginConclusion(t, does) PROVE snapshot' = snapshot
            BY <3>3 DEF BeginConclusion, governed
        <3> QED BY <2>1, <3>1, <3>2, <3>3 DEF Conclude, BeginExecute, BeginRecall, BeginFails, TakeLock,
               Interpret, Assess, DeriveStrategy, StampConclusion, Commit, RecallInterpretations,
               RecallAssessments, RecallStrategies, RefuseConclusion, ClockFails, governed
    <2> QED BY <2>1 DEF ConcludingNext, AllResting, allVars, conclusionVars
<1> QED BY <1>1, <1>2, PTL DEF ConcludingSpec

\* Whatever the numbers of a snapshot, no derivation or check of the three
\* policies refuses it: what a finding cites was compared and held, and the
\* mode has its rule (_opposition_finding's check, _classic_strategy_semantics).
THEOREM SnapshotsAreDecided == ConcludingSpec => []EverySnapshotIsDecided
<1>1. snapshot \in TechnicalSnapshot => EverySnapshotIsDecided
    BY EverySnapshotAssessable, EverySnapshotDeployable DEF EverySnapshotIsDecided, Decided
<1> QED BY <1>1, SnapshotTyped, PTL

\* Whatever the numbers, the mode three policies arrive at is active exactly
\* when the reference says so, and in its direction.
THEOREM ActiveMeansUnqualified == ConcludingSpec => []ActiveExactlyWhenUnqualified
<1>1. snapshot \in TechnicalSnapshot => ActiveExactlyWhenUnqualified
    BY EverySnapshotActiveWhenUnqualified DEF ActiveExactlyWhenUnqualified
<1> QED BY <1>1, SnapshotTyped, PTL

-----------------------------------------------------------------------------
(* Steps *)

\* A step of a conclusion leaves the governed pipeline alone, but for its clock.
Quiet ==
    /\ UNCHANGED <<hist, owner, call, made, scenario, moves>>
    /\ now' \in Nat /\ latest' \in Nat /\ latest <= latest'

\* The locks of the eleven services.
Locks == Histories \cup Conclusions

LEMMA ConclusionsAreQuiet ==
    ASSUME TypeInv, NEW t \in Threads, Conclude(t)
    PROVE  Quiet
<1>1. now \in Nat /\ latest \in Nat
    BY TypeInvIs
<1>2. Read => latest' \in Nat /\ latest <= latest'
    BY <1>1, ReadingsGrow
<1>3. ReadAvailability => /\ now' \in Nat /\ latest' \in Nat /\ latest <= latest'
                          /\ UNCHANGED <<scenario, moves>>
    <2>1. ReadAvailability => now' \in Nat /\ UNCHANGED <<scenario, moves>>
        BY <1>1, ReadingsGrow DEF ReadAvailability
    <2> QED BY <1>1, <2>1, ReadingsGrow
<1>4. ASSUME UNCHANGED governed, Read \/ UNCHANGED latest PROVE Quiet
    BY <1>1, <1>2, <1>4 DEF governed, clock, Quiet
<1>5. CASE BeginExecute(t) \/ BeginRecall(t) \/ BeginFails(t)
    BY <1>4, <1>5 DEF BeginExecute, BeginRecall, BeginFails, BeginConclusion
<1>6. CASE Interpret(t) \/ Assess(t) \/ DeriveStrategy(t)
    BY <1>4, <1>6 DEF Interpret, Assess, DeriveStrategy, DeriveFrom
<1>7. CASE RecallInterpretations(t) \/ RecallAssessments(t) \/ RecallStrategies(t)
    BY <1>4, <1>7 DEF RecallInterpretations, RecallAssessments, RecallStrategies, Answer
<1>8. CASE TakeLock(t) \/ Commit(t) \/ RefuseConclusion(t) \/ ClockFails(t)
    BY <1>4, <1>8 DEF TakeLock, Commit, RefuseConclusion, ClockFails
<1>9. CASE StampConclusion(t)
    BY <1>3, <1>9 DEF StampConclusion, Quiet
<1> QED BY <1>5, <1>6, <1>7, <1>8, <1>9 DEF Conclude

\* Every step is one of the governed pipeline or one of a conclusion.
LEMMA StepsAre ==
    ASSUME TypeInv, [ConcludingNext]_allVars
    PROVE  \/ [Next]_vars /\ UNCHANGED conclusionVars
           \/ Quiet /\ \E t \in Threads : Conclude(t)
<1>1. Govern => Next
    BY DEF Govern, Next
<1>2. AllResting \/ UNCHANGED allVars => UNCHANGED vars /\ UNCHANGED conclusionVars
    BY DEF AllResting, allVars
<1> QED BY <1>1, <1>2, ConclusionsAreQuiet DEF ConcludingNext

\* The governed pipeline, composed, is as typed as it is alone.
LEMMA GovernedTypesStep == TypeInv /\ [ConcludingNext]_allVars => TypeInv'
<1> SUFFICES ASSUME TypeInv, [ConcludingNext]_allVars PROVE TypeInv'
    OBVIOUS
<1>1. CASE [Next]_vars
    BY <1>1, TypesStep
<1>2. CASE Quiet
    BY <1>2 DEF Quiet, TypeInv, TypeOK
<1> QED BY <1>1, <1>2, StepsAre

LEMMA GovernedTypes == ConcludingSpec => []TypeInv
BY InitIsTyped, GovernedTypesStep, PTL DEF ConcludingSpec

\* ... its locks in the same order ...
LEMMA GovernedLocks == ConcludingSpec => []LockInv
<1>1. TypeInv' /\ LockInv /\ [ConcludingNext]_allVars => LockInv'
    <2> SUFFICES ASSUME TypeInv', LockInv, [ConcludingNext]_allVars PROVE LockInv'
        OBVIOUS
    <2>1. CASE [Next]_vars
        BY <2>1, LocksStep
    <2>2. CASE Quiet
        BY <2>2 DEF Quiet, LockInv, Orderly, Held, Awaited
    <2> QED BY <2>1, <2>2, StepsAre DEF LockInv
<1> QED BY <1>1, LocksInit, GovernedTypes, PTL DEF ConcludingSpec

\* ... and its histories as grounded.
LEMMA GovernedGround == ConcludingSpec => []GroundInv
<1>1. TypeInv' /\ GroundInv /\ [ConcludingNext]_allVars => GroundInv'
    <2> SUFFICES ASSUME TypeInv', GroundInv, [ConcludingNext]_allVars PROVE GroundInv'
        OBVIOUS
    <2>1. CASE [Next]_vars
        BY <2>1, GroundStep
    <2>2. CASE Quiet
        BY <2>2, GroundUndisturbed DEF Quiet
    <2> QED BY <2>1, <2>2, StepsAre DEF GroundInv
<1> QED BY <1>1, GroundInit, GovernedTypes, PTL DEF ConcludingSpec

\* A conclusion's reading of the clock takes nothing from a use.
LEMMA GovernedUses == ConcludingSpec => []DistinctKept
<1>1. TypeInv' /\ LockInv /\ DistinctKept /\ [ConcludingNext]_allVars => DistinctKept'
    <2> SUFFICES ASSUME TypeInv', LockInv, DistinctKept, [ConcludingNext]_allVars
                 PROVE  DistinctKept'
        OBVIOUS
    <2>1. CASE [Next]_vars
        BY <2>1, UsesStep
    <2>2. CASE Quiet
        <3>1. scenario.clock = "distinct" => KeptInv'
            BY <2>2, ReadingKeepsUses DEF Quiet, DistinctKept, LockInv
        <3> QED BY <2>2, <3>1 DEF Quiet, DistinctKept
    <2> QED BY <2>1, <2>2, StepsAre DEF LockInv
<1> QED BY <1>1, UsesInit, GovernedTypes, GovernedLocks, PTL DEF ConcludingSpec

-----------------------------------------------------------------------------
(* Types *)

Services ==
    /\ kept \in [Conclusions -> Seq(Conclusion)]
    /\ pending \in [Conclusions -> BOOLEAN]
    /\ lock \in [Locks -> Threads \cup {NoThread}]
    /\ work \in [Threads -> Work]
    /\ asked \in [Threads -> Nat] /\ faults \in Nat
    /\ \A t \in Threads : work[t].at \in {"stamp", "commit"} => work[t].entry \in Conclusion

LEMMA RestingIsWork == Resting \in Work
BY DEF Resting, Work, Conclusions, Outcomes, NoConclusion, Conclusion

\* What the next request of a thread asks for.
LEMMA NextRequest ==
    ASSUME TypeInv, Services, NEW t \in Threads, NEW does, BeginConclusion(t, does)
    PROVE  Asked(t) \in Conclusions
<1>1. /\ scenario.conclude \in [Threads -> Seq(Requests)] /\ asked[t] \in Nat
      /\ asked[t] < Len(scenario.conclude[t])
    BY ConclusionsAssumption, TypeInvIs DEF Services, BeginConclusion
<1>2. scenario.conclude[t][asked[t] + 1] \in Requests
    <2>1. scenario.conclude[t] \in Seq(Requests)
        BY <1>1
    <2>2. asked[t] + 1 \in 1..Len(scenario.conclude[t])
        BY <1>1, <2>1
    <2> QED BY <2>1, <2>2
<1> QED BY <1>2 DEF Asked, Requests

LEMMA LocksForTyped ==
    ASSUME NEW k \in Conclusions
    PROVE  LocksFor[k] \in Seq(Locks)
<1>1. AnalyseLocks \in Seq(Locks)
    BY DEF AnalyseLocks, Locks, Histories
<1>2. <<"interpretation">> \in Seq(Locks) /\ <<"assessment">> \in Seq(Locks)
      /\ <<"strategy">> \in Seq(Locks)
    BY DEF Locks, Conclusions
<1>3. InterpretationLocks \in Seq(Locks)
    BY <1>1, <1>2, ConcatProperties DEF InterpretationLocks
<1>4. AssessmentLocks \in Seq(Locks)
    BY <1>2, <1>3, ConcatProperties DEF AssessmentLocks
<1>5. StrategyLocks \in Seq(Locks)
    BY <1>2, <1>4, ConcatProperties DEF StrategyLocks
<1> QED BY <1>3, <1>4, <1>5 DEF LocksFor, Conclusions

LEMMA SourcesAreNumbers ==
    ASSUME TypeInv, Services, NEW k \in Conclusions
    PROVE  DOMAIN Sources(k) \subseteq Nat \ {0}
<1>1. hist["technical"] \in Seq(Entry("technical"))
    BY TypeInvIs DEF Histories
<1>2. kept[SourceOf[k]] \in Seq(Conclusion) \/ k = "interpretation"
    BY DEF Services, Conclusions, SourceOf
<1> QED BY <1>1, <1>2 DEF Sources

\* The steps of a conclusion call, by what they make of its work: w is the work
\* after the step.
Opened(t, w) ==
    /\ work[t].at = "off" /\ call[t].at = "idle" /\ made[t] = Len(scenario.script[t])
    /\ w.at = "derive" /\ w.waiting = LocksFor[w.kind] /\ w.outcome = "none"
    /\ w.does = "recall" => w.cutoff <= latest'
    /\ UNCHANGED <<kept, pending, lock, snapshot>>

NotOpened(t, w) ==
    /\ work[t].at = "off" /\ w.at = "off" /\ w.waiting = <<>> /\ w.outcome = "temporal"
    /\ UNCHANGED <<kept, pending, lock, snapshot>>

\* Everything but waiting stays as it was.
Taken(t, w) ==
    /\ work[t].waiting # <<>> /\ Holder(Head(work[t].waiting)) = NoThread
    /\ lock' = [lock EXCEPT ![Head(work[t].waiting)] = t]
    /\ w = [work[t] EXCEPT !.waiting = Tail(work[t].waiting)]
    /\ UNCHANGED <<kept, pending, snapshot>>

Derived(t, w) ==
    /\ Doing(t, "derive") /\ work[t].does = "execute" /\ SourceKnown(t) /\ work[t].started <= now
    /\ work[t].kind = "interpretation" => TechnicalsAuthentic
    /\ w = [work[t] EXCEPT !.at = "stamp",
                !.entry = [source |-> work[t].source, started |-> work[t].started,
                           completed |-> now, available |-> 0]]
    /\ pending' = [pending EXCEPT ![work[t].kind] = TRUE]
    /\ UNCHANGED <<kept, lock, snapshot>>

Stamped(t, w) ==
    /\ Doing(t, "stamp") /\ Retainable(t) /\ ReadAvailability
    /\ w = [work[t] EXCEPT !.at = "commit",
                !.entry = [work[t].entry EXCEPT !.available = Availability]]
    /\ UNCHANGED <<kept, pending, lock, snapshot>>

Committed(t, w) ==
    /\ Doing(t, "commit")
    /\ w = [work[t] EXCEPT !.at = "off", !.outcome = "published"]
    /\ kept' = [kept EXCEPT ![work[t].kind] = Append(kept[work[t].kind], work[t].entry)]
    /\ pending' = [pending EXCEPT ![work[t].kind] = FALSE]
    /\ GivesBack(t) /\ UNCHANGED snapshot

Answered(t, w) ==
    /\ Doing(t, "derive") /\ work[t].does = "recall"
    /\ w = [work[t] EXCEPT !.at = "off", !.outcome = "answered",
                !.found = VisibleConclusions(work[t].kind, work[t].artifact, work[t].cutoff)]
    /\ GivesBack(t) /\ UNCHANGED <<kept, pending, snapshot>>

\* A call that holds its locks is refused, or its reading of the clock fails.
Ended(t, w) ==
    \E outcome \in {"temporal", "history", "unavailable", "semantic"} :
        /\ Doing(t, "derive") \/ Doing(t, "stamp")
        /\ outcome = "history" => Doing(t, "derive") /\ ~Authenticates(t)
        /\ w = [work[t] EXCEPT !.at = "off", !.outcome = outcome]
        /\ GivesBack(t) /\ Unstage(t) /\ UNCHANGED <<kept, snapshot>>

LEMMA OpeningIs ==
    ASSUME TypeInv, Services, NEW t \in Threads,
           BeginExecute(t) \/ BeginRecall(t) \/ BeginFails(t)
    PROVE  \E w \in Work : /\ work' = [work EXCEPT ![t] = w]
                           /\ Opened(t, w) \/ NotOpened(t, w)
<1>1. CASE BeginExecute(t)
    <2>1. PICK source \in {0} \cup DOMAIN Sources(Asked(t)) :
              work' = [work EXCEPT ![t] = [Resting EXCEPT
                      !.kind = Asked(t), !.at = "derive", !.waiting = LocksFor[Asked(t)],
                      !.source = source, !.started = now]]
        BY <1>1 DEF BeginExecute
    <2> DEFINE k == Asked(t)
               w == [Resting EXCEPT !.kind = k, !.at = "derive", !.waiting = LocksFor[k],
                        !.source = source, !.started = now]
    <2>2. k \in Conclusions /\ source \in Nat /\ LocksFor[k] \in Seq(Locks) /\ now \in Nat
        <3>1. k \in Conclusions
            BY <1>1, NextRequest DEF BeginExecute
        <3> HIDE DEF k
        <3>2. source \in {0} \cup DOMAIN Sources(k)
            BY DEF k
        <3> QED BY <3>1, <3>2, SourcesAreNumbers, LocksForTyped, TypeInvIs
    <2>3. work' = [work EXCEPT ![t] = w]
        BY <2>1
    <2> HIDE DEF k
    <2>4. w \in Work
        BY <2>2, RestingIsWork DEF Work, Locks
    <2>5. /\ w.at = "derive" /\ w.kind = k /\ w.waiting = LocksFor[k] /\ w.outcome = "none"
          /\ w.does = "execute"
        BY DEF Resting
    <2> HIDE DEF w
    <2>6. Opened(t, w)
        BY <1>1, <2>5 DEF BeginExecute, BeginConclusion, governed, Opened
    <2> QED BY <2>3, <2>4, <2>6
<1>2. CASE BeginRecall(t)
    <2>1. PICK artifact \in DOMAIN hist["construction"], cutoff \in Recent :
              work' = [work EXCEPT ![t] = [Resting EXCEPT
                      !.kind = Asked(t), !.does = "recall", !.at = "derive",
                      !.waiting = LocksFor[Asked(t)], !.artifact = artifact,
                      !.cutoff = cutoff]]
        BY <1>2 DEF BeginRecall
    <2> DEFINE k == Asked(t)
               w == [Resting EXCEPT !.kind = k, !.does = "recall", !.at = "derive",
                        !.waiting = LocksFor[k], !.artifact = artifact, !.cutoff = cutoff]
    <2>2. k \in Conclusions /\ LocksFor[k] \in Seq(Locks)
        BY <1>2, NextRequest, LocksForTyped DEF BeginRecall
    <2>3. artifact \in Nat /\ cutoff \in Nat /\ cutoff <= now /\ now \in Nat /\ latest \in Nat
        BY IndicesAreNumbers, TypeInvIs DEF Histories, Recent
    <2>4. cutoff <= latest'
        <3>1. now <= latest' /\ latest' \in Nat
            BY <1>2, <2>3, ReadingsGrow DEF BeginRecall
        <3> QED BY <2>3, <3>1
    <2>5. work' = [work EXCEPT ![t] = w]
        BY <2>1
    <2> HIDE DEF k
    <2>6. w \in Work
        BY <2>2, <2>3, RestingIsWork DEF Work, Locks
    <2>7. /\ w.at = "derive" /\ w.kind = k /\ w.waiting = LocksFor[k] /\ w.outcome = "none"
          /\ w.cutoff = cutoff
        BY DEF Resting
    <2> HIDE DEF w
    <2>8. Opened(t, w)
        BY <1>2, <2>4, <2>7 DEF BeginRecall, BeginConclusion, governed, Opened
    <2> QED BY <2>5, <2>6, <2>8
<1>3. CASE BeginFails(t)
    <2> DEFINE k == Asked(t)
               w == [Resting EXCEPT !.kind = k, !.outcome = "temporal"]
    <2>1. k \in Conclusions /\ work' = [work EXCEPT ![t] = w]
        BY <1>3, NextRequest DEF BeginFails
    <2> HIDE DEF k
    <2>2. w \in Work
        BY <2>1, RestingIsWork DEF Work, Outcomes
    <2>3. w.at = "off" /\ w.waiting = <<>> /\ w.outcome = "temporal"
        BY DEF Resting
    <2> HIDE DEF w
    <2>4. NotOpened(t, w)
        BY <1>3, <2>3 DEF BeginFails, BeginConclusion, governed, NotOpened
    <2> QED BY <2>1, <2>2, <2>4
<1> QED BY <1>1, <1>2, <1>3

LEMMA DeriveIs ==
    ASSUME TypeInv, Services, NEW t \in Threads, NEW kind, DeriveFrom(t, kind),
           kind = "interpretation" => TechnicalsAuthentic
    PROVE  \E w \in Work : work' = [work EXCEPT ![t] = w] /\ Derived(t, w) /\ w.entry \in Conclusion
<1> DEFINE e == [source |-> work[t].source, started |-> work[t].started,
                 completed |-> now, available |-> 0]
           w == [work[t] EXCEPT !.at = "stamp", !.entry = e]
<1>1. work \in [Threads -> Work] /\ work[t] \in Work /\ now \in Nat
    BY TypeInvIs DEF Services
<1>2. work[t].kind \in Conclusions /\ work[t].started \in Nat
    BY <1>1 DEF Work
<1>3. work[t].source \in Nat \ {0}
    BY <1>2, SourcesAreNumbers DEF DeriveFrom, SourceKnown
<1>4. e \in Conclusion
    BY <1>1, <1>2, <1>3 DEF Conclusion
<1>5. work' = [work EXCEPT ![t] = w]
    BY <1>1 DEF DeriveFrom
<1>6. Derived(t, w)
    BY DEF Derived, DeriveFrom, governed
<1> HIDE DEF e
<1>7. w \in Work /\ w.entry = e
    BY <1>1, <1>4 DEF Work
<1> QED BY <1>4, <1>5, <1>6, <1>7

LEMMA StampIs ==
    ASSUME TypeInv, Services, NEW t \in Threads, StampConclusion(t)
    PROVE  \E w \in Work : work' = [work EXCEPT ![t] = w] /\ Stamped(t, w) /\ w.entry \in Conclusion
<1> DEFINE e == [work[t].entry EXCEPT !.available = Availability]
           w == [work[t] EXCEPT !.at = "commit", !.entry = e]
<1>1. work \in [Threads -> Work] /\ work[t] \in Work /\ Availability \in Nat
    BY TypeInvIs, ReadingsGrow DEF Services
<1>2. work[t].entry \in Conclusion
    BY DEF Services, StampConclusion, Doing
<1>3. work' = [work EXCEPT ![t] = w]
    <2> HIDE DEF Availability
    <2> QED BY <1>1 DEF StampConclusion
<1>4. Stamped(t, w)
    BY DEF Stamped, StampConclusion
<1>5. e \in Conclusion
    <2> HIDE DEF Availability
    <2> QED BY <1>1, <1>2 DEF Conclusion
<1> HIDE DEF e
<1>6. w \in Work /\ w.entry = e
    BY <1>1, <1>5 DEF Work
<1> QED BY <1>3, <1>4, <1>5, <1>6

LEMMA AnswerIs ==
    ASSUME TypeInv, Services, NEW t \in Threads, NEW kind, Answer(t, kind)
    PROVE  \E w \in Work : work' = [work EXCEPT ![t] = w] /\ Answered(t, w)
<1> DEFINE found == VisibleConclusions(work[t].kind, work[t].artifact, work[t].cutoff)
           w == [work[t] EXCEPT !.at = "off", !.outcome = "answered", !.found = found]
<1>1. work \in [Threads -> Work] /\ work[t] \in Work /\ work[t].kind \in Conclusions
    BY DEF Services, Work
<1>2. work' = [work EXCEPT ![t] = w]
    BY <1>1 DEF Answer, AnswersUpTo
<1>3. found \in SUBSET Nat
    <2>1. kept[work[t].kind] \in Seq(Conclusion)
        BY <1>1 DEF Services
    <2> QED BY <2>1 DEF VisibleConclusions
<1>4. Answered(t, w)
    BY DEF Answered, Answer, governed, AnswersUpTo
<1> HIDE DEF found
<1>5. w \in Work
    BY <1>1, <1>3 DEF Work, Outcomes
<1> QED BY <1>2, <1>4, <1>5

LEMMA EndIs ==
    ASSUME TypeInv, Services, NEW t \in Threads, RefuseConclusion(t) \/ ClockFails(t)
    PROVE  \E w \in Work : work' = [work EXCEPT ![t] = w] /\ Ended(t, w)
<1>1. work \in [Threads -> Work] /\ work[t] \in Work
    BY DEF Services
<1>2. ASSUME NEW outcome \in {"temporal", "history", "unavailable", "semantic"},
             Doing(t, "derive") \/ Doing(t, "stamp"),
             outcome = "history" => Doing(t, "derive") /\ ~Authenticates(t),
             Ends(t, outcome), Unstage(t), UNCHANGED <<kept, snapshot>>
      PROVE  \E w \in Work : work' = [work EXCEPT ![t] = w] /\ Ended(t, w)
    <2> DEFINE w == [work[t] EXCEPT !.at = "off", !.outcome = outcome]
    <2>1. work' = [work EXCEPT ![t] = w]
        BY <1>1, <1>2 DEF Ends
    <2>2. w \in Work
        BY <1>1 DEF Work, Outcomes
    <2>3. Ended(t, w)
        BY <1>2 DEF Ended, Ends
    <2> QED BY <2>1, <2>2, <2>3
<1>3. CASE RefuseConclusion(t)
    <2> DEFINE r == Refusal(t)
    <2>1. /\ Ends(t, r) /\ Unstage(t) /\ UNCHANGED <<kept, snapshot>>
          /\ Doing(t, "derive") \/ Doing(t, "stamp")
        BY <1>3 DEF RefuseConclusion, governed
    <2>2. /\ r \in {"temporal", "history", "unavailable", "semantic"}
          /\ r = "history" => Doing(t, "derive") /\ ~Authenticates(t)
        BY <1>3 DEF RefuseConclusion, Refusal, Doing
    <2> HIDE DEF r
    <2> QED BY <1>2, <2>1, <2>2
<1>4. CASE ClockFails(t)
    BY <1>2, <1>4 DEF ClockFails, governed
<1> QED BY <1>3, <1>4

LEMMA TakeIs ==
    ASSUME TypeInv, Services, NEW t \in Threads, TakeLock(t)
    PROVE  \E w \in Work : work' = [work EXCEPT ![t] = w] /\ Taken(t, w)
<1> DEFINE rest == Tail(work[t].waiting)
           w == [work[t] EXCEPT !.waiting = rest]
<1>1. work \in [Threads -> Work] /\ work[t] \in Work /\ work[t].waiting \in Seq(Locks)
    BY DEF Services, Work, Locks
<1>2. work' = [work EXCEPT ![t] = w]
    BY <1>1 DEF TakeLock
<1>3. rest \in Seq(Locks)
    BY <1>1 DEF TakeLock
<1>4. Taken(t, w)
    BY DEF Taken, TakeLock, governed
<1> HIDE DEF rest
<1>5. w \in Work
    BY <1>1, <1>3 DEF Work, Locks
<1> QED BY <1>2, <1>4, <1>5

LEMMA CommitIs ==
    ASSUME TypeInv, Services, NEW t \in Threads, Commit(t)
    PROVE  \E w \in Work : work' = [work EXCEPT ![t] = w] /\ Committed(t, w)
<1> DEFINE w == [work[t] EXCEPT !.at = "off", !.outcome = "published"]
<1>1. work \in [Threads -> Work] /\ work[t] \in Work /\ work[t].kind \in Conclusions
      /\ kept \in [Conclusions -> Seq(Conclusion)]
    BY DEF Services, Work
<1>2. work' = [work EXCEPT ![t] = w]
    BY <1>1 DEF Commit, Ends
<1>3. w \in Work
    BY <1>1 DEF Work, Outcomes
<1>4. Committed(t, w)
    BY <1>1 DEF Committed, Commit, Ends, governed
<1> QED BY <1>2, <1>3, <1>4

LEMMA ConclusionsMove ==
    ASSUME TypeInv, Services, NEW t \in Threads, Conclude(t)
    PROVE  \E w \in Work :
              /\ work' = [work EXCEPT ![t] = w]
              /\ \/ Opened(t, w) \/ NotOpened(t, w) \/ Taken(t, w)
                 \/ Derived(t, w) /\ w.entry \in Conclusion
                 \/ Stamped(t, w) /\ w.entry \in Conclusion
                 \/ Committed(t, w) \/ Answered(t, w) \/ Ended(t, w)
BY OpeningIs, TakeIs, DeriveIs, StampIs, CommitIs, AnswerIs, EndIs
   DEF Conclude, Interpret, Assess, DeriveStrategy, RecallInterpretations, RecallAssessments,
       RecallStrategies

\* A conclusion call changes its own work, and leaves the snapshot.
LEMMA OwnWorkOnly ==
    ASSUME Services, NEW t \in Threads, NEW w, work' = [work EXCEPT ![t] = w]
    PROVE  work'[t] = w /\ \A u \in Threads : u # t => work'[u] = work[u]
BY DEF Services

LEMMA RequestsAreCounted ==
    ASSUME TypeInv, Services, NEW t \in Threads, Conclude(t)
    PROVE  asked' \in [Threads -> Nat] /\ faults' \in Nat
<1>1. asked \in [Threads -> Nat] /\ faults \in Nat
    BY DEF Services
<1>2. ASSUME NEW does, BeginConclusion(t, does) PROVE asked' \in [Threads -> Nat]
    BY <1>1, <1>2 DEF BeginConclusion
<1>3. CASE BeginExecute(t) \/ BeginRecall(t) \/ BeginFails(t)
    <2>1. \E does : BeginConclusion(t, does)
        BY <1>3 DEF BeginExecute, BeginRecall, BeginFails
    <2>2. faults' = faults \/ faults' = faults + 1
        BY <1>3 DEF BeginExecute, BeginRecall, BeginFails
    <2> QED BY <1>1, <1>2, <2>1, <2>2
<1>4. CASE ClockFails(t)
    BY <1>1, <1>4 DEF ClockFails
<1>5. CASE Interpret(t) \/ Assess(t) \/ DeriveStrategy(t) \/ RecallInterpretations(t)
           \/ RecallAssessments(t) \/ RecallStrategies(t)
    BY <1>1, <1>5 DEF Interpret, Assess, DeriveStrategy, DeriveFrom, RecallInterpretations,
       RecallAssessments, RecallStrategies, Answer
<1>6. CASE TakeLock(t) \/ StampConclusion(t) \/ Commit(t) \/ RefuseConclusion(t)
    BY <1>1, <1>6 DEF TakeLock, StampConclusion, Commit, RefuseConclusion
<1> QED BY <1>3, <1>4, <1>5, <1>6 DEF Conclude

LEMMA ServicesStep ==
    ASSUME TypeInv, Services, [ConcludingNext]_allVars
    PROVE  Services'
<1>1. CASE UNCHANGED conclusionVars
    BY <1>1 DEF conclusionVars, Services
<1>2. ASSUME NEW t \in Threads, Conclude(t) PROVE Services'
    <2>1. PICK w \in Work :
              /\ work' = [work EXCEPT ![t] = w]
              /\ \/ Opened(t, w) \/ NotOpened(t, w) \/ Taken(t, w)
                 \/ Derived(t, w) /\ w.entry \in Conclusion
                 \/ Stamped(t, w) /\ w.entry \in Conclusion
                 \/ Committed(t, w) \/ Answered(t, w) \/ Ended(t, w)
        BY <1>2, ConclusionsMove
    <2>2. /\ kept \in [Conclusions -> Seq(Conclusion)] /\ pending \in [Conclusions -> BOOLEAN]
          /\ lock \in [Locks -> Threads \cup {NoThread}] /\ work \in [Threads -> Work]
          /\ work[t] \in Work /\ work[t].kind \in Conclusions
          /\ work[t].waiting \in Seq(Locks)
        BY DEF Services, Work, Locks
    <2>3. work' \in [Threads -> Work] /\ asked' \in [Threads -> Nat] /\ faults' \in Nat
        BY <1>2, <2>1, <2>2, RequestsAreCounted
    <2>4. lock' \in [Locks -> Threads \cup {NoThread}]
        <3>1. CASE GivesBack(t)
            BY <2>2, <3>1 DEF GivesBack
        <3>2. CASE Taken(t, w)
            BY <2>2, <3>2 DEF Taken
        <3> QED BY <2>1, <2>2, <3>1, <3>2 DEF Opened, NotOpened, Derived, Stamped, Committed,
               Answered, Ended
    <2>5. pending' \in [Conclusions -> BOOLEAN]
        <3>1. CASE Unstage(t)
            BY <2>2, <3>1 DEF Unstage
        <3>2. CASE Derived(t, w) \/ Committed(t, w)
            BY <2>2, <3>2 DEF Derived, Committed
        <3> QED BY <2>1, <2>2, <3>1, <3>2 DEF Opened, NotOpened, Taken, Stamped, Answered, Ended
    <2>6. kept' \in [Conclusions -> Seq(Conclusion)]
        <3>1. CASE Committed(t, w)
            <4>1. work[t].entry \in Conclusion
                BY <3>1 DEF Committed, Doing, Services
            <4>2. Append(kept[work[t].kind], work[t].entry) \in Seq(Conclusion)
                BY <2>2, <4>1
            <4> QED BY <2>2, <3>1, <4>2 DEF Committed
        <3> QED BY <2>1, <2>2, <3>1 DEF Opened, NotOpened, Taken, Derived, Stamped, Answered, Ended
    <2>7. w.at \in {"stamp", "commit"} => w.entry \in Conclusion
        <3>1. CASE Taken(t, w)
            <4>1. w.at = work[t].at /\ w.entry = work[t].entry
                BY <2>2, <3>1 DEF Taken, Work
            <4> QED BY <4>1 DEF Services
        <3>2. CASE Opened(t, w) \/ NotOpened(t, w)
            BY <3>2 DEF Opened, NotOpened
        <3>3. CASE Committed(t, w) \/ Answered(t, w) \/ Ended(t, w)
            <4>1. w.at = "off"
                BY <2>2, <3>3 DEF Committed, Answered, Ended, Work
            <4> QED BY <4>1
        <3> QED BY <2>1, <3>1, <3>2, <3>3
    <2>8. \A u \in Threads : work'[u].at \in {"stamp", "commit"} => work'[u].entry \in Conclusion
        BY <2>1, <2>7, OwnWorkOnly DEF Services
    <2> QED BY <2>3, <2>4, <2>5, <2>6, <2>8 DEF Services
<1> QED BY <1>1, <1>2, StepsAre

LEMMA ServicesInit == Init /\ ConclusionsInit => Services
<1> SUFFICES ASSUME Init, ConclusionsInit PROVE Services
    OBVIOUS
<1>1. Resting.at = "off"
    BY DEF Resting
<1> QED BY <1>1, RestingIsWork DEF ConclusionsInit, Services, Locks

LEMMA ServicesTyped == ConcludingSpec => []Services
<1>1. TypeInv /\ Services /\ [ConcludingNext]_allVars => Services'
    BY ServicesStep
<1> QED BY <1>1, ServicesInit, GovernedTypes, PTL DEF ConcludingSpec

\* The conclusions and the pipeline they are drawn from keep to their types
\* together, for any number of threads, requests and failures of the clock.
THEOREM ConclusionsTyped == ConcludingSpec => []ConclusionsTypeOK
<1>1. TypeInv /\ Services /\ snapshot \in TechnicalSnapshot => ConclusionsTypeOK
    BY DEF ConclusionsTypeOK, Services, TypeInv, Locks
<1> QED BY <1>1, GovernedTypes, ServicesTyped, SnapshotTyped, PTL

-----------------------------------------------------------------------------
(* Locks *)

Depth == [interpretation |-> 9, assessment |-> 10, strategy |-> 11]

\* How many of its locks a conclusion call has taken.
Reached(w) == IF w.at = "off" THEN 0 ELSE Depth[w.kind] - Len(w.waiting)

\* It waits for the rest of the frozen order, holds what came before, and makes
\* no governed call meanwhile.
Taking(t) ==
    /\ work[t].at \in {"off", "stamp", "commit"} => work[t].waiting = <<>>
    /\ work[t].at # "off" => call[t].at = "idle" /\ made[t] = Len(scenario.script[t])
    /\ \A l \in Locks : lock[l] = t <=> Height(l) <= Reached(work[t])
    /\ work[t].at # "off" =>
          /\ Reached(work[t]) >= 0
          /\ \A i \in 1..Len(work[t].waiting) : Height(work[t].waiting[i]) = Reached(work[t]) + i

TakingInv == \A t \in Threads : Taking(t)

LEMMA HeightsAre ==
    /\ \A l \in Locks : Height(l) \in 1..11
    /\ \A l, m \in Locks : Height(l) = Height(m) => l = m
    /\ \A h \in Histories : Height(h) = Rank[h]
    /\ \A k \in Conclusions : Height(k) = Depth[k] /\ Depth[k] \in 9..11
BY DEF Locks, Histories, Conclusions, Height, Rank, Depth

\* A tuple of locks lists the frozen order from its start.
FromTheFirst(locks) ==
    locks \in Seq(Locks) /\ \A i \in 1..Len(locks) : Height(locks[i]) = i

LEMMA OneLockMore ==
    ASSUME NEW locks, FromTheFirst(locks), NEW l \in Locks, Height(l) = Len(locks) + 1
    PROVE  FromTheFirst(locks \o <<l>>) /\ Len(locks \o <<l>>) = Len(locks) + 1
<1>1. PICK one : one = <<l>>
    OBVIOUS
<1>2. PICK n \in Nat : n = Len(locks)
    BY DEF FromTheFirst
<1>3. locks \in Seq(Locks) /\ one \in Seq(Locks) /\ Len(one) = 1 /\ one[1] = l
    BY <1>1 DEF FromTheFirst
<1>4. /\ locks \o one \in Seq(Locks) /\ Len(locks \o one) = n + 1
      /\ \A i \in 1..(n + 1) : (locks \o one)[i] = IF i <= n THEN locks[i] ELSE one[i - n]
    <2>1. /\ locks \o one \in Seq(Locks) /\ Len(locks \o one) = Len(locks) + Len(one)
          /\ \A i \in 1..(Len(locks) + Len(one)) :
                (locks \o one)[i] = IF i <= Len(locks) THEN locks[i] ELSE one[i - Len(locks)]
        BY <1>3, ConcatProperties
    <2> QED BY <1>2, <1>3, <2>1
<1>5. ASSUME NEW i \in 1..(n + 1) PROVE Height((locks \o one)[i]) = i
    <2>1. CASE i <= n
        <3>1. (locks \o one)[i] = locks[i] /\ i \in 1..Len(locks)
            BY <1>2, <1>4, <2>1
        <3> QED BY <3>1 DEF FromTheFirst
    <2>2. CASE i = n + 1
        <3>1. (locks \o one)[i] = one[1]
            BY <1>4, <2>2
        <3> QED BY <1>2, <1>3, <2>2, <3>1
    <2>3. i <= n \/ i = n + 1
        OBVIOUS
    <2> QED BY <2>1, <2>2, <2>3
<1>6. FromTheFirst(locks \o one)
    BY <1>4, <1>5 DEF FromTheFirst
<1> QED BY <1>1, <1>2, <1>4, <1>6

\* The locks a conclusion takes are the frozen order up to its own.
LEMMA LocksForClimb ==
    ASSUME NEW k \in Conclusions
    PROVE  FromTheFirst(LocksFor[k]) /\ Len(LocksFor[k]) = Depth[k]
<1>1. FromTheFirst(AnalyseLocks) /\ Len(AnalyseLocks) = 8
    BY DEF FromTheFirst, AnalyseLocks, Locks, Histories, Height, Rank
<1>2. /\ Height("interpretation") = 9 /\ Height("assessment") = 10 /\ Height("strategy") = 11
      /\ {"interpretation", "assessment", "strategy"} \subseteq Locks
    BY DEF Height, Locks, Conclusions
<1>3. FromTheFirst(InterpretationLocks) /\ Len(InterpretationLocks) = 9
    <2>1. "interpretation" \in Locks /\ Height("interpretation") = Len(AnalyseLocks) + 1
        BY <1>1, <1>2
    <2>2. /\ FromTheFirst(AnalyseLocks \o <<"interpretation">>)
          /\ Len(AnalyseLocks \o <<"interpretation">>) = Len(AnalyseLocks) + 1
        BY <1>1, <1>2, <2>1, OneLockMore, Zenon
    <2> QED BY <1>1, <1>2, <2>2 DEF InterpretationLocks
<1>4. FromTheFirst(AssessmentLocks) /\ Len(AssessmentLocks) = 10
    <2>1. "assessment" \in Locks /\ Height("assessment") = Len(InterpretationLocks) + 1
        BY <1>2, <1>3
    <2>2. /\ FromTheFirst(InterpretationLocks \o <<"assessment">>)
          /\ Len(InterpretationLocks \o <<"assessment">>) = Len(InterpretationLocks) + 1
        BY <1>2, <1>3, <2>1, OneLockMore, Zenon
    <2> QED BY <1>2, <1>3, <2>2 DEF AssessmentLocks
<1>5. FromTheFirst(StrategyLocks) /\ Len(StrategyLocks) = 11
    <2>1. "strategy" \in Locks /\ Height("strategy") = Len(AssessmentLocks) + 1
        BY <1>2, <1>4
    <2>2. /\ FromTheFirst(AssessmentLocks \o <<"strategy">>)
          /\ Len(AssessmentLocks \o <<"strategy">>) = Len(AssessmentLocks) + 1
        BY <1>2, <1>4, <2>1, OneLockMore, Zenon
    <2> QED BY <1>2, <1>4, <2>2 DEF StrategyLocks
<1>6. /\ LocksFor["interpretation"] = InterpretationLocks /\ Depth["interpretation"] = 9
      /\ LocksFor["assessment"] = AssessmentLocks /\ Depth["assessment"] = 10
      /\ LocksFor["strategy"] = StrategyLocks /\ Depth["strategy"] = 11
    BY DEF LocksFor, Depth
<1> QED BY <1>3, <1>4, <1>5, <1>6 DEF Conclusions

LEMMA TakingInit == Init /\ ConclusionsInit => TakingInv
<1> SUFFICES ASSUME Init, ConclusionsInit, NEW t \in Threads PROVE Taking(t)
    BY DEF TakingInv
<1>1. work[t] = Resting /\ Resting.at = "off" /\ Resting.waiting = <<>>
    BY DEF ConclusionsInit, Resting
<1>2. \A l \in Locks : lock[l] # t
    BY GovernedAssumption DEF ConclusionsInit, Locks
<1>3. \A l \in Locks : ~(Height(l) <= 0)
    BY HeightsAre
<1> QED BY <1>1, <1>2, <1>3 DEF Taking, Reached

\* Only a call that has not returned takes a step, and it changes no other.
LEMMA OneGovernedCall ==
    ASSUME LockInv, [Next]_vars, NEW t \in Threads, call[t].at = "idle",
           made[t] = Len(scenario.script[t])
    PROVE  call'[t] = call[t] /\ made'[t] = made[t] /\ scenario' = scenario
<1>1. call \in [Threads -> Calls] /\ made \in [Threads -> Nat] /\ scenario' = scenario
    BY TypeInvIs, ScenarioStays DEF LockInv
<1>2. call[t].waiting = <<>>
    <2>1. call[t].waiting \in Seq(Histories)
        BY <1>1, CallsAre
    <2>2. Awaited(t) = {}
        BY DEF LockInv, Orderly, Region
    <2>3. Len(call[t].waiting) = 0
        <3>1. 1 \in 1..Len(call[t].waiting) => call[t].waiting[1] \in Awaited(t)
            BY DEF Awaited
        <3> QED BY <2>1, <2>2, <3>1
    <2> QED BY <2>1, <2>3
<1>3. ASSUME NEW u \in Threads, NEW op, NEW request, Begin(u, op, request)
      PROVE  call'[t] = call[t] /\ made'[t] = made[t]
    BY <1>1, <1>3 DEF Begin
<1>4. ASSUME NEW u \in Threads, Start(u) PROVE call'[t] = call[t] /\ made'[t] = made[t]
    BY <1>3, <1>4 DEF Start, BeginConstruct, BeginValidate, BeginFreshness, BeginAdmit,
       BeginActivate, BeginQualify, BeginBridge, BeginAnalyse
<1>5. ASSUME NEW u \in Threads, Step(u)
      PROVE  made' = made /\ u # t /\ \A v \in Threads : v # u => call'[v] = call[v]
    <2>1. ASSUME NEW point, NEW detail, NEW locks, Stage(u, point, detail, locks)
          PROVE  made' = made /\ \A v \in Threads : v # u => call'[v] = call[v]
        BY <1>1, <2>1 DEF Stage
    <2>2. CASE Construct(u) \/ RunRule(u) \/ Evaluate(u) \/ Bridge(u) \/ Analyse(u)
        BY <2>1, <2>2 DEF Construct, RunRule, Evaluate, Bridge, Analyse, At
    <2>3. CASE ResolvePrerequisites(u)
        BY <2>1, <2>3 DEF ResolvePrerequisites, At
    <2>4. CASE IssueActive(u)
        BY <2>1, <2>4 DEF IssueActive, At
    <2>5. CASE Qualify(u)
        BY <2>1, <2>5 DEF Qualify, At
    <2>6. CASE Acquire(u)
        BY <1>1, <1>2, <2>6 DEF Acquire
    <2>7. CASE AcquisitionFails(u) \/ Lookup(u) \/ ReadPredecessor(u) \/ StartTask(u)
        BY <1>1, <2>7 DEF AcquisitionFails, Lookup, ReadPredecessor, StartTask, Return, At
    <2>8. CASE Survey(u)
        BY <1>1, <2>8 DEF Survey, At
    <2>9. CASE Stamp(u)
        BY <1>1, <2>9 DEF Stamp, At
    <2>10. CASE Publish(u)
        BY <1>1, <2>10 DEF Publish, At
    <2>11. CASE Refuse(u)
        <3>1. made' = made /\ call' = [call EXCEPT ![u] = Idle]
            BY <2>11 DEF Refuse, Return
        <3>2. u # t
            BY <2>11 DEF Refuse, Refused, At
        <3> QED BY <1>1, <3>1, <3>2
    <2> QED BY <1>5, <2>2, <2>3, <2>4, <2>5, <2>6, <2>7, <2>8, <2>9, <2>10, <2>11 DEF Step
<1>6. CASE Move \/ AllIdle \/ UNCHANGED vars
    BY <1>6 DEF Move, AllIdle, vars
<1> QED BY <1>1, <1>4, <1>5, <1>6 DEF Next

\* Every lock given back, and nothing waited for.
LEMMA EndKeepsTaking ==
    ASSUME Services, TakingInv, NEW t \in Threads, NEW w, work' = [work EXCEPT ![t] = w],
           w.at = "off", w.waiting = <<>>, GivesBack(t), UNCHANGED <<call, made, scenario>>
    PROVE  TakingInv'
<1>1. /\ lock \in [Locks -> Threads \cup {NoThread}] /\ t # NoThread
      /\ lock' = [l \in Locks |-> IF lock[l] = t THEN NoThread ELSE lock[l]]
    BY GovernedAssumption DEF Services, GivesBack
<1>2. Taking(t)'
    <2>1. work'[t] = w /\ Reached(w) = 0
        BY OwnWorkOnly DEF Reached
    <2>2. \A l \in Locks : lock'[l] # t /\ ~(Height(l) <= 0)
        BY <1>1, HeightsAre
    <2> QED BY <2>1, <2>2 DEF Taking
<1>3. ASSUME NEW u \in Threads, u # t PROVE Taking(u)'
    <2>1. work'[u] = work[u] /\ \A l \in Locks : lock'[l] = u <=> lock[l] = u
        BY <1>1, <1>3, GovernedAssumption, OwnWorkOnly
    <2> QED BY <2>1 DEF Taking, TakingInv
<1> QED BY <1>2, <1>3 DEF TakingInv

\* Nothing taken, and as much reached as before.
LEMMA SameKeepsTaking ==
    ASSUME Services, TakingInv, NEW t \in Threads, NEW w, work' = [work EXCEPT ![t] = w],
           w.waiting = <<>>, w.kind = work[t].kind, w.at # "off",
           work[t].waiting = <<>>, work[t].at # "off", UNCHANGED <<lock, call, made, scenario>>
    PROVE  TakingInv'
<1>1. work'[t] = w /\ Reached(w) = Reached(work[t])
    BY OwnWorkOnly DEF Reached
<1>2. Taking(t)'
    BY <1>1 DEF Taking, TakingInv
<1>3. ASSUME NEW u \in Threads, u # t PROVE Taking(u)'
    BY <1>3, OwnWorkOnly DEF Taking, TakingInv
<1> QED BY <1>2, <1>3 DEF TakingInv

LEMMA OpenedKeepsTaking ==
    ASSUME Services, TakingInv, NEW t \in Threads, NEW w \in Work, work' = [work EXCEPT ![t] = w],
           Opened(t, w), UNCHANGED <<call, made, scenario>>
    PROVE  TakingInv'
<1>1. /\ work'[t] = w /\ w.at = "derive" /\ w.waiting = LocksFor[w.kind] /\ w.kind \in Conclusions
      /\ call[t].at = "idle" /\ made[t] = Len(scenario.script[t])
    BY OwnWorkOnly DEF Opened, Work
<1>2. FromTheFirst(w.waiting) /\ Len(w.waiting) = Depth[w.kind] /\ Depth[w.kind] \in 9..11
    BY <1>1, LocksForClimb, HeightsAre
<1>3. Reached(w) = 0
    BY <1>1, <1>2 DEF Reached
<1>4. \A l \in Locks : lock'[l] # t /\ ~(Height(l) <= 0)
    BY HeightsAre DEF Opened, TakingInv, Taking, Reached
<1>5. \A i \in 1..Len(w.waiting) : Height(w.waiting[i]) = 0 + i
    BY <1>2 DEF FromTheFirst
<1>6. Taking(t)'
    BY <1>1, <1>3, <1>4, <1>5 DEF Taking
<1>7. ASSUME NEW u \in Threads, u # t PROVE Taking(u)'
    BY <1>7, OwnWorkOnly DEF Taking, TakingInv, Opened
<1> QED BY <1>6, <1>7 DEF TakingInv

LEMMA TakenKeepsTaking ==
    ASSUME Services, TakingInv, NEW t \in Threads, NEW w \in Work, work' = [work EXCEPT ![t] = w],
           Taken(t, w), UNCHANGED <<call, made, scenario>>
    PROVE  TakingInv'
<1>1. /\ work[t] \in Work /\ work[t].waiting \in Seq(Locks) /\ work[t].waiting # <<>>
      /\ lock \in [Locks -> Threads \cup {NoThread}] /\ work[t].kind \in Conclusions
    BY DEF Services, Work, Locks, Taken
<1>2. PICK seq \in Seq(Locks) : seq = work[t].waiting /\ seq # <<>>
    BY <1>1
<1>3. PICK n \in Nat : n = Len(seq) /\ n > 0
    BY <1>2
<1>4. /\ Head(seq) = seq[1] /\ Head(seq) \in Locks /\ Len(Tail(seq)) = n - 1
      /\ \A i \in 1..(n - 1) : Tail(seq)[i] = seq[i + 1]
    BY <1>2, <1>3
<1>5. w.at = work[t].at /\ w.kind = work[t].kind /\ w.waiting = Tail(seq)
    BY <1>1, <1>2 DEF Taken, Work
<1>6. /\ work[t].at \notin {"off", "stamp", "commit"} /\ call[t].at = "idle"
      /\ made[t] = Len(scenario.script[t])
    BY <1>1 DEF TakingInv, Taking
<1>7. PICK r \in Nat : r = Reached(work[t]) /\ r + n = Depth[work[t].kind]
    <2>1. Depth[work[t].kind] \in Nat
        BY <1>1, HeightsAre
    <2>2. Reached(work[t]) = Depth[work[t].kind] - n /\ Reached(work[t]) >= 0
        BY <1>2, <1>3, <1>6 DEF Reached, TakingInv, Taking
    <2> QED BY <2>1, <2>2
<1>8. \A i \in 1..n : Height(seq[i]) = r + i
    BY <1>2, <1>3, <1>6, <1>7 DEF TakingInv, Taking
<1>9. Reached(w) = r + 1
    BY <1>3, <1>4, <1>5, <1>6, <1>7 DEF Reached
<1>10. \A i \in 1..Len(w.waiting) : Height(w.waiting[i]) = (r + 1) + i
    <2> SUFFICES ASSUME NEW i \in 1..(n - 1) PROVE Height(seq[i + 1]) = (r + 1) + i
        BY <1>3, <1>4, <1>5
    <2>1. i + 1 \in 1..n
        BY <1>3
    <2> QED BY <1>8, <2>1
<1>11. /\ lock[Head(seq)] = NoThread /\ Height(Head(seq)) = r + 1
       /\ lock' = [lock EXCEPT ![Head(seq)] = t]
    <2>1. 1 \in 1..n
        BY <1>3
    <2>2. lock[Head(seq)] = NoThread
        BY <1>2 DEF Taken, Holder
    <2> QED BY <1>2, <1>4, <1>8, <2>1, <2>2 DEF Taken
<1>12. \A l \in Locks : lock'[l] = t <=> Height(l) <= r + 1
    <2>1. \A l \in Locks : lock[l] = t <=> Height(l) <= r
        BY <1>7 DEF TakingInv, Taking
    <2>2. \A l \in Locks : Height(l) \in Nat /\ (Height(l) = r + 1 => l = Head(seq))
        BY <1>4, <1>11, HeightsAre
    <2>3. ASSUME NEW l \in Locks, l # Head(seq) PROVE lock'[l] = t <=> Height(l) <= r + 1
        <3>1. lock'[l] = lock[l]
            BY <1>1, <1>11, <2>3
        <3>2. Height(l) # r + 1 /\ Height(l) \in Nat
            BY <2>2, <2>3
        <3> QED BY <2>1, <3>1, <3>2
    <2>4. lock'[Head(seq)] = t /\ Height(Head(seq)) <= r + 1
        BY <1>1, <1>4, <1>11
    <2> QED BY <2>3, <2>4
<1>13. Taking(t)'
    <2>1. work'[t] = w
        BY OwnWorkOnly
    <2>2. work'[t].at \notin {"off", "stamp", "commit"}
        BY <1>5, <1>6, <2>1
    <2>3. call'[t].at = "idle" /\ made'[t] = Len(scenario'.script[t])
        BY <1>6
    <2>4. Reached(work'[t]) = r + 1 /\ r + 1 >= 0
        BY <1>9, <2>1
    <2>5. \A l \in Locks : lock'[l] = t <=> Height(l) <= Reached(work'[t])
        BY <1>12, <2>4
    <2>6. \A i \in 1..Len(work'[t].waiting) : Height(work'[t].waiting[i]) = Reached(work'[t]) + i
        BY <1>10, <2>1, <2>4
    <2> QED BY <2>2, <2>3, <2>4, <2>5, <2>6 DEF Taking
<1>14. ASSUME NEW u \in Threads, u # t PROVE Taking(u)'
    <2>1. \A l \in Locks : lock'[l] = u <=> lock[l] = u
        BY <1>1, <1>4, <1>11, <1>14, GovernedAssumption
    <2> QED BY <1>14, <2>1, OwnWorkOnly DEF Taking, TakingInv
<1> QED BY <1>13, <1>14 DEF TakingInv

LEMMA TakingStep ==
    ASSUME LockInv, Services, TakingInv, [ConcludingNext]_allVars
    PROVE  TakingInv'
<1>1. TypeInv
    BY DEF LockInv
<1>2. CASE [Next]_vars /\ UNCHANGED conclusionVars
    <2> SUFFICES ASSUME NEW t \in Threads PROVE Taking(t)'
        BY DEF TakingInv
    <2>1. UNCHANGED <<work, lock>>
        BY <1>2 DEF conclusionVars
    <2>2. work[t].at # "off" => /\ call'[t].at = "idle" /\ made'[t] = Len(scenario'.script[t])
        BY <1>2, OneGovernedCall DEF TakingInv, Taking
    <2> QED BY <2>1, <2>2 DEF TakingInv, Taking
<1>3. ASSUME NEW t \in Threads, Conclude(t), Quiet PROVE TakingInv'
    <2>1. UNCHANGED <<call, made, scenario>>
        BY <1>3 DEF Quiet
    <2>2. PICK w \in Work :
              /\ work' = [work EXCEPT ![t] = w]
              /\ \/ Opened(t, w) \/ NotOpened(t, w) \/ Taken(t, w) \/ Derived(t, w)
                 \/ Stamped(t, w) \/ Committed(t, w) \/ Answered(t, w) \/ Ended(t, w)
        BY <1>1, <1>3, ConclusionsMove
    <2>3. work[t] \in Work
        BY DEF Services
    <2>4. CASE Committed(t, w) \/ Answered(t, w) \/ Ended(t, w)
        <3>1. w.at = "off" /\ w.waiting = <<>> /\ GivesBack(t)
            BY <2>3, <2>4 DEF Committed, Answered, Ended, Doing, Work
        <3> QED BY <2>1, <2>2, <3>1, EndKeepsTaking
    <2>5. CASE Derived(t, w) \/ Stamped(t, w)
        <3>1. /\ w.waiting = <<>> /\ w.kind = work[t].kind /\ w.at # "off"
              /\ work[t].waiting = <<>> /\ work[t].at # "off" /\ UNCHANGED lock
            BY <2>3, <2>5 DEF Derived, Stamped, Doing, Work
        <3> QED BY <2>1, <2>2, <3>1, SameKeepsTaking
    <2>6. CASE NotOpened(t, w)
        <3>1. work'[t] = w /\ w.at = "off" /\ w.waiting = <<>> /\ work[t].at = "off"
            BY <2>2, <2>6, OwnWorkOnly DEF NotOpened
        <3>2. Reached(w) = Reached(work[t]) /\ UNCHANGED lock
            BY <2>6, <3>1 DEF Reached, NotOpened
        <3>3. Taking(t)'
            BY <3>1, <3>2 DEF TakingInv, Taking
        <3>4. ASSUME NEW u \in Threads, u # t PROVE Taking(u)'
            BY <2>1, <2>2, <3>2, <3>4, OwnWorkOnly DEF TakingInv, Taking
        <3> QED BY <3>3, <3>4 DEF TakingInv
    <2> QED BY <2>1, <2>2, <2>4, <2>5, <2>6, OpenedKeepsTaking, TakenKeepsTaking
<1> QED BY <1>1, <1>2, <1>3, StepsAre

LEMMA LocksAreTaken == ConcludingSpec => []TakingInv
<1>1. LockInv /\ Services /\ TakingInv /\ [ConcludingNext]_allVars => TakingInv'
    BY TakingStep
<1> QED BY <1>1, TakingInit, GovernedLocks, ServicesTyped, PTL DEF ConcludingSpec

\* A thread waits in one call, governed or of a conclusion, and for one of the locks.
LEMMA WaitsAre ==
    ASSUME LockInv, Services, TakingInv, NEW v \in Threads
    PROVE  /\ call[v].waiting \in Seq(Histories) /\ work[v].waiting \in Seq(Locks)
           /\ work[v].at = "off" => work[v].waiting = <<>> /\ Waiting(v) = call[v].waiting
           /\ work[v].at # "off" => call[v].waiting = <<>> /\ Waiting(v) = work[v].waiting
<1>1. call[v].waiting \in Seq(Histories) /\ work[v].waiting \in Seq(Locks)
    BY TypeInvIs, CallsAre DEF LockInv, Services, Work, Locks
<1>2. CASE work[v].at = "off"
    <2>1. work[v].waiting = <<>>
        BY <1>2 DEF TakingInv, Taking
    <2> QED BY <1>1, <1>2, <2>1, ConcatEmptySeq DEF Waiting
<1>3. CASE work[v].at # "off"
    <2>1. Awaited(v) = {}
        BY <1>3 DEF TakingInv, Taking, LockInv, Orderly, Region
    <2>2. 1 \in 1..Len(call[v].waiting) => call[v].waiting[1] \in Awaited(v)
        BY DEF Awaited
    <2>3. call[v].waiting = <<>>
        BY <1>1, <2>1, <2>2
    <2> QED BY <1>1, <1>3, <2>3, ConcatEmptySeq DEF Waiting
<1> QED BY <1>1, <1>2, <1>3

LEMMA NobodyWaitsBelow ==
    ASSUME LockInv, Services, TakingInv, NEW t \in Threads, NEW u \in Threads,
           Waiting(t) # <<>>, Waiting(u) # <<>>, Holder(Head(Waiting(t))) = u
    PROVE  Height(Head(Waiting(t))) < Height(Head(Waiting(u)))
<1>1. ASSUME NEW v \in Threads
      PROVE  /\ call[v].waiting \in Seq(Histories) /\ work[v].waiting \in Seq(Locks)
             /\ work[v].at = "off" => work[v].waiting = <<>> /\ Waiting(v) = call[v].waiting
             /\ work[v].at # "off" => call[v].waiting = <<>> /\ Waiting(v) = work[v].waiting
    BY WaitsAre
<1>2. PICK l : l = Head(Waiting(t))
    OBVIOUS
<1>3. l \in Locks
    BY <1>1, <1>2 DEF Locks
<1>4. CASE l \in Histories /\ owner[l] = u
    <2>1. l \in Held(u)
        BY <1>4 DEF Held
    <2>2. call[u].at # "idle"
        BY <2>1 DEF LockInv, Orderly, Region
    <2>3. work[u].at = "off" /\ Waiting(u) = call[u].waiting
        BY <1>1, <2>2 DEF TakingInv, Taking
    <2>4. /\ 1 \in 1..Len(call[u].waiting) /\ Head(call[u].waiting) = call[u].waiting[1]
          /\ Head(call[u].waiting) \in Histories
        BY <1>1, <2>3
    <2>5. Rank[l] < Rank[call[u].waiting[1]]
        BY <2>1, <2>4 DEF LockInv, Orderly
    <2> QED BY <1>2, <1>4, <2>3, <2>4, <2>5, HeightsAre
<1>5. CASE lock[l] = u
    <2>1. Height(l) <= Reached(work[u])
        BY <1>3, <1>5 DEF TakingInv, Taking
    <2>2. work[u].at # "off" /\ Waiting(u) = work[u].waiting
        <3>1. Height(l) \in 1..11
            BY <1>3, HeightsAre
        <3> QED BY <1>1, <2>1, <3>1 DEF Reached
    <2>3. /\ 1 \in 1..Len(work[u].waiting) /\ Head(work[u].waiting) = work[u].waiting[1]
        BY <1>1, <2>2
    <2>4. Height(work[u].waiting[1]) = Reached(work[u]) + 1
        BY <2>2, <2>3 DEF TakingInv, Taking
    <2>5. PICK low, high \in Nat : low = Height(l) /\ high = Height(work[u].waiting[1])
        <3>1. work[u].waiting \in Seq(Locks) /\ 1 \in 1..Len(work[u].waiting)
            BY <1>1, <2>3
        <3>2. work[u].waiting[1] \in Locks
            BY <3>1
        <3>3. \A m \in Locks : Height(m) \in Nat
            BY HeightsAre
        <3> QED BY <1>3, <3>2, <3>3
    <2>6. PICK r \in Int : r = Reached(work[u])
        <3>1. work[u].kind \in Conclusions /\ Len(work[u].waiting) \in Nat
            BY <1>1 DEF Services, Work
        <3> QED BY <3>1, HeightsAre DEF Reached
    <2> QED BY <1>2, <2>1, <2>2, <2>3, <2>4, <2>5, <2>6
<1> QED BY <1>2, <1>4, <1>5 DEF Holder

\* Through the eleven services, a thread waits only for a lock that comes later
\* than every lock it holds: governed calls and conclusions together form no
\* circle of waiting threads, with any number of either.
THEOREM ElevenLocksAreTakenInOrder == ConcludingSpec => []WaitsClimbThroughConclusions
<1>1. LockInv /\ Services /\ TakingInv => WaitsClimbThroughConclusions
    BY NobodyWaitsBelow DEF WaitsClimbThroughConclusions
<1> QED BY <1>1, GovernedLocks, ServicesTyped, LocksAreTaken, PTL

\* Of some of the numbers to eleven, one is the greatest.
LEMMA SomeHeightIsGreatest ==
    ASSUME NEW S \in SUBSET (1..11), S # {}
    PROVE  \E h \in S : \A g \in S : g <= h
<1> SUFFICES ASSUME \A h \in S : \E g \in S : ~(g <= h) PROVE FALSE
    OBVIOUS
<1>1. 11 \notin S
    OBVIOUS
<1>2. 10 \notin S
    BY <1>1
<1>3. 9 \notin S
    BY <1>1, <1>2
<1>4. 8 \notin S
    BY <1>1, <1>2, <1>3
<1>5. 7 \notin S
    BY <1>1, <1>2, <1>3, <1>4
<1>6. 6 \notin S
    BY <1>1, <1>2, <1>3, <1>4, <1>5
<1>7. 5 \notin S
    BY <1>1, <1>2, <1>3, <1>4, <1>5, <1>6
<1>8. 4 \notin S
    BY <1>1, <1>2, <1>3, <1>4, <1>5, <1>6, <1>7
<1>9. 3 \notin S
    BY <1>1, <1>2, <1>3, <1>4, <1>5, <1>6, <1>7, <1>8
<1>10. 2 \notin S
    BY <1>1, <1>2, <1>3, <1>4, <1>5, <1>6, <1>7, <1>8, <1>9
<1>11. 1 \notin S
    BY <1>1, <1>2, <1>3, <1>4, <1>5, <1>6, <1>7, <1>8, <1>9, <1>10
<1>12. PICK x \in S : TRUE
    OBVIOUS
<1>13. x \in Int /\ 1 <= x /\ x <= 11
    OBVIOUS
<1>14. /\ x # 1 /\ x # 2 /\ x # 3 /\ x # 4 /\ x # 5 /\ x # 6
       /\ x # 7 /\ x # 8 /\ x # 9 /\ x # 10 /\ x # 11
    BY <1>1, <1>2, <1>3, <1>4, <1>5, <1>6, <1>7, <1>8, <1>9, <1>10, <1>11
<1> QED BY <1>13, <1>14

\* Threads that all wait, each for a lock that another of them, or it itself, holds.
CircleOfWaiting(circle) ==
    /\ circle # {}
    /\ \A t \in circle : Waiting(t) # <<>> /\ Holder(Head(Waiting(t))) \in circle

\* So no threads ever wait for one another, however many take part: whoever waits,
\* waits in the end for a call that is waiting for nothing and gives its locks back
\* (the locks of execute, of _authoritative_read and of every recall).
THEOREM NobodyWaitsInACircle ==
    ConcludingSpec => [](\A circle \in SUBSET Threads : ~CircleOfWaiting(circle))
<1>1. LockInv /\ Services /\ TakingInv
      => \A circle \in SUBSET Threads : ~CircleOfWaiting(circle)
    <2> SUFFICES ASSUME LockInv, Services, TakingInv,
                        NEW circle \in SUBSET Threads, CircleOfWaiting(circle)
                 PROVE  FALSE
        OBVIOUS
    <2> DEFINE level(t) == Height(Head(Waiting(t)))
    <2>1. \A t \in circle : level(t) \in 1..11
        <3> SUFFICES ASSUME NEW t \in circle PROVE level(t) \in 1..11
            OBVIOUS
        <3>1. /\ Waiting(t) \in Seq(Histories) \/ Waiting(t) \in Seq(Locks)
              /\ Waiting(t) # <<>>
            BY WaitsAre DEF CircleOfWaiting
        <3>2. Head(Waiting(t)) \in Locks
            BY <3>1 DEF Locks
        <3> QED BY <3>2, HeightsAre
    <2>2. PICK t \in circle : \A u \in circle : level(u) <= level(t)
        <3> HIDE DEF level
        <3>1. {level(u) : u \in circle} \in SUBSET (1..11) /\ {level(u) : u \in circle} # {}
            BY <2>1 DEF CircleOfWaiting
        <3>2. PICK h \in {level(u) : u \in circle} : \A g \in {level(u) : u \in circle} : g <= h
            BY <3>1, SomeHeightIsGreatest
        <3> QED BY <3>2
    <2>3. PICK u \in circle : Holder(Head(Waiting(t))) = u
        BY DEF CircleOfWaiting
    <2>4. level(t) < level(u)
        BY <2>3, NobodyWaitsBelow DEF CircleOfWaiting
    <2> HIDE DEF level
    <2>5. level(t) \in Int /\ level(u) \in Int /\ level(u) <= level(t)
        BY <2>1, <2>2
    <2> QED BY <2>4, <2>5
<1> QED BY <1>1, GovernedLocks, ServicesTyped, LocksAreTaken, PTL

-----------------------------------------------------------------------------
(* Staging *)

\* What is staged belongs to a call that is still executing.
StagedInv ==
    \A k \in Conclusions : pending[k] =>
        \E t \in Threads : work[t].kind = k /\ work[t].at \in {"stamp", "commit"}

\* That call holds the lock of the service, and is the only one.
LEMMA StagingHolds ==
    ASSUME Services, TakingInv, NEW t \in Threads, NEW l \in Locks, work[t].at # "off",
           work[t].waiting = <<>>, Height(l) <= Height(work[t].kind)
    PROVE  lock[l] = t
<1>1. work[t].kind \in Conclusions
    BY DEF Services, Work
<1>2. Reached(work[t]) = Depth[work[t].kind] /\ Depth[work[t].kind] = Height(work[t].kind)
    BY <1>1, HeightsAre DEF Reached
<1> QED BY <1>2 DEF TakingInv, Taking

LEMMA StagedStep ==
    ASSUME TypeInv, Services, TakingInv, StagedInv, [ConcludingNext]_allVars
    PROVE  StagedInv'
<1>1. CASE UNCHANGED conclusionVars
    BY <1>1 DEF conclusionVars, StagedInv
<1>2. ASSUME NEW t \in Threads, Conclude(t) PROVE StagedInv'
    <2>1. PICK w \in Work :
              /\ work' = [work EXCEPT ![t] = w]
              /\ \/ Opened(t, w) \/ NotOpened(t, w) \/ Taken(t, w) \/ Derived(t, w)
                 \/ Stamped(t, w) \/ Committed(t, w) \/ Answered(t, w) \/ Ended(t, w)
        BY <1>2, ConclusionsMove
    <2>2. /\ work'[t] = w /\ \A u \in Threads : u # t => work'[u] = work[u]
          /\ work[t] \in Work /\ work[t].kind \in Conclusions
          /\ pending \in [Conclusions -> BOOLEAN]
        BY <2>1, OwnWorkOnly DEF Services, Work
    <2> SUFFICES ASSUME NEW k \in Conclusions, pending'[k]
                 PROVE  \E u \in Threads : work'[u].kind = k /\ work'[u].at \in {"stamp", "commit"}
        BY DEF StagedInv
    <2>3. CASE work[t].kind = k /\ (Derived(t, w) \/ Stamped(t, w))
        <3>1. w.kind = k /\ w.at \in {"stamp", "commit"}
            BY <2>2, <2>3 DEF Derived, Stamped, Work
        <3> QED BY <2>2, <3>1
    <2>4. CASE ~(work[t].kind = k /\ work[t].at \in {"stamp", "commit"}) /\ pending[k]
        <3>1. PICK u \in Threads : work[u].kind = k /\ work[u].at \in {"stamp", "commit"}
            BY <2>4 DEF StagedInv
        <3> QED BY <2>2, <2>4, <3>1
    <2>5. CASE work[t].kind = k /\ (Committed(t, w) \/ Ended(t, w))
        <3>1. work[t].at = "derive" /\ pending[k]
            BY <2>2, <2>5 DEF Committed, Ended, Doing, Unstage
        <3> QED BY <2>4, <3>1
    <2>6. CASE work[t].kind # k \/ ~(Derived(t, w) \/ Stamped(t, w) \/ Committed(t, w) \/ Ended(t, w))
        <3>1. pending[k]
            BY <2>1, <2>2, <2>6 DEF Opened, NotOpened, Taken, Derived, Stamped, Committed,
               Answered, Ended, Unstage
        <3>2. work[t].kind = k => work[t].at \notin {"stamp", "commit"}
            <4>1. CASE Opened(t, w) \/ NotOpened(t, w) \/ Answered(t, w)
                BY <4>1 DEF Opened, NotOpened, Answered, Doing
            <4>2. CASE Taken(t, w)
                BY <4>2 DEF Taken, TakingInv, Taking
            <4> QED BY <2>1, <2>6, <4>1, <4>2
        <3> QED BY <2>4, <3>1, <3>2
    <2> QED BY <2>1, <2>3, <2>5, <2>6
<1> QED BY <1>1, <1>2, StepsAre

LEMMA StagedIsHeld == ConcludingSpec => []StagedInv
<1>1. Init /\ ConclusionsInit => StagedInv
    BY DEF ConclusionsInit, StagedInv
<1>2. TypeInv /\ Services /\ TakingInv /\ StagedInv /\ [ConcludingNext]_allVars => StagedInv'
    BY StagedStep
<1> QED BY <1>1, <1>2, GovernedTypes, ServicesTyped, LocksAreTaken, PTL DEF ConcludingSpec

\* However calls end, by a refusal or a failed reading of the clock, nothing
\* stays staged in a service whose lock is free.
THEOREM StagingEndsWithItsCall == ConcludingSpec => []NothingLeftStaged
<1>1. ASSUME Services, TakingInv, StagedInv, NEW k \in Conclusions, pending[k]
      PROVE  lock[k] # NoThread
    <2>1. PICK t \in Threads : work[t].kind = k /\ work[t].at \in {"stamp", "commit"}
        BY <1>1 DEF StagedInv
    <2>2. work[t].at # "off" /\ work[t].waiting = <<>>
        BY <1>1, <2>1 DEF TakingInv, Taking
    <2>3. k \in Locks /\ Height(k) <= Height(work[t].kind)
        BY <2>1, HeightsAre DEF Locks
    <2>4. lock[k] = t
        BY <1>1, <2>2, <2>3, StagingHolds
    <2> QED BY <2>4, GovernedAssumption
<1>2. Services /\ TakingInv /\ StagedInv => NothingLeftStaged
    BY <1>1 DEF NothingLeftStaged
<1> QED BY <1>2, ServicesTyped, LocksAreTaken, StagedIsHeld, PTL

-----------------------------------------------------------------------------
(* What a conclusion rests on *)

\* What stands behind a use, and what it descends from, is as it is alone.
LEMMA GovernedVouched == ConcludingSpec => []VouchedInv
<1>1. GroundInv /\ VouchedInv /\ [ConcludingNext]_allVars => VouchedInv'
    <2> SUFFICES ASSUME GroundInv, VouchedInv, [ConcludingNext]_allVars PROVE VouchedInv'
        OBVIOUS
    <2>1. CASE [Next]_vars
        BY <2>1, VouchedStep
    <2>2. CASE Quiet
        <3>1. Grows /\ hist' = hist /\ call' = call
            BY <2>2 DEF Quiet, Grows
        <3>2. ASSUME NEW h \in {"admission", "qualification"}, NEW i \in DOMAIN hist[h]
              PROVE  Vouched(h, hist[h][i])'
            <4>1. PICK e : e = hist[h][i] /\ e = hist'[h][i]
                BY <3>1
            <4>2. Vouched(h, e)
                BY <3>2, <4>1 DEF VouchedInv
            <4>3. Vouched(h, e)'
                BY <3>1, <4>2, VouchedStays
            <4> QED BY <4>1, <4>3 DEF Vouched, Selected, GovernedUse
        <3>3. ASSUME NEW t \in Threads, call[t].at \in InHand
              PROVE  Vouched(call[t].writes, call[t].entry)'
            <4>1. PICK h, e : /\ h = call[t].writes /\ e = call[t].entry
                              /\ h = call'[t].writes /\ e = call'[t].entry
                BY <3>1
            <4>2. Vouched(h, e)
                BY <3>3, <4>1 DEF VouchedInv
            <4>3. Vouched(h, e)'
                BY <3>1, <4>2, VouchedStays
            <4> QED BY <4>1, <4>3 DEF Vouched, Selected, GovernedUse
        <3> QED BY <3>1, <3>2, <3>3 DEF VouchedInv
    <2> QED BY <2>1, <2>2, StepsAre DEF GroundInv
<1> QED BY <1>1, VouchedInit, GovernedGround, PTL DEF ConcludingSpec

LEMMA GovernedDescent == ConcludingSpec => []DescentInv
<1>1. GroundInv /\ DescentInv /\ [ConcludingNext]_allVars => DescentInv'
    <2> SUFFICES ASSUME GroundInv, DescentInv, [ConcludingNext]_allVars PROVE DescentInv'
        OBVIOUS
    <2>1. CASE [Next]_vars
        BY <2>1, DescentStep
    <2>2. CASE Quiet
        BY <2>2 DEF Quiet, DescentInv, Descends, AsksKnown
    <2> QED BY <2>1, <2>2, StepsAre DEF GroundInv
<1> QED BY <1>1, DescentInit, GovernedGround, PTL DEF ConcludingSpec

\* Conclusions are only ever added.
KeptGrows ==
    \A k \in Conclusions : /\ DOMAIN kept[k] \subseteq DOMAIN kept'[k]
                           /\ \A i \in DOMAIN kept[k] : kept'[k][i] = kept[k][i]

\* The source of a conclusion is retained and was known when its call began; an
\* interpretation's rests on a line back to a construction.
Founded(k, c) ==
    /\ c.source \in DOMAIN Sources(k)
    /\ Sources(k)[c.source].available <= c.started
    /\ k = "interpretation" => RestsOn(c.source)

LEMMA RestStays ==
    ASSUME Grows, NEW i, RestsOn(i)
    PROVE  RestsOn(i)'
<1>1. \A h \in {"technical", "bridge", "qualification", "construction"} :
          \A j \in DOMAIN hist[h] : j \in DOMAIN hist'[h] /\ hist'[h][j] = hist[h][j]
    BY DEF Grows, Histories
<1>2. PICK b, q, x : /\ b = hist["technical"][i].subject /\ q = hist["bridge"][b].subject
                     /\ x = hist["qualification"][q].subject
    OBVIOUS
<1>3. /\ i \in DOMAIN hist["technical"] /\ b \in DOMAIN hist["bridge"]
      /\ q \in DOMAIN hist["qualification"] /\ x \in DOMAIN hist["construction"]
      /\ hist["bridge"][b].available <= hist["technical"][i].available
      /\ hist["qualification"][q].available <= hist["technical"][i].available
      /\ hist["construction"][x].available <= hist["technical"][i].available
    BY <1>2 DEF RestsOn
<1>4. /\ hist'["technical"][i] = hist["technical"][i] /\ hist'["bridge"][b] = hist["bridge"][b]
      /\ hist'["qualification"][q] = hist["qualification"][q]
      /\ hist'["construction"][x] = hist["construction"][x]
    BY <1>1, <1>3
<1>5. /\ b = hist'["technical"][i].subject /\ q = hist'["bridge"][b].subject
      /\ x = hist'["qualification"][q].subject
    BY <1>2, <1>4
<1> QED BY <1>1, <1>3, <1>4, <1>5 DEF RestsOn

LEMMA FoundedStays ==
    ASSUME Grows, KeptGrows, NEW k \in Conclusions, NEW c, Founded(k, c)
    PROVE  Founded(k, c)'
<1>1. c.source \in DOMAIN Sources(k)' /\ Sources(k)'[c.source] = Sources(k)[c.source]
    <2>1. CASE k = "interpretation"
        BY <2>1 DEF Grows, Histories, Founded, Sources
    <2>2. CASE k # "interpretation"
        <3>1. SourceOf[k] \in Conclusions
            BY <2>2 DEF SourceOf, Conclusions
        <3> QED BY <2>2, <3>1 DEF KeptGrows, Founded, Sources
    <2> QED BY <2>1, <2>2
<1> QED BY <1>1, RestStays DEF Founded

\* The same of what a call has staged.
HoldsFounded(w) ==
    w.at \in {"stamp", "commit"} =>
        /\ Founded(w.kind, w.entry) /\ w.entry.started <= w.entry.completed
        /\ w.at = "commit" => w.entry.started <= w.entry.available

FoundedInv ==
    /\ \A k \in Conclusions : \A i \in DOMAIN kept[k] :
          Founded(k, kept[k][i]) /\ kept[k][i].started <= kept[k][i].available
    /\ \A t \in Threads : HoldsFounded(work[t])

LEMMA HoldsFoundedStays ==
    ASSUME Grows, KeptGrows, NEW w, w.kind \in Conclusions, HoldsFounded(w)
    PROVE  HoldsFounded(w)'
BY FoundedStays DEF HoldsFounded

\* What a commit retains.
LEMMA CommitAdds ==
    ASSUME Services, NEW t \in Threads, NEW w, Committed(t, w)
    PROVE  /\ KeptGrows
           /\ \A k \in Conclusions : \A i \in DOMAIN kept'[k] :
                 \/ i \in DOMAIN kept[k] /\ kept'[k][i] = kept[k][i]
                 \/ k = work[t].kind /\ kept'[k][i] = work[t].entry
<1> DEFINE k == work[t].kind
           e == work[t].entry
<1>1. k \in Conclusions /\ kept \in [Conclusions -> Seq(Conclusion)] /\ e \in Conclusion
    BY DEF Services, Work, Committed, Doing
<1>2. kept'[k] = Append(kept[k], e) /\ \A l \in Conclusions : l # k => kept'[l] = kept[l]
    BY <1>1 DEF Committed
<1>3. /\ DOMAIN kept'[k] = 1..(Len(kept[k]) + 1) /\ DOMAIN kept[k] = 1..Len(kept[k])
      /\ Len(kept[k]) \in Nat
      /\ \A i \in 1..Len(kept[k]) : kept'[k][i] = kept[k][i]
      /\ kept'[k][Len(kept[k]) + 1] = e
    BY <1>1, <1>2, AppendProperties
<1> HIDE DEF k, e
<1>4. \A i \in DOMAIN kept'[k] : i \in DOMAIN kept[k] \/ i = Len(kept[k]) + 1
    BY <1>3
<1>5. KeptGrows
    <2>1. DOMAIN kept[k] \subseteq DOMAIN kept'[k]
        BY <1>3
    <2> QED BY <1>2, <1>3, <2>1 DEF KeptGrows
<1> QED BY <1>2, <1>3, <1>4, <1>5 DEF k, e

\* What a call holds is founded in what was there when it went on.
LEMMA MovesHoldFounded ==
    ASSUME Services, GroundInv, VouchedInv, DescentInv, FoundedInv,
           NEW t \in Threads, NEW w \in Work,
           \/ Opened(t, w) \/ NotOpened(t, w) \/ Taken(t, w) \/ Derived(t, w)
           \/ Stamped(t, w) \/ Committed(t, w) \/ Answered(t, w) \/ Ended(t, w)
    PROVE  HoldsFounded(w)
<1>1. work[t] \in Work /\ work[t].kind \in Conclusions /\ HoldsFounded(work[t])
    BY DEF Services, Work, FoundedInv
<1>2. CASE Opened(t, w) \/ NotOpened(t, w) \/ Committed(t, w) \/ Answered(t, w) \/ Ended(t, w)
    <2>1. w.at \in {"off", "derive"}
        BY <1>1, <1>2 DEF Opened, NotOpened, Committed, Answered, Ended, Work
    <2> QED BY <2>1 DEF HoldsFounded
<1>3. CASE Taken(t, w)
    <2>1. w.at = work[t].at /\ w.kind = work[t].kind /\ w.entry = work[t].entry
        BY <1>1, <1>3 DEF Taken, Work
    <2> QED BY <1>1, <2>1 DEF HoldsFounded
<1>4. CASE Derived(t, w)
    <2> DEFINE e == [source |-> work[t].source, started |-> work[t].started,
                     completed |-> now, available |-> 0]
    <2>1. w.at = "stamp" /\ w.kind = work[t].kind /\ w.entry = e
        BY <1>1, <1>4 DEF Derived, Work
    <2>2. /\ work[t].source \in DOMAIN Sources(work[t].kind)
          /\ Sources(work[t].kind)[work[t].source].available <= work[t].started
          /\ work[t].started <= now
        BY <1>4 DEF Derived, SourceKnown, Source
    <2>3. ASSUME work[t].kind = "interpretation" PROVE RestsOn(work[t].source)
        <3>1. work[t].source \in DOMAIN hist["technical"]
            BY <2>2, <2>3 DEF Sources
        <3>2. Authentic(work[t].source)
            BY <1>4, <2>3, <3>1 DEF Derived, TechnicalsAuthentic
        <3> QED BY <3>1, <3>2, ResolvedRests DEF Authentic
    <2>4. Founded(work[t].kind, e)
        BY <2>2, <2>3 DEF Founded
    <2> QED BY <2>1, <2>2, <2>4 DEF HoldsFounded
<1>5. CASE Stamped(t, w)
    <2> DEFINE a == Availability
               e == [work[t].entry EXCEPT !.available = a]
    <2>1. work[t].entry \in Conclusion
        BY <1>5 DEF Services, Stamped, Doing
    <2>2. w.at = "commit" /\ w.kind = work[t].kind /\ w.entry = e
        <3> HIDE DEF e
        <3> QED BY <1>1, <1>5 DEF Stamped, Work, e
    <2>3. a >= work[t].entry.completed /\ a \in Nat
        <3>1. now \in Nat /\ latest \in Nat
            BY TypeInvIs DEF GroundInv
        <3> QED BY <1>5, <3>1, ReadingsGrow DEF Stamped, Retainable
    <2> HIDE DEF a
    <2>4. /\ e.source = work[t].entry.source /\ e.started = work[t].entry.started
          /\ e.completed = work[t].entry.completed /\ e.available = a
          /\ e.started \in Nat /\ e.completed \in Nat
        BY <2>1 DEF Conclusion
    <2>5. Founded(work[t].kind, work[t].entry) /\ work[t].entry.started <= work[t].entry.completed
        BY <1>1, <1>5 DEF Stamped, Doing, HoldsFounded
    <2> HIDE DEF e
    <2>6. e.started <= a
        BY <2>3, <2>4, <2>5
    <2>7. Founded(work[t].kind, e)
        BY <2>4, <2>5 DEF Founded
    <2> QED BY <2>2, <2>4, <2>5, <2>6, <2>7 DEF HoldsFounded
<1> QED BY <1>2, <1>3, <1>4, <1>5

\* A conclusion call adds what it has staged, or nothing.
LEMMA MovesGrow ==
    ASSUME Services, NEW t \in Threads, NEW w,
           \/ Opened(t, w) \/ NotOpened(t, w) \/ Taken(t, w) \/ Derived(t, w)
           \/ Stamped(t, w) \/ Committed(t, w) \/ Answered(t, w) \/ Ended(t, w)
    PROVE  /\ KeptGrows
           /\ \A k \in Conclusions : \A i \in DOMAIN kept'[k] :
                 \/ i \in DOMAIN kept[k] /\ kept'[k][i] = kept[k][i]
                 \/ Committed(t, w) /\ k = work[t].kind /\ kept'[k][i] = work[t].entry
<1>1. CASE Committed(t, w)
    BY <1>1, CommitAdds
<1>2. CASE kept' = kept
    BY <1>2 DEF KeptGrows
<1> QED BY <1>1, <1>2 DEF Opened, NotOpened, Taken, Derived, Stamped, Answered, Ended

LEMMA FoundedStep ==
    ASSUME TypeInv, Services, GroundInv, VouchedInv, DescentInv, FoundedInv,
           [ConcludingNext]_allVars
    PROVE  FoundedInv'
<1>1. /\ work \in [Threads -> Work] /\ \A t \in Threads : work[t].kind \in Conclusions
    BY DEF Services, Work
<1>2. CASE [Next]_vars /\ UNCHANGED conclusionVars
    <2>1. Grows /\ KeptGrows
        BY <1>2, RetainedFrom DEF KeptGrows, conclusionVars
    <2>2. ASSUME NEW k \in Conclusions, NEW i \in DOMAIN kept[k]
          PROVE  Founded(k, kept[k][i])' /\ kept'[k][i].started <= kept'[k][i].available
        <3>1. PICK c : c = kept[k][i] /\ c = kept'[k][i]
            BY <1>2 DEF conclusionVars
        <3>2. Founded(k, c) /\ c.started <= c.available
            BY <2>2, <3>1 DEF FoundedInv
        <3>3. Founded(k, c)'
            BY <2>1, <2>2, <3>2, FoundedStays
        <3>4. Founded(k, kept[k][i])'
            BY <3>1, <3>3 DEF Founded
        <3> QED BY <3>1, <3>2, <3>4
    <2>3. ASSUME NEW t \in Threads PROVE HoldsFounded(work[t])'
        <3>1. PICK w : w = work[t] /\ w = work'[t]
            BY <1>2 DEF conclusionVars
        <3>2. HoldsFounded(w)'
            BY <1>1, <2>1, <3>1, HoldsFoundedStays DEF FoundedInv
        <3> QED BY <3>1, <3>2 DEF HoldsFounded
    <2>4. kept' = kept
        BY <1>2 DEF conclusionVars
    <2> QED BY <2>2, <2>3, <2>4 DEF FoundedInv
<1>3. ASSUME NEW t \in Threads, Conclude(t), Quiet PROVE FoundedInv'
    <2>1. PICK w \in Work :
              /\ work' = [work EXCEPT ![t] = w]
              /\ \/ Opened(t, w) \/ NotOpened(t, w) \/ Taken(t, w) \/ Derived(t, w)
                 \/ Stamped(t, w) \/ Committed(t, w) \/ Answered(t, w) \/ Ended(t, w)
        BY <1>3, ConclusionsMove
    <2>2. Grows /\ KeptGrows
        BY <1>3, <2>1, MovesGrow DEF Quiet, Grows
    <2>3. ASSUME NEW k \in Conclusions, NEW i \in DOMAIN kept'[k]
          PROVE  Founded(k, kept[k][i])' /\ kept'[k][i].started <= kept'[k][i].available
        <3>1. PICK c : c = kept'[k][i]
            OBVIOUS
        <3>2. Founded(k, c) /\ c.started <= c.available
            <4>1. CASE i \in DOMAIN kept[k] /\ kept'[k][i] = kept[k][i]
                BY <3>1, <4>1 DEF FoundedInv
            <4>2. CASE Committed(t, w) /\ k = work[t].kind /\ kept'[k][i] = work[t].entry
                BY <3>1, <4>2 DEF FoundedInv, HoldsFounded, Committed, Doing
            <4> QED BY <2>1, <2>3, <4>1, <4>2, MovesGrow
        <3>3. Founded(k, c)'
            BY <2>2, <3>2, FoundedStays
        <3>4. Founded(k, kept[k][i])'
            BY <3>1, <3>3 DEF Founded
        <3> QED BY <3>1, <3>2, <3>4
    <2>4. ASSUME NEW u \in Threads PROVE HoldsFounded(work[u])'
        <3>1. PICK v : v = work'[u]
            OBVIOUS
        <3>2. HoldsFounded(v) /\ v.kind \in Conclusions
            <4>1. CASE u = t
                <5>1. v = w
                    BY <2>1, <3>1, <4>1, OwnWorkOnly
                <5>2. HoldsFounded(w)
                    BY <2>1, MovesHoldFounded
                <5>3. w.kind \in Conclusions
                    BY <2>1 DEF Work
                <5> QED BY <5>1, <5>2, <5>3
            <4>2. CASE u # t
                BY <1>1, <2>1, <3>1, <4>2, OwnWorkOnly DEF FoundedInv
            <4> QED BY <4>1, <4>2
        <3>3. HoldsFounded(v)'
            BY <2>2, <3>2, HoldsFoundedStays
        <3> QED BY <3>1, <3>3 DEF HoldsFounded
    <2> QED BY <2>3, <2>4 DEF FoundedInv
<1> QED BY <1>2, <1>3, StepsAre

LEMMA FoundedInductive == ConcludingSpec => []FoundedInv
<1>1. Init /\ ConclusionsInit => FoundedInv
    BY DEF ConclusionsInit, FoundedInv, HoldsFounded, Resting
<1>2. /\ TypeInv /\ Services /\ GroundInv /\ VouchedInv /\ DescentInv /\ FoundedInv
      /\ [ConcludingNext]_allVars
      => FoundedInv'
    BY FoundedStep
<1> QED BY <1>1, <1>2, GovernedTypes, ServicesTyped, GovernedGround, GovernedVouched,
       GovernedDescent, PTL DEF ConcludingSpec

\* What is retained of a conclusion, and when a governed occurrence became known.
LEMMA KeptTyped ==
    ASSUME Services, NEW k \in Conclusions, NEW i \in DOMAIN kept[k]
    PROVE  kept[k][i] \in Conclusion /\ i \in Nat \ {0}
<1>1. kept[k] \in Seq(Conclusion)
    BY DEF Services
<1> QED BY <1>1

LEMMA GovernedTyped ==
    ASSUME TypeInv, NEW h \in Histories, NEW i \in DOMAIN hist[h]
    PROVE  hist[h][i].available \in Nat
<1>1. hist[h] \in Seq(Entry(h))
    BY TypeInvIs
<1>2. hist[h][i] \in Entry(h)
    BY <1>1
<1> QED BY <1>2 DEF Entry

\* The analysis an occurrence goes back to, and what that rests on, was known
\* when the occurrence's execution began.
LEMMA TechnicalsFounded ==
    ASSUME TypeInv, Services, FoundedInv, NEW k \in Conclusions, NEW i \in DOMAIN kept[k]
    PROVE  /\ RestsOn(TechnicalOf(k, i))
           /\ hist["technical"][TechnicalOf(k, i)].available <= kept[k][i].started
           /\ k = "strategy" =>
                 kept["interpretation"][kept["assessment"][kept[k][i].source].source].available
                     <= kept[k][i].started
<1>1. ASSUME NEW j \in DOMAIN kept["interpretation"]
      PROVE  LET c == kept["interpretation"][j] IN
             /\ RestsOn(c.source) /\ hist["technical"][c.source].available <= c.started
             /\ c.started <= c.available
             /\ c.started \in Nat /\ c.available \in Nat
             /\ hist["technical"][c.source].available \in Nat
    <2>1. /\ Founded("interpretation", kept["interpretation"][j])
          /\ kept["interpretation"][j].started <= kept["interpretation"][j].available
        BY <1>1 DEF FoundedInv, Conclusions
    <2>2. kept["interpretation"][j] \in Conclusion
        BY <1>1, KeptTyped DEF Conclusions
    <2>3. /\ kept["interpretation"][j].source \in DOMAIN hist["technical"]
          /\ hist["technical"][kept["interpretation"][j].source].available
                <= kept["interpretation"][j].started
          /\ RestsOn(kept["interpretation"][j].source)
        BY <2>1 DEF Founded, Sources
    <2>4. hist["technical"][kept["interpretation"][j].source].available \in Nat
        BY <2>3, GovernedTyped DEF Histories
    <2> QED BY <2>1, <2>2, <2>3, <2>4 DEF Conclusion
<1>2. ASSUME NEW j \in DOMAIN kept["assessment"]
      PROVE  LET c == kept["assessment"][j]
                 d == kept["interpretation"][c.source] IN
             /\ c.source \in DOMAIN kept["interpretation"] /\ d.available <= c.started
             /\ c.started <= c.available
             /\ c.started \in Nat /\ c.available \in Nat
    <2>1. /\ Founded("assessment", kept["assessment"][j])
          /\ kept["assessment"][j].started <= kept["assessment"][j].available
        BY <1>2 DEF FoundedInv, Conclusions
    <2>2. kept["assessment"][j] \in Conclusion
        BY <1>2, KeptTyped DEF Conclusions
    <2> QED BY <2>1, <2>2 DEF Conclusion, Founded, Sources, SourceOf
<1>3. ASSUME NEW j \in DOMAIN kept["strategy"]
      PROVE  LET c == kept["strategy"][j]
                 d == kept["assessment"][c.source] IN
             /\ c.source \in DOMAIN kept["assessment"] /\ d.available <= c.started
             /\ c.started \in Nat
    <2>1. Founded("strategy", kept["strategy"][j])
        BY <1>3 DEF FoundedInv, Conclusions
    <2>2. kept["strategy"][j] \in Conclusion
        BY <1>3, KeptTyped DEF Conclusions
    <2> QED BY <2>1, <2>2 DEF Conclusion, Founded, Sources, SourceOf
<1>4. CASE k = "interpretation"
    BY <1>1, <1>4 DEF TechnicalOf
<1>5. CASE k = "assessment"
    <2>1. PICK j : j = kept["assessment"][i].source /\ j \in DOMAIN kept["interpretation"]
        BY <1>2, <1>5
    <2>2. kept["interpretation"][j].available <= kept["assessment"][i].started
          /\ kept["assessment"][i].started \in Nat
        BY <1>2, <1>5, <2>1
    <2>3. TechnicalOf(k, i) = kept["interpretation"][j].source
        BY <1>5, <2>1 DEF TechnicalOf
    <2>4. hist["technical"][TechnicalOf(k, i)].available <= kept["assessment"][i].started
        BY <1>1, <2>1, <2>2, <2>3
    <2> QED BY <1>1, <1>5, <2>1, <2>3, <2>4
<1>6. CASE k = "strategy"
    <2>1. PICK a : a = kept["strategy"][i].source /\ a \in DOMAIN kept["assessment"]
        BY <1>3, <1>6
    <2>2. PICK j : j = kept["assessment"][a].source /\ j \in DOMAIN kept["interpretation"]
        BY <1>2, <2>1
    <2>3. kept["assessment"][a].available <= kept["strategy"][i].started
          /\ kept["strategy"][i].started \in Nat
        BY <1>3, <1>6, <2>1
    <2>4. kept["interpretation"][j].available <= kept["strategy"][i].started
        BY <1>1, <1>2, <2>1, <2>2, <2>3
    <2>5. TechnicalOf(k, i) = kept["interpretation"][j].source
        BY <1>6, <2>1, <2>2 DEF TechnicalOf
    <2>6. hist["technical"][TechnicalOf(k, i)].available <= kept["strategy"][i].started
        BY <1>1, <2>2, <2>3, <2>4, <2>5
    <2> QED BY <1>1, <1>6, <2>1, <2>2, <2>4, <2>5, <2>6
<1> QED BY <1>4, <1>5, <1>6 DEF Conclusions

\* Whatever the clock does and whichever threads execute, everything a
\* conclusion rests on, back to the construction, was available before its
\* execution began (the lineage checks of the three services, and the resolution
\* of the bridge behind the analysis).
THEOREM ConclusionsExplained == ConcludingSpec => []ConclusionsAreExplained
<1>1. ASSUME TypeInv, Services, FoundedInv, NEW k \in Conclusions, NEW i \in DOMAIN kept[k]
      PROVE  /\ kept[k][i].started <= kept[k][i].available
             /\ \A available \in Ancestry(k, i) : available <= kept[k][i].started
    <2>1. /\ Founded(k, kept[k][i]) /\ kept[k][i].started <= kept[k][i].available
          /\ kept[k][i] \in Conclusion
        BY <1>1, KeptTyped DEF FoundedInv
    <2>2. PICK n \in Nat : n = kept[k][i].started
        BY <2>1 DEF Conclusion
    <2>3. PICK x : x = TechnicalOf(k, i)
        OBVIOUS
    <2>4. RestsOn(x) /\ hist["technical"][x].available <= n
        BY <1>1, <2>2, <2>3, TechnicalsFounded
    <2>5. PICK b, q : b = hist["technical"][x].subject /\ q = hist["bridge"][b].subject
        OBVIOUS
    <2>6. PICK c : c = hist["qualification"][q].subject
        OBVIOUS
    <2>7. /\ x \in DOMAIN hist["technical"] /\ b \in DOMAIN hist["bridge"]
          /\ q \in DOMAIN hist["qualification"] /\ c \in DOMAIN hist["construction"]
          /\ hist["bridge"][b].available <= hist["technical"][x].available
          /\ hist["qualification"][q].available <= hist["technical"][x].available
          /\ hist["construction"][c].available <= hist["technical"][x].available
        BY <2>4, <2>5, <2>6 DEF RestsOn
    <2>8. /\ hist["technical"][x].available \in Nat /\ hist["bridge"][b].available \in Nat
          /\ hist["qualification"][q].available \in Nat
          /\ hist["construction"][c].available \in Nat
        BY <1>1, <2>7, GovernedTyped DEF Histories
    <2>9. /\ hist["bridge"][b].available <= n /\ hist["qualification"][q].available <= n
          /\ hist["construction"][c].available <= n
        BY <2>4, <2>7, <2>8
    <2>10. Sources(k)[kept[k][i].source].available <= n
        BY <2>1, <2>2 DEF Founded
    <2>11. k = "strategy" =>
              kept["interpretation"][kept["assessment"][kept[k][i].source].source].available <= n
        BY <1>1, <2>2, TechnicalsFounded
    <2>12. Ancestry(k, i) =
              {hist["technical"][x].available, hist["bridge"][b].available,
               hist["qualification"][q].available, hist["construction"][c].available}
              \cup (IF k = "interpretation" THEN {} ELSE {Sources(k)[kept[k][i].source].available})
              \cup (IF k # "strategy" THEN {}
                    ELSE {kept["interpretation"][kept["assessment"][kept[k][i].source].source].available})
        BY <2>3, <2>5, <2>6 DEF Ancestry
    <2> QED BY <2>1, <2>2, <2>4, <2>9, <2>10, <2>11, <2>12
<1>2. TypeInv /\ Services /\ FoundedInv => ConclusionsAreExplained
    BY <1>1 DEF ConclusionsAreExplained
<1> QED BY <1>2, GovernedTypes, ServicesTyped, FoundedInductive, PTL

-----------------------------------------------------------------------------
(* No service is poisoned *)

\* Nobody else has staged, or is about to append, in a service whose locks a
\* call holds, or in one below it.
LEMMA AloneInService ==
    ASSUME Services, TakingInv, NEW t \in Threads, Doing(t, "derive"),
           NEW u \in Threads, work[u].at \in {"stamp", "commit"},
           Height(work[u].kind) <= Height(work[t].kind)
    PROVE  FALSE
<1>1. work[u].kind \in Conclusions /\ work[u].kind \in Locks
    BY DEF Services, Work, Locks
<1>2. work[u].waiting = <<>> /\ work[u].at # "off"
    BY DEF TakingInv, Taking
<1>3. Height(work[u].kind) <= Height(work[u].kind)
    BY <1>1, HeightsAre
<1>4. lock[work[u].kind] = u
    BY <1>1, <1>2, <1>3, StagingHolds
<1>5. lock[work[u].kind] = t
    BY <1>1, StagingHolds DEF Doing
<1> QED BY <1>4, <1>5 DEF Doing

\* Where the readings are distinct, a call that holds its locks authenticates
\* everything it reaches.
LEMMA DerivingAuthenticates ==
    ASSUME Services, TakingInv, StagedInv, GroundInv, DistinctKept, FoundedInv,
           scenario.clock = "distinct", NEW t \in Threads, Doing(t, "derive")
    PROVE  Authenticates(t)
<1>1. \A i \in DOMAIN hist["technical"] : Authentic(i)
    BY KeptUsesStay DEF DistinctReadingsKeepUses, UsesStayResolvable, Authentic
<1>2. \A i \in DOMAIN kept["interpretation"] : Supported(i)
    <2> SUFFICES ASSUME NEW i \in DOMAIN kept["interpretation"] PROVE Supported(i)
        OBVIOUS
    <2>1. Founded("interpretation", kept["interpretation"][i])
        BY DEF FoundedInv, Conclusions
    <2>2. /\ kept["interpretation"][i].source \in DOMAIN hist["technical"]
          /\ hist["technical"][kept["interpretation"][i].source].available
                <= kept["interpretation"][i].started
        BY <2>1 DEF Founded, Sources
    <2> QED BY <1>1, <2>2 DEF Supported
<1>3. AssessmentsPaired
    <2> SUFFICES ASSUME NEW i \in DOMAIN kept["assessment"]
                 PROVE  /\ kept["assessment"][i].source \in DOMAIN kept["interpretation"]
                        /\ kept["interpretation"][kept["assessment"][i].source].available
                              <= kept["assessment"][i].started
        BY DEF AssessmentsPaired
    <2>1. Founded("assessment", kept["assessment"][i])
        BY DEF FoundedInv, Conclusions
    <2> QED BY <2>1 DEF Founded, Sources, SourceOf
<1>4. StrategiesPaired
    <2> SUFFICES ASSUME NEW i \in DOMAIN kept["strategy"]
                 PROVE  kept["strategy"][i].source \in DOMAIN kept["assessment"]
        BY DEF StrategiesPaired
    <2>1. Founded("strategy", kept["strategy"][i])
        BY DEF FoundedInv, Conclusions
    <2> QED BY <2>1 DEF Founded, Sources, SourceOf
<1>5. ASSUME NEW k \in Conclusions, Height(k) <= Height(work[t].kind) PROVE ~pending[k]
    BY <1>5, AloneInService DEF StagedInv
<1>6. work[t].kind \in Conclusions
    BY DEF Services, Work
<1>7. CASE work[t].kind = "interpretation"
    BY <1>1, <1>2, <1>7 DEF Authenticates, TechnicalsAuthentic
<1>8. CASE work[t].kind = "assessment"
    <2>1. ~pending["assessment"]
        BY <1>5, <1>6, <1>8, HeightsAre
    <2> QED BY <1>2, <1>8, <2>1 DEF Authenticates, InterpretationsAuthentic
<1>9. CASE work[t].kind = "strategy"
    <2>1. \A k \in Conclusions : Height(k) <= 11 /\ Height("strategy") = 11
        BY DEF Conclusions, Height
    <2>2. NothingStaged
        BY <1>5, <1>9, <2>1 DEF NothingStaged
    <2> QED BY <1>2, <1>3, <1>4, <1>9, <2>2 DEF Authenticates, InterpretationsAuthentic
<1> QED BY <1>6, <1>7, <1>8, <1>9 DEF Conclusions

LEMMA NeverRefusedStep ==
    ASSUME TypeInv, Services, TakingInv, StagedInv, GroundInv, DistinctKept, FoundedInv,
           HistoriesNeverRefused, [ConcludingNext]_allVars
    PROVE  HistoriesNeverRefused'
<1>1. CASE [Next]_vars /\ UNCHANGED conclusionVars
    BY <1>1, ScenarioStays DEF HistoriesNeverRefused, conclusionVars
<1>2. ASSUME NEW t \in Threads, Conclude(t), Quiet PROVE HistoriesNeverRefused'
    <2>1. PICK w \in Work :
              /\ work' = [work EXCEPT ![t] = w]
              /\ \/ Opened(t, w) \/ NotOpened(t, w) \/ Taken(t, w) \/ Derived(t, w)
                 \/ Stamped(t, w) \/ Committed(t, w) \/ Answered(t, w) \/ Ended(t, w)
        BY <1>2, ConclusionsMove
    <2> SUFFICES ASSUME scenario.clock = "distinct", NEW u \in Threads
                 PROVE  work'[u].outcome # "history"
        BY <1>2 DEF Quiet, HistoriesNeverRefused
    <2>2. \A v \in Threads : work[v].outcome # "history" /\ work[v] \in Work
        BY DEF HistoriesNeverRefused, Services
    <2>3. w.outcome # "history"
        <3>1. CASE Opened(t, w) \/ NotOpened(t, w)
            BY <3>1 DEF Opened, NotOpened
        <3>2. CASE Taken(t, w) \/ Derived(t, w) \/ Stamped(t, w)
            <4>1. w.outcome = work[t].outcome
                BY <2>2, <3>2 DEF Work, Taken, Derived, Stamped
            <4> QED BY <2>2, <4>1
        <3>3. CASE Committed(t, w)
            <4>1. w = [work[t] EXCEPT !.at = "off", !.outcome = "published"]
                BY <3>3 DEF Committed
            <4> QED BY <2>2, <4>1 DEF Work
        <3>4. CASE Answered(t, w)
            <4>1. PICK found : w = [work[t] EXCEPT !.at = "off", !.outcome = "answered",
                                                   !.found = found]
                BY <3>4 DEF Answered
            <4> QED BY <2>2, <4>1 DEF Work
        <3>5. CASE Ended(t, w)
            <4>1. PICK outcome :
                      /\ outcome = "history" => Doing(t, "derive") /\ ~Authenticates(t)
                      /\ w = [work[t] EXCEPT !.at = "off", !.outcome = outcome]
                BY <3>5 DEF Ended
            <4>2. w.outcome = outcome
                BY <2>2, <4>1 DEF Work
            <4> QED BY <4>1, <4>2, DerivingAuthenticates
        <3> QED BY <2>1, <3>1, <3>2, <3>3, <3>4, <3>5
    <2> QED BY <2>1, <2>2, <2>3, OwnWorkOnly
<1> QED BY <1>1, <1>2, StepsAre

\* Where no two readings of the clock are equal and none goes back, no call of
\* the three services, with any number of threads, is ever refused for what a
\* history says (HISTORY_INVALID), whichever calls failed before it.
THEOREM NoHistoryIsRefused == ConcludingSpec => []HistoriesNeverRefused
<1>1. Init /\ ConclusionsInit => HistoriesNeverRefused
    <2>1. Resting.outcome = "none"
        BY DEF Resting
    <2>2. ConclusionsInit => \A t \in Threads : work[t] = Resting
        BY DEF ConclusionsInit
    <2> QED BY <2>1, <2>2 DEF HistoriesNeverRefused
<1>2. /\ TypeInv /\ Services /\ TakingInv /\ StagedInv /\ GroundInv /\ DistinctKept /\ FoundedInv
      /\ HistoriesNeverRefused /\ [ConcludingNext]_allVars
      => HistoriesNeverRefused'
    BY NeverRefusedStep
<1> QED BY <1>1, <1>2, GovernedTypes, ServicesTyped, LocksAreTaken, StagedIsHeld, GovernedGround,
       GovernedUses, FoundedInductive, PTL DEF ConcludingSpec

-----------------------------------------------------------------------------
(* Answers *)

\* No reading lowers the latest one.
LEMMA LatestGrows ==
    ASSUME TypeInv, [Next]_vars
    PROVE  latest <= latest' /\ latest \in Nat /\ latest' \in Nat
<1>1. now \in Nat /\ latest \in Nat
    BY TypeInvIs
<1>2. Read \/ ReadAvailability => latest <= latest' /\ latest' \in Nat
    BY <1>1, ReadingsGrow
<1>3. ASSUME NEW t, Start(t) PROVE Read \/ latest' = latest
    BY <1>3 DEF Start, BeginConstruct, BeginValidate, BeginFreshness, BeginAdmit,
       BeginActivate, BeginQualify, BeginBridge, BeginAnalyse
<1>4. \A t, point, detail, locks : Stage(t, point, detail, locks) => Read
    BY DEF Stage
<1>5. ASSUME NEW t, Step(t) PROVE Read \/ ReadAvailability \/ latest' = latest
    <2>1. CASE \/ Construct(t) \/ RunRule(t) \/ Evaluate(t) \/ ResolvePrerequisites(t)
               \/ IssueActive(t) \/ Qualify(t) \/ Bridge(t) \/ Analyse(t)
        BY <1>4, <2>1 DEF Construct, RunRule, Evaluate, ResolvePrerequisites, IssueActive,
           Qualify, Bridge, Analyse
    <2>2. CASE Refuse(t) \/ StartTask(t) \/ Stamp(t)
        BY <2>2 DEF Refuse, StartTask, Stamp
    <2>3. CASE \/ Acquire(t) \/ AcquisitionFails(t) \/ Lookup(t) \/ ReadPredecessor(t)
               \/ Survey(t) \/ Publish(t)
        BY <2>3 DEF Acquire, AcquisitionFails, Lookup, ReadPredecessor, Survey, Publish, clock
    <2> QED BY <1>5, <2>1, <2>2, <2>3 DEF Step
<1>6. Move \/ AllIdle \/ UNCHANGED vars => latest' = latest
    BY DEF Move, AllIdle, vars
<1> QED BY <1>1, <1>2, <1>3, <1>5, <1>6 DEF Next

\* The artifact an occurrence goes back to is settled when it is retained.
LEMMA ArtifactStays ==
    ASSUME TypeInv, Services, FoundedInv, Grows, KeptGrows,
           NEW k \in Conclusions, NEW i \in DOMAIN kept[k]
    PROVE  ArtifactOf(k, i)' = ArtifactOf(k, i)
<1>1. PICK x : x = TechnicalOf(k, i)
    OBVIOUS
<1>2. PICK b : b = hist["technical"][x].subject
    OBVIOUS
<1>3. PICK q : q = hist["bridge"][b].subject
    OBVIOUS
<1>4. /\ x \in DOMAIN hist["technical"] /\ b \in DOMAIN hist["bridge"]
      /\ q \in DOMAIN hist["qualification"]
    BY <1>1, <1>2, <1>3, TechnicalsFounded DEF RestsOn
<1>5. /\ hist'["technical"][x] = hist["technical"][x] /\ hist'["bridge"][b] = hist["bridge"][b]
      /\ hist'["qualification"][q] = hist["qualification"][q]
    BY <1>4 DEF Grows, Histories
<1>6. TechnicalOf(k, i)' = x
    <2>1. \A l \in Conclusions : \A j \in DOMAIN kept[l] : kept'[l][j] = kept[l][j]
        BY DEF KeptGrows
    <2>2. \A l \in Conclusions \ {"interpretation"} : \A j \in DOMAIN kept[l] :
              kept[l][j].source \in DOMAIN kept[SourceOf[l]]
        BY DEF FoundedInv, Founded, Sources
    <2>3. CASE k = "interpretation"
        BY <1>1, <2>1, <2>3 DEF TechnicalOf
    <2>4. CASE k = "assessment"
        <3>1. kept[k][i].source \in DOMAIN kept["interpretation"]
            BY <2>2, <2>4 DEF SourceOf, Conclusions
        <3> QED BY <1>1, <2>1, <2>4, <3>1 DEF TechnicalOf, Conclusions
    <2>5. CASE k = "strategy"
        <3>1. kept[k][i].source \in DOMAIN kept["assessment"]
            BY <2>2, <2>5 DEF SourceOf, Conclusions
        <3>2. kept["assessment"][kept[k][i].source].source \in DOMAIN kept["interpretation"]
            BY <2>2, <3>1 DEF SourceOf, Conclusions
        <3> QED BY <1>1, <2>1, <2>5, <3>1, <3>2 DEF TechnicalOf, Conclusions
    <2> QED BY <2>3, <2>4, <2>5 DEF Conclusions
<1>7. ArtifactOf(k, i) = hist["qualification"][q].subject
    BY <1>1, <1>2, <1>3 DEF ArtifactOf
<1>8. ArtifactOf(k, i)' = hist'["qualification"][q].subject
    BY <1>2, <1>3, <1>5, <1>6 DEF ArtifactOf
<1> QED BY <1>5, <1>7, <1>8

\* What an answer shows does not change where only later conclusions are added.
LEMMA VisibleStays ==
    ASSUME TypeInv, Services, FoundedInv, Grows, KeptGrows,
           NEW k \in Conclusions, NEW artifact, NEW cutoff,
           \A i \in DOMAIN kept'[k] : i \in DOMAIN kept[k] \/ ~(kept'[k][i].available <= cutoff)
    PROVE  VisibleConclusions(k, artifact, cutoff)' = VisibleConclusions(k, artifact, cutoff)
<1>1. ASSUME NEW i \in DOMAIN kept[k]
      PROVE  /\ i \in DOMAIN kept'[k] /\ kept'[k][i] = kept[k][i]
             /\ ArtifactOf(k, i)' = ArtifactOf(k, i)
    BY <1>1, ArtifactStays DEF KeptGrows
<1>2. VisibleConclusions(k, artifact, cutoff) =
          {i \in DOMAIN kept[k] : ArtifactOf(k, i) = artifact /\ kept[k][i].available <= cutoff}
    BY DEF VisibleConclusions
<1>3. VisibleConclusions(k, artifact, cutoff)' =
          {i \in DOMAIN kept'[k] : ArtifactOf(k, i)' = artifact /\ kept'[k][i].available <= cutoff}
    BY DEF VisibleConclusions
<1> QED BY <1>1, <1>2, <1>3

\* A recall that is asked, or was answered, is for an instant already read.
Asks(w) == (w.at # "off" /\ w.does = "recall") \/ w.outcome = "answered"

StandingInv ==
    /\ \A t \in Threads : Asks(work[t]) => work[t].cutoff <= latest
    /\ \A t \in Threads : work[t].outcome = "answered" =>
          work[t].found = VisibleConclusions(work[t].kind, work[t].artifact, work[t].cutoff)
    /\ \A t, u \in Threads :
          work[t].outcome = "answered" /\ work[u].at = "commit" /\ work[u].kind = work[t].kind
          => work[t].cutoff < work[u].entry.available

DistinctStanding == scenario.clock = "distinct" => StandingInv

\* What the steps of a call say of a recall.
LEMMA MovesAsk ==
    ASSUME Services, NEW t \in Threads, NEW w \in Work,
           \/ Opened(t, w) \/ NotOpened(t, w) \/ Taken(t, w) \/ Derived(t, w)
           \/ Stamped(t, w) \/ Committed(t, w) \/ Answered(t, w) \/ Ended(t, w)
    PROVE  /\ \/ ~Asks(w)
              \/ Opened(t, w) /\ w.cutoff <= latest'
              \/ Asks(work[t]) /\ w.cutoff = work[t].cutoff
           /\ w.outcome = "answered" =>
                 \/ Answered(t, w)
                 \/ /\ work[t].outcome = "answered" /\ w.found = work[t].found
                    /\ w.kind = work[t].kind /\ w.artifact = work[t].artifact
                    /\ w.cutoff = work[t].cutoff
           /\ w.at = "commit" =>
                 \/ Stamped(t, w) /\ w.entry.available = Availability
                 \/ work[t].at = "commit" /\ w.kind = work[t].kind /\ w.entry = work[t].entry
           /\ Answered(t, w) => /\ w.kind = work[t].kind /\ w.artifact = work[t].artifact
                                /\ w.cutoff = work[t].cutoff /\ w.at = "off"
                                /\ w.found = VisibleConclusions(w.kind, w.artifact, w.cutoff)
<1>1. work[t] \in Work
    BY DEF Services
<1>2. CASE Opened(t, w) \/ NotOpened(t, w)
    <2>1. ~Answered(t, w)
        BY <1>2 DEF Opened, NotOpened, Answered, Doing
    <2> QED BY <1>2, <2>1 DEF Opened, NotOpened, Asks
<1>3. CASE Taken(t, w)
    <2>1. /\ w.at = work[t].at /\ w.does = work[t].does /\ w.outcome = work[t].outcome
          /\ w.kind = work[t].kind /\ w.artifact = work[t].artifact /\ w.cutoff = work[t].cutoff
          /\ w.found = work[t].found /\ w.entry = work[t].entry
        BY <1>1, <1>3 DEF Taken, Work
    <2>2. ~Answered(t, w)
        BY <1>3 DEF Taken, Answered, Doing
    <2> QED BY <2>1, <2>2 DEF Asks
<1>4. CASE Derived(t, w)
    <2>1. PICK e : w = [work[t] EXCEPT !.at = "stamp", !.entry = e]
        BY <1>4 DEF Derived
    <2>2. /\ w.at = "stamp" /\ w.does = work[t].does /\ w.outcome = work[t].outcome
          /\ w.kind = work[t].kind /\ w.artifact = work[t].artifact /\ w.cutoff = work[t].cutoff
          /\ w.found = work[t].found
        BY <1>1, <2>1 DEF Work
    <2>3. work[t].at = "derive" /\ work[t].does = "execute"
        BY <1>4 DEF Derived, Doing
    <2>4. ~Answered(t, w)
        BY <2>3 DEF Answered
    <2> QED BY <2>2, <2>3, <2>4 DEF Asks
<1>5. CASE Stamped(t, w)
    <2> DEFINE a == Availability
               e == [work[t].entry EXCEPT !.available = a]
    <2>1. w = [work[t] EXCEPT !.at = "commit", !.entry = e]
        BY <1>5 DEF Stamped
    <2>2. work[t].entry \in Conclusion /\ work[t].at = "stamp"
        BY <1>5 DEF Services, Stamped, Doing
    <2>3. e.available = a
        <3> HIDE DEF a
        <3> QED BY <2>2 DEF Conclusion
    <2> HIDE DEF e
    <2>4. /\ w.at = "commit" /\ w.does = work[t].does /\ w.outcome = work[t].outcome
          /\ w.kind = work[t].kind /\ w.artifact = work[t].artifact /\ w.cutoff = work[t].cutoff
          /\ w.found = work[t].found /\ w.entry = e
        BY <1>1, <2>1 DEF Work
    <2>5. ~Answered(t, w)
        BY <2>2 DEF Answered, Doing
    <2> HIDE DEF a
    <2> QED BY <1>5, <2>2, <2>3, <2>4, <2>5 DEF Asks, a
<1>6. CASE Committed(t, w)
    <2>1. w = [work[t] EXCEPT !.at = "off", !.outcome = "published"]
        BY <1>6 DEF Committed
    <2>2. w.at = "off" /\ w.outcome = "published"
        BY <1>1, <2>1 DEF Work
    <2>3. ~Answered(t, w)
        BY <1>6 DEF Committed, Answered, Doing
    <2> QED BY <2>2, <2>3 DEF Asks
<1>7. CASE Answered(t, w)
    <2>1. PICK found :
              /\ found = VisibleConclusions(work[t].kind, work[t].artifact, work[t].cutoff)
              /\ w = [work[t] EXCEPT !.at = "off", !.outcome = "answered", !.found = found]
        BY <1>7 DEF Answered
    <2>2. /\ w.at = "off" /\ w.kind = work[t].kind /\ w.artifact = work[t].artifact
          /\ w.cutoff = work[t].cutoff /\ w.found = found
        BY <1>1, <2>1 DEF Work
    <2>3. work[t].at = "derive" /\ work[t].does = "recall"
        BY <1>7 DEF Answered, Doing
    <2> QED BY <1>7, <2>1, <2>2, <2>3 DEF Asks
<1>8. CASE Ended(t, w)
    <2>1. PICK outcome \in {"temporal", "history", "unavailable", "semantic"} :
              w = [work[t] EXCEPT !.at = "off", !.outcome = outcome]
        BY <1>8 DEF Ended
    <2>2. w.at = "off" /\ w.outcome = outcome
        BY <1>1, <2>1 DEF Work
    <2>3. ~Answered(t, w)
        <3>1. Answered(t, w) => w.outcome = "answered"
            <4>1. \A found : [work[t] EXCEPT !.at = "off", !.outcome = "answered",
                                             !.found = found].outcome = "answered"
                BY <1>1 DEF Work
            <4> QED BY <4>1 DEF Answered
        <3> QED BY <2>1, <2>2, <3>1
    <2> QED BY <2>2, <2>3 DEF Asks
<1> QED BY <1>2, <1>3, <1>4, <1>5, <1>6, <1>7, <1>8

\* A step of a conclusion call.
LEMMA MovesKeepStanding ==
    ASSUME TypeInv, Services, TakingInv, FoundedInv, StandingInv, scenario.clock = "distinct",
           Quiet, NEW t \in Threads, NEW w \in Work, work' = [work EXCEPT ![t] = w],
           \/ Opened(t, w) \/ NotOpened(t, w) \/ Taken(t, w) \/ Derived(t, w)
           \/ Stamped(t, w) \/ Committed(t, w) \/ Answered(t, w) \/ Ended(t, w)
    PROVE  StandingInv'
<1>1. work'[t] = w /\ \A u \in Threads : u # t => work'[u] = work[u]
    BY OwnWorkOnly
<1>2. /\ latest \in Nat /\ latest' \in Nat /\ latest <= latest' /\ now \in Nat
      /\ Grows /\ KeptGrows
    BY TypeInvIs, MovesGrow DEF Quiet, Grows
<1>3. \A u \in Threads : work[u].cutoff \in Nat /\ work[u].kind \in Conclusions
    BY DEF Services, Work
<1>4. ASSUME NEW u \in Threads, Asks(work'[u]) PROVE work'[u].cutoff <= latest'
    <2>1. CASE u # t
        BY <1>1, <1>2, <1>3, <1>4, <2>1 DEF StandingInv
    <2>2. CASE u = t
        <3>1. CASE Opened(t, w) /\ w.cutoff <= latest'
            BY <1>1, <2>2, <3>1
        <3>2. CASE Asks(work[t]) /\ w.cutoff = work[t].cutoff
            BY <1>1, <1>2, <1>3, <2>2, <3>2 DEF StandingInv
        <3> QED BY <1>1, <1>4, <2>2, <3>1, <3>2, MovesAsk
    <2> QED BY <2>1, <2>2
\* A conclusion is appended after every instant answered for.
<1>5. ASSUME NEW k \in Conclusions, NEW artifact, NEW cutoff \in Nat,
             \A u \in Threads : work[u].at = "commit" /\ work[u].kind = k
                                => cutoff < work[u].entry.available
      PROVE  VisibleConclusions(k, artifact, cutoff)' = VisibleConclusions(k, artifact, cutoff)
    <2>1. ASSUME NEW i \in DOMAIN kept'[k], i \notin DOMAIN kept[k]
          PROVE  ~(kept'[k][i].available <= cutoff)
        <3>1. Committed(t, w) /\ k = work[t].kind /\ kept'[k][i] = work[t].entry
            BY <2>1, MovesGrow
        <3>2. work[t].at = "commit" /\ work[t].entry \in Conclusion
            BY <3>1 DEF Committed, Doing, Services
        <3>3. work[t].entry.available \in Nat /\ cutoff < work[t].entry.available
            BY <1>5, <3>1, <3>2 DEF Conclusion
        <3> QED BY <3>1, <3>3
    <2> QED BY <1>2, <2>1, VisibleStays
\* Nobody is about to append to a history that is being answered from.
<1>6. ASSUME Answered(t, w), NEW u \in Threads, work[u].at = "commit"
      PROVE  work[u].kind # work[t].kind
    <2>1. Doing(t, "derive")
        BY <1>6 DEF Answered
    <2>2. Height(work[t].kind) <= Height(work[t].kind)
        BY <1>3, HeightsAre
    <2> QED BY <1>6, <2>1, <2>2, AloneInService
<1>7. ASSUME NEW u \in Threads, work'[u].outcome = "answered"
      PROVE  work'[u].found = VisibleConclusions(work[u].kind, work[u].artifact, work[u].cutoff)'
    <2>1. PICK k, artifact, cutoff : /\ k = work'[u].kind /\ artifact = work'[u].artifact
                                     /\ cutoff = work'[u].cutoff
        OBVIOUS
    <2>2. CASE /\ work[u].outcome = "answered" /\ work'[u].found = work[u].found
               /\ k = work[u].kind /\ artifact = work[u].artifact /\ cutoff = work[u].cutoff
        <3>1. VisibleConclusions(k, artifact, cutoff)' = VisibleConclusions(k, artifact, cutoff)
            BY <1>3, <1>5, <2>2 DEF StandingInv
        <3>2. work'[u].found = VisibleConclusions(k, artifact, cutoff)
            BY <2>2 DEF StandingInv
        <3> QED BY <2>1, <3>1, <3>2 DEF VisibleConclusions
    <2>3. CASE u = t /\ Answered(t, w)
        <3>1. /\ w.kind = work[t].kind /\ w.artifact = work[t].artifact
              /\ w.cutoff = work[t].cutoff
              /\ w.found = VisibleConclusions(w.kind, w.artifact, w.cutoff)
            BY <2>3, MovesAsk
        <3>2. /\ k = work[t].kind /\ cutoff = work[t].cutoff
              /\ w.found = VisibleConclusions(k, artifact, cutoff)
            BY <1>1, <2>1, <2>3, <3>1
        <3>3. VisibleConclusions(k, artifact, cutoff)' = VisibleConclusions(k, artifact, cutoff)
            BY <1>3, <1>5, <1>6, <2>3, <3>2
        <3> QED BY <1>1, <2>1, <2>3, <3>2, <3>3 DEF VisibleConclusions
    <2> QED BY <1>1, <1>7, <2>1, <2>2, <2>3, MovesAsk
<1>8. ASSUME NEW v \in Threads, NEW u \in Threads, work'[v].outcome = "answered",
             work'[u].at = "commit", work'[u].kind = work'[v].kind
      PROVE  work'[v].cutoff < work'[u].entry.available
    <2>1. CASE Answered(t, w) /\ v = t
        <3>1. u # t /\ work'[v].kind = work[t].kind
            BY <1>1, <1>8, <2>1, MovesAsk
        <3> QED BY <1>1, <1>6, <1>8, <2>1, <3>1
    <2>2. CASE /\ work[v].outcome = "answered" /\ work'[v].kind = work[v].kind
               /\ work'[v].cutoff = work[v].cutoff
        <3>1. CASE /\ work[u].at = "commit" /\ work'[u].kind = work[u].kind
                   /\ work'[u].entry = work[u].entry
            BY <1>8, <2>2, <3>1 DEF StandingInv
        <3>2. CASE u = t /\ w.entry.available = Availability
            <4>1. latest < Availability /\ Availability \in Nat
                BY <1>2, ReadingsGrow
            <4>2. work[v].cutoff <= latest
                BY <2>2 DEF StandingInv, Asks
            <4>3. PICK a \in Nat : a = Availability
                BY <4>1
            <4> QED BY <1>1, <1>2, <1>3, <2>2, <3>2, <4>1, <4>2, <4>3
        <3> QED BY <1>1, <1>8, <3>1, <3>2, MovesAsk
    <2> QED BY <1>1, <1>8, <2>1, <2>2, MovesAsk
<1> QED BY <1>4, <1>7, <1>8 DEF StandingInv, Asks

LEMMA StandingStep ==
    ASSUME TypeInv, Services, TakingInv, FoundedInv, DistinctStanding, [ConcludingNext]_allVars
    PROVE  DistinctStanding'
<1>1. CASE [Next]_vars /\ UNCHANGED conclusionVars
    <2> SUFFICES ASSUME scenario.clock = "distinct" PROVE StandingInv'
        BY <1>1, ScenarioStays DEF DistinctStanding
    <2>1. StandingInv /\ work' = work /\ kept' = kept
        BY <1>1 DEF DistinctStanding, conclusionVars
    <2>2. latest <= latest' /\ latest \in Nat /\ latest' \in Nat
        BY <1>1, LatestGrows
    <2>3. Grows /\ KeptGrows
        BY <1>1, <2>1, RetainedFrom DEF KeptGrows
    <2>4. ASSUME NEW t \in Threads
          PROVE  work[t].cutoff \in Nat /\ work[t].kind \in Conclusions
        BY DEF Services, Work
    <2>5. ASSUME NEW t \in Threads, Asks(work[t]) PROVE work[t].cutoff <= latest'
        BY <2>1, <2>2, <2>4, <2>5 DEF StandingInv
    <2>6. ASSUME NEW t \in Threads, work[t].outcome = "answered"
          PROVE  (work[t].found
                    = VisibleConclusions(work[t].kind, work[t].artifact, work[t].cutoff))'
        <3>1. PICK k, artifact, cutoff : /\ k = work[t].kind /\ artifact = work[t].artifact
                                         /\ cutoff = work[t].cutoff
            OBVIOUS
        <3>2. VisibleConclusions(k, artifact, cutoff)' = VisibleConclusions(k, artifact, cutoff)
            BY <2>1, <2>3, <2>4, <3>1, VisibleStays
        <3>3. work[t].found = VisibleConclusions(k, artifact, cutoff)
            BY <2>1, <2>6, <3>1 DEF StandingInv
        <3> QED BY <2>1, <3>1, <3>2, <3>3 DEF VisibleConclusions
    <2> QED BY <2>1, <2>5, <2>6 DEF StandingInv, Asks
<1>2. ASSUME NEW t \in Threads, Conclude(t), Quiet PROVE DistinctStanding'
    <2> SUFFICES ASSUME scenario.clock = "distinct" PROVE StandingInv'
        BY <1>2 DEF Quiet, DistinctStanding
    <2>1. PICK w \in Work :
              /\ work' = [work EXCEPT ![t] = w]
              /\ \/ Opened(t, w) \/ NotOpened(t, w) \/ Taken(t, w) \/ Derived(t, w)
                 \/ Stamped(t, w) \/ Committed(t, w) \/ Answered(t, w) \/ Ended(t, w)
        BY <1>2, ConclusionsMove
    <2> QED BY <1>2, <2>1, MovesKeepStanding DEF DistinctStanding
<1> QED BY <1>1, <1>2, StepsAre

\* Where the readings are distinct, an answer given for an instant is never added
\* to: what waited for the locks or committed meanwhile became known later
\* (get_result_history_as_of reads under the locks an append is made under).
THEOREM AnswersAreFinal == ConcludingSpec => []AnswersStand
<1>1. Init /\ ConclusionsInit => DistinctStanding
    <2>1. Resting.outcome = "none" /\ Resting.at = "off"
        BY DEF Resting
    <2>2. ConclusionsInit => \A t \in Threads : work[t] = Resting
        BY DEF ConclusionsInit
    <2> QED BY <2>1, <2>2 DEF DistinctStanding, StandingInv, Asks
<1>2. /\ TypeInv /\ Services /\ TakingInv /\ FoundedInv /\ DistinctStanding
      /\ [ConcludingNext]_allVars
      => DistinctStanding'
    BY StandingStep
<1>3. DistinctStanding => AnswersStand
    BY DEF DistinctStanding, StandingInv, AnswersStand
<1> QED BY <1>1, <1>2, <1>3, GovernedTypes, ServicesTyped, LocksAreTaken, FoundedInductive,
       PTL DEF ConcludingSpec

-----------------------------------------------------------------------------
(* The histories implement AsOfArchive *)

\* Of two calls that hold all they asked for and write one history, there is one.
LEMMA OneHandPerHistory ==
    ASSUME LockInv, NEW t \in Threads, NEW u \in Threads,
           call[t].at \in {"stamp", "append"}, call[t].waiting = <<>>,
           call[u].at \in {"stamp", "append"}, call[u].waiting = <<>>,
           call[t].writes = call[u].writes
    PROVE  t = u
<1> DEFINE h == call[t].writes
<1>1. h \in Histories
    BY TypeInvIs, CallsAre DEF LockInv
<1>2. h \in Regions[h]
    BY <1>1 DEF Histories, Regions, Inputs
<1>3. Held(t) = Regions[h] /\ Held(u) = Regions[h]
    BY HoldsRegion DEF Region
<1>4. owner[h] = t /\ owner[h] = u
    BY <1>2, <1>3 DEF Held
<1> QED BY <1>4

LEMMA OneHandPerConclusion ==
    ASSUME Services, TakingInv, NEW t \in Threads, NEW u \in Threads,
           work[t].at \in {"stamp", "commit"}, work[u].at \in {"stamp", "commit"},
           work[t].kind = work[u].kind
    PROVE  t = u
<1>1. work[t].kind \in Conclusions /\ work[t].kind \in Locks
    BY DEF Services, Work, Locks
<1>2. Height(work[t].kind) <= Height(work[t].kind)
    BY <1>1, HeightsAre
<1>3. /\ work[t].waiting = <<>> /\ work[t].at # "off"
      /\ work[u].waiting = <<>> /\ work[u].at # "off"
    BY DEF TakingInv, Taking
<1>4. lock[work[t].kind] = t /\ lock[work[t].kind] = u
    BY <1>1, <1>2, <1>3, StagingHolds
<1> QED BY <1>4

AppendersHold == \A t \in Threads : call[t].at = "append" => call[t].waiting = <<>>

\* Only a stamp puts a call before its append, and only a publication takes it there.
LEMMA AppendsAre ==
    ASSUME TypeInv, AppendersHold, NEW t \in Threads, Start(t) \/ Step(t),
           ~Stamp(t), ~Publish(t)
    PROVE  call[t].at # "append" /\ call'[t].at # "append"
<1>1. call \in [Threads -> Calls] /\ call[t] \in Calls
    BY TypeInvIs
<1>2. CASE Start(t)
    <2>1. call'[t].at # "append"
        BY <1>2, CallsOpenEmptyHanded DEF InHand
    <2>2. call[t].at = "idle"
        BY <1>2 DEF Start, Begin, BeginConstruct, BeginValidate, BeginFreshness, BeginAdmit,
           BeginActivate, BeginQualify, BeginBridge, BeginAnalyse
    <2> QED BY <2>1, <2>2
<1>3. CASE Stages(t)
    <2>1. ASSUME NEW point \in {"stamp", "predecessor"}, NEW detail, NEW locks,
                 Stage(t, point, detail, locks)
          PROVE  call'[t].at # "append"
        <3> DEFINE e == [subject |-> call[t].subject, completed |-> now, available |-> 0, detail |-> detail]
                   c == [call[t] EXCEPT !.at = point, !.waiting = locks, !.entry = e]
        <3>1. call'[t] = c
            BY <1>1, <2>1 DEF Stage
        <3> HIDE DEF e
        <3>2. c.at = point
            BY <1>1, CallsAre
        <3> HIDE DEF c
        <3> QED BY <2>1, <3>1, <3>2
    <2>2. \E point \in {"stamp", "predecessor"} : \E detail, locks : Stage(t, point, detail, locks)
        BY <1>3 DEF Stages, Construct, RunRule, Evaluate, ResolvePrerequisites, IssueActive,
           Qualify, Bridge, Analyse
    <2>3. call[t].at # "append"
        BY <1>3 DEF Stages, Construct, RunRule, Evaluate, ResolvePrerequisites, IssueActive,
           Qualify, Bridge, Analyse, At
    <2> QED BY <2>1, <2>2, <2>3
<1>4. CASE Acquire(t)
    <2> DEFINE c == [call[t] EXCEPT !.waiting = Tail(call[t].waiting)]
    <2>1. call'[t] = c /\ call[t].waiting # <<>>
        BY <1>1, <1>4 DEF Acquire
    <2>2. c.at = call[t].at
        BY <1>1, CallsAre
    <2> HIDE DEF c
    <2> QED BY <2>1, <2>2 DEF AppendersHold
<1>5. CASE AcquisitionFails(t) \/ Refuse(t)
    <2>1. call'[t] = Idle /\ Idle.at = "idle"
        BY <1>1, <1>5 DEF AcquisitionFails, Refuse, Return, Idle
    <2>2. call[t].at # "append"
        BY <1>5 DEF AcquisitionFails, Refuse, Refused, At
    <2> QED BY <2>1, <2>2
<1>6. CASE Lookup(t)
    <2>1. \E p \in {"rule", "evaluate"} : call'[t] = [call[t] EXCEPT !.at = p]
        BY <1>1, <1>6 DEF Lookup
    <2>2. \A p : [call[t] EXCEPT !.at = p].at = p
        BY <1>1, CallsAre
    <2> QED BY <1>6, <2>1, <2>2 DEF Lookup, At
<1>7. CASE Survey(t)
    <2> DEFINE tasks == Tasks(Snapshot(call[t].subject, Cutoff(t, call[t].asked)),
                              call[t].analysis)
               again == [call[t] EXCEPT !.at = "qualify", !.waiting = QualifyLocks,
                                        !.task = Latest(tasks)]
               execute == [call[t] EXCEPT !.at = "task"]
    <2>1. call'[t] = again \/ call'[t] = execute
        BY <1>1, <1>7 DEF Survey
    <2>2. again.at = "qualify" /\ execute.at = "task"
        BY <1>1, CallsAre
    <2>3. call[t].at = "survey"
        BY <1>7 DEF Survey, At
    <2> HIDE DEF again, execute
    <2> QED BY <2>1, <2>2, <2>3
<1>8. CASE StartTask(t)
    <2>1. \E a, b, d : call'[t] = [call[t] EXCEPT !.at = "lookup", !.waiting = a,
                                                 !.writes = b, !.started = d]
        BY <1>1, <1>8 DEF StartTask
    <2>2. \A a, b, d : [call[t] EXCEPT !.at = "lookup", !.waiting = a, !.writes = b,
                                       !.started = d].at = "lookup"
        BY <1>1, CallsAre
    <2>3. call[t].at = "task"
        BY <1>8 DEF StartTask, At
    <2> QED BY <2>1, <2>2, <2>3
<1>9. CASE ReadPredecessor(t)
    <2>3. call[t].at = "predecessor" /\ call[t].entry \in Entry("admission")
        BY <1>1, <1>9, TypeInvIs DEF GoodCall, StagedOf, ReadPredecessor, At, Leg
    <2>1. \E e : call'[t] = [call[t] EXCEPT !.at = "stamp", !.waiting = <<"admission">>, !.entry = e]
        BY <1>1, <1>9, <2>3, ReadingThePredecessor
    <2>2. \A e : [call[t] EXCEPT !.at = "stamp", !.waiting = <<"admission">>, !.entry = e].at
                     = "stamp"
        BY <1>1, CallsAre
    <2> QED BY <2>1, <2>2, <2>3
<1> QED BY <1>2, <1>3, <1>4, <1>5, <1>6, <1>7, <1>8, <1>9 DEF Step, Stages

\* A stamp is what the clock reads, and nothing else of the occurrence changes.
LEMMA StampsAre ==
    ASSUME TypeInv, NEW t \in Threads, Stamp(t)
    PROVE  /\ call[t].at = "stamp" /\ call[t].waiting = <<>>
           /\ call'[t].at = "append" /\ call'[t].waiting = <<>>
           /\ call'[t].writes = call[t].writes /\ call[t].writes \in Histories
           /\ call'[t].entry.available = Availability
           /\ LastAvailable(call[t].writes) <= Availability
           /\ Availability \in Nat /\ Availability <= latest'
           /\ UNCHANGED <<hist, scenario>>
<1> DEFINE a == Availability
           e == [call[t].entry EXCEPT !.available = a]
           c == [call[t] EXCEPT !.at = "append", !.entry = e]
<1>1. /\ call \in [Threads -> Calls] /\ call[t] \in Calls /\ call[t].writes \in Histories
      /\ call[t].at = "stamp" /\ call[t].waiting = <<>> /\ call[t].entry \in Entry(call[t].writes)
    BY TypeInvIs, CallsAre DEF GoodCall, StagedOf, Stamp, At
<1>2. call'[t] = c
    BY <1>1 DEF Stamp
<1>3. /\ a \in Nat /\ a <= latest' /\ a >= LastAvailable(call[t].writes)
      /\ UNCHANGED <<hist, scenario>>
    BY TypeInvIs, ReadingsGrow DEF Stamp, Publishable, ReadAvailability
<1>4. LastAvailable(call[t].writes) \in Nat
    <2> DEFINE h == call[t].writes
    <2>1. hist[h] \in Seq(Entry(h))
        BY <1>1, TypeInvIs
    <2>2. hist[h] # <<>> => Len(hist[h]) \in 1..Len(hist[h])
        BY <2>1
    <2>3. hist[h] # <<>> => hist[h][Len(hist[h])] \in Entry(h)
        BY <2>1, <2>2
    <2> QED BY <1>1, <2>3, EntryFields DEF LastAvailable
<1> HIDE DEF a
<1>5. e.available = a
    BY <1>1 DEF Entry
<1> HIDE DEF e
<1>6. c.at = "append" /\ c.entry = e /\ c.writes = call[t].writes /\ c.waiting = call[t].waiting
    BY <1>1, CallsAre
<1> HIDE DEF c
<1>7. LastAvailable(call[t].writes) <= a
    BY <1>3, <1>4
<1> QED BY <1>1, <1>2, <1>3, <1>5, <1>6, <1>7 DEF a

\* A publication ends with its call elsewhere, and the clock is not read.
LEMMA PublishesAre ==
    ASSUME TypeInv, NEW t \in Threads, Publish(t)
    PROVE  /\ call[t].at = "append" /\ call[t].waiting = <<>> /\ call'[t].at # "append"
           /\ call[t].writes \in Histories /\ call[t].entry \in Entry(call[t].writes)
           /\ hist' = [hist EXCEPT ![call[t].writes] = Append(@, call[t].entry)]
           /\ UNCHANGED <<scenario, latest, now>>
<1> DEFINE next == [call[t] EXCEPT !.at = "rule", !.rule = @ + 1]
           second == [call[t] EXCEPT !.at = "qualify", !.writes = "qualification",
                                     !.waiting = QualifyLocks,
                                     !.task = Len(hist["freshness"]) + 1]
<1>1. /\ call \in [Threads -> Calls] /\ call[t] \in Calls /\ call[t].writes \in Histories
      /\ call[t].at = "append" /\ call[t].waiting = <<>> /\ call[t].entry \in Entry(call[t].writes)
    BY TypeInvIs, CallsAre DEF GoodCall, StagedOf, Publish, At
<1>2. call'[t] = next \/ call'[t] = second \/ call'[t] = Idle
    BY <1>1 DEF Publish
<1>3. next.at = "rule" /\ second.at = "qualify" /\ Idle.at = "idle"
    BY <1>1, CallsAre DEF Idle
<1> HIDE DEF next, second
<1> QED BY <1>1, <1>2, <1>3 DEF Publish, clock

\* A history and its last instant, as the archive sees them.
LEMMA LogsAre ==
    ASSUME TypeInv, Services, NEW n \in Names
    PROVE  /\ Len(Log[n]) \in Nat /\ DOMAIN Log[n] = 1..Len(Log[n])
           /\ \A i \in DOMAIN Log[n] : Log[n][i].available \in Nat
           /\ LastKnown(n) \in Nat
           /\ n \in Histories => LastKnown(n) = LastAvailable(n)
           /\ n \in Conclusions => LastKnown(n) = LastKept(n)
<1>1. CASE n \in Histories
    <2>1. Log[n] = hist[n] /\ hist[n] \in Seq(Entry(n))
        BY <1>1, TypeInvIs DEF Log
    <2>2. \A e \in Entry(n) : e.available \in Nat
        BY <1>1, EntryFields
    <2>3. /\ Len(hist[n]) \in Nat /\ DOMAIN hist[n] = 1..Len(hist[n])
          /\ \A i \in DOMAIN hist[n] : hist[n][i] \in Entry(n)
          /\ hist[n] # <<>> => Len(hist[n]) \in DOMAIN hist[n]
        BY <2>1
    <2>4. n \notin Conclusions
        BY <1>1 DEF Histories, Conclusions
    <2> QED BY <1>1, <2>1, <2>2, <2>3, <2>4 DEF LastKnown, LastAvailable
<1>2. CASE n \in Conclusions
    <2>1. n \notin Histories
        BY <1>2 DEF Histories, Conclusions
    <2>2. Log[n] = kept[n] /\ kept[n] \in Seq(Conclusion)
        BY <1>2, <2>1 DEF Log, Services
    <2>3. \A e \in Conclusion : e.available \in Nat
        BY DEF Conclusion
    <2>4. /\ Len(kept[n]) \in Nat /\ DOMAIN kept[n] = 1..Len(kept[n])
          /\ \A i \in DOMAIN kept[n] : kept[n][i] \in Conclusion
          /\ kept[n] # <<>> => Len(kept[n]) \in DOMAIN kept[n]
        BY <2>2
    <2> QED BY <1>2, <2>1, <2>2, <2>3, <2>4 DEF LastKnown, LastKept
<1> QED BY <1>1, <1>2 DEF Names

\* What a step does to a history: somebody stamps for it, what was stamped is
\* appended, or neither.
StampedFor(n, instant) ==
    Coming(n) = {} /\ Coming(n)' = {instant} /\ Log'[n] = Log[n]
Joins(n, e) ==
    /\ Coming(n) = {e.available} /\ Coming(n)' = {}
    /\ Log'[n] = Append(Log[n], e)
Untouched(n) == Coming(n)' = Coming(n) /\ Log'[n] = Log[n]

Promised(n) ==
    /\ StampedFor(n, Availability)
    /\ LastKnown(n) <= Availability /\ Availability <= latest'

OneHistoryMoves ==
    \/ \A n \in Names : Untouched(n)
    \/ \E m \in Names : Promised(m) /\ \A n \in Names : n # m => Untouched(n)
    \/ \E m \in Names : (\E e : Joins(m, e)) /\ \A n \in Names : n # m => Untouched(n)

LEMMA GovernedMoveArchive ==
    ASSUME LockInv, Services, AppendersHold, [Next]_vars, UNCHANGED conclusionVars
    PROVE  OneHistoryMoves /\ AppendersHold'
<1>1. /\ TypeInv /\ call \in [Threads -> Calls] /\ DOMAIN hist = Histories
      /\ work' = work /\ kept' = kept
    BY TypeInvIs DEF LockInv, conclusionVars
<1>2. ASSUME NEW n \in Names, n \notin Histories PROVE Untouched(n)
    BY <1>1, <1>2 DEF Untouched, Coming, Log
<1>3. \A n \in Histories : n \in Names /\ Log[n] = hist[n] /\ Log'[n] = hist'[n]
    BY DEF Names, Log
<1>4. CASE UNCHANGED <<call, hist>>
    BY <1>1, <1>4 DEF OneHistoryMoves, Untouched, Coming, Log, AppendersHold
<1>5. ASSUME NEW t \in Threads, Start(t) \/ Step(t) PROVE OneHistoryMoves /\ AppendersHold'
    <2>1. \A u \in Threads : u # t => call'[u] = call[u]
        BY <1>1, <1>5, StepIsOneCall
    <2>2. CASE ~Stamp(t) /\ ~Publish(t)
        <3>1. call[t].at # "append" /\ call'[t].at # "append"
            BY <1>1, <1>5, <2>2, AppendsAre
        <3>2. hist' = hist
            <4>1. CASE Start(t)
                BY <4>1 DEF Start, Begin, BeginConstruct, BeginValidate, BeginFreshness, BeginAdmit,
                   BeginActivate, BeginQualify, BeginBridge, BeginAnalyse
            <4>2. CASE Stages(t)
                BY <4>2 DEF Stages, Construct, RunRule, Evaluate, ResolvePrerequisites, IssueActive,
                   Qualify, Bridge, Analyse, Stage
            <4>3. CASE \/ Acquire(t) \/ AcquisitionFails(t) \/ Lookup(t) \/ ReadPredecessor(t)
                       \/ Survey(t) \/ StartTask(t) \/ Refuse(t)
                BY <4>3 DEF Acquire, AcquisitionFails, Lookup, ReadPredecessor, Survey, StartTask, Refuse
            <4> QED BY <1>5, <2>2, <4>1, <4>2, <4>3 DEF Step, Stages
        <3>3. ASSUME NEW n \in Histories PROVE Untouched(n)
            <4>1. \A u \in Threads : (call'[u].at = "append" /\ call'[u].writes = n) <=>
                                     (call[u].at = "append" /\ call[u].writes = n)
                BY <2>1, <3>1
            <4>2. \A u \in Threads : call[u].at = "append" => call'[u].entry = call[u].entry
                BY <2>1, <3>1
            <4>3. Coming(n)' = Coming(n)
                BY <4>1, <4>2 DEF Coming
            <4> QED BY <1>3, <3>2, <4>3 DEF Untouched
        <3>4. AppendersHold'
            BY <2>1, <3>1 DEF AppendersHold
        <3> QED BY <1>2, <3>3, <3>4 DEF OneHistoryMoves
    <2>3. CASE Stamp(t)
        <3>0. PICK m : m = call[t].writes
            OBVIOUS
        <3>1. /\ call[t].at = "stamp" /\ call[t].waiting = <<>>
              /\ call'[t].at = "append" /\ call'[t].waiting = <<>>
              /\ call'[t].writes = m /\ m \in Histories
              /\ call'[t].entry.available = Availability
              /\ LastAvailable(m) <= Availability
              /\ Availability \in Nat /\ Availability <= latest'
              /\ UNCHANGED <<hist, scenario>>
            BY <1>1, <2>3, <3>0, StampsAre
        <3>2. \A u \in Threads : call[u].at = "append" => call[u].writes # m
            BY <3>0, <3>1, OneHandPerHistory DEF AppendersHold
        <3>3. Coming(m) = {}
            BY <3>1, <3>2 DEF Coming
        <3>4. Coming(m)' = {Availability}
            <4>1. {u \in Threads : call'[u].at = "append" /\ call'[u].writes = m} = {t}
                BY <2>1, <3>1, <3>2
            <4> QED BY <3>1, <4>1 DEF Coming
        <3>5. ASSUME NEW n \in Histories, n # m PROVE Untouched(n)
            <4>1. \A u \in Threads : (call'[u].at = "append" /\ call'[u].writes = n) <=>
                                     (call[u].at = "append" /\ call[u].writes = n)
                BY <2>1, <3>1, <3>5
            <4>2. \A u \in Threads : call[u].at = "append" => call'[u].entry = call[u].entry
                BY <2>1, <3>1
            <4>3. Coming(n)' = Coming(n)
                BY <4>1, <4>2 DEF Coming
            <4> QED BY <1>3, <3>1, <4>3 DEF Untouched
        <3>6. Promised(m) /\ m \in Names
            BY <1>1, <1>3, <3>1, <3>3, <3>4, LogsAre DEF Promised, StampedFor
        <3>7. AppendersHold'
            BY <2>1, <3>1 DEF AppendersHold
        <3> QED BY <1>2, <3>5, <3>6, <3>7 DEF OneHistoryMoves
    <2>4. CASE Publish(t)
        <3>0. PICK m, e : m = call[t].writes /\ e = call[t].entry
            OBVIOUS
        <3>1. /\ call[t].at = "append" /\ call[t].waiting = <<>> /\ call'[t].at # "append"
              /\ m \in Histories
              /\ hist' = [hist EXCEPT ![m] = Append(@, e)]
              /\ UNCHANGED <<scenario, latest, now>>
            BY <1>1, <2>4, <3>0, PublishesAre
        <3>2. \A u \in Threads : u # t /\ call[u].at = "append" => call[u].writes # m
            BY <3>0, <3>1, OneHandPerHistory DEF AppendersHold
        <3>3. Coming(m) = {e.available}
            <4>1. {u \in Threads : call[u].at = "append" /\ call[u].writes = m} = {t}
                BY <3>0, <3>1, <3>2
            <4> QED BY <3>0, <3>1, <4>1 DEF Coming
        <3>4. Coming(m)' = {}
            BY <2>1, <3>1, <3>2 DEF Coming
        <3>5. hist'[m] = Append(hist[m], e) /\ \A h \in Histories : h # m => hist'[h] = hist[h]
            BY <1>1, <3>1
        <3>6. ASSUME NEW n \in Histories, n # m PROVE Untouched(n)
            <4>1. \A u \in Threads : (call'[u].at = "append" /\ call'[u].writes = n) <=>
                                     (call[u].at = "append" /\ call[u].writes = n)
                BY <2>1, <3>0, <3>1, <3>6
            <4>2. \A u \in Threads : call[u].at = "append" /\ call[u].writes = n
                                     => call'[u].entry = call[u].entry
                BY <2>1, <3>0, <3>1, <3>6
            <4>3. Coming(n)' = Coming(n)
                BY <4>1, <4>2 DEF Coming
            <4> QED BY <1>3, <3>5, <3>6, <4>3 DEF Untouched
        <3>7. Joins(m, e) /\ m \in Names
            BY <1>3, <3>1, <3>3, <3>4, <3>5 DEF Joins
        <3>8. AppendersHold'
            BY <2>1, <3>1 DEF AppendersHold
        <3> QED BY <1>2, <3>6, <3>7, <3>8 DEF OneHistoryMoves
    <2> QED BY <2>2, <2>3, <2>4
<1> QED BY <1>4, <1>5 DEF Next, Move, AllIdle, vars

LEMMA ConclusionsMoveArchive ==
    ASSUME TypeInv, Services, TakingInv, NEW t \in Threads, Conclude(t), Quiet
    PROVE  OneHistoryMoves
<1>1. PICK w \in Work :
          /\ work' = [work EXCEPT ![t] = w]
          /\ \/ Opened(t, w) \/ NotOpened(t, w) \/ Taken(t, w) \/ Derived(t, w)
             \/ Stamped(t, w) \/ Committed(t, w) \/ Answered(t, w) \/ Ended(t, w)
    BY ConclusionsMove
<1>2. work'[t] = w /\ \A u \in Threads : u # t => work'[u] = work[u]
    BY <1>1, OwnWorkOnly
<1>3. call' = call /\ hist' = hist /\ kept \in [Conclusions -> Seq(Conclusion)]
    BY DEF Quiet, Services
<1>4. PICK k \in Conclusions : k = work[t].kind
    BY DEF Services, Work
<1>5. /\ k \in Names /\ k \notin Histories
      /\ \A n \in Names : n \in Histories \/ (n \in Conclusions /\ n \notin Histories)
    BY <1>4 DEF Names, Histories, Conclusions
<1>6. \A n \in Histories : Untouched(n)
    BY <1>3 DEF Untouched, Coming, Log, Names
<1>7. \A n \in Conclusions : n \in Names /\ Log[n] = kept[n] /\ Log'[n] = kept'[n]
    BY DEF Names, Log, Histories, Conclusions
<1>8. CASE Stamped(t, w)
    <2> DEFINE a == Availability
               e == [work[t].entry EXCEPT !.available = a]
    <2>1. w = [work[t] EXCEPT !.at = "commit", !.entry = e] /\ kept' = kept
        BY <1>8 DEF Stamped
    <2>2. work[t] \in Work /\ work[t].entry \in Conclusion /\ work[t].at = "stamp"
        BY <1>8 DEF Services, Stamped, Doing
    <2>3. /\ a \in Nat /\ a <= latest' /\ a >= LastKept(k)
        <3>1. ReadAvailability /\ Retainable(t)
            BY <1>8 DEF Stamped
        <3>2. a \in Nat /\ a <= latest'
            BY <3>1, TypeInvIs, ReadingsGrow
        <3>3. a >= LastKept(k)
            BY <1>4, <3>1 DEF Retainable
        <3> QED BY <3>2, <3>3
    <2> HIDE DEF a
    <2>4. e.available = a
        BY <2>2 DEF Conclusion
    <2> HIDE DEF e
    <2>5. w.at = "commit" /\ w.kind = k /\ w.entry = e
        BY <1>4, <2>1, <2>2 DEF Work
    <2>6. \A u \in Threads : work[u].at = "commit" => work[u].kind # k
        BY <1>4, <2>2, OneHandPerConclusion
    <2>7. Coming(k) = {}
        BY <1>5, <2>6 DEF Coming
    <2>8. PICK b : b = a
        OBVIOUS
    <2>9. Coming(k)' = {b}
        <3>1. {u \in Threads : work'[u].at = "commit" /\ work'[u].kind = k} = {t}
            BY <1>2, <2>5, <2>6
        <3>2. work'[t].entry.available = b
            BY <1>2, <2>4, <2>5, <2>8
        <3> QED BY <1>5, <3>1, <3>2 DEF Coming
    <2>10. ASSUME NEW n \in Conclusions, n # k PROVE Untouched(n)
        <3>1. n \notin Histories
            BY DEF Histories, Conclusions
        <3>2. \A u \in Threads : (work'[u].at = "commit" /\ work'[u].kind = n) <=>
                                 (work[u].at = "commit" /\ work[u].kind = n)
            BY <1>2, <2>2, <2>5, <2>10
        <3>3. \A u \in Threads : work[u].at = "commit" => work'[u].entry = work[u].entry
            BY <1>2, <2>2
        <3>4. Coming(n)' = Coming(n)
            BY <3>1, <3>2, <3>3 DEF Coming
        <3> QED BY <1>7, <2>1, <3>4 DEF Untouched
    <2>11. Promised(k)
        <3>1. LastKnown(k) = LastKept(k) /\ LastKnown(k) \in Nat
            BY <1>5, LogsAre
        <3>2. StampedFor(k, b)
            BY <1>7, <2>1, <2>7, <2>9 DEF StampedFor
        <3>3. LastKnown(k) <= a
            BY <2>3, <3>1
        <3> QED BY <2>3, <2>8, <3>2, <3>3 DEF Promised, a
    <2> QED BY <1>5, <1>6, <2>10, <2>11 DEF OneHistoryMoves
<1>9. CASE Committed(t, w)
    <2>0. PICK e : e = work[t].entry
        OBVIOUS
    <2>1. /\ work[t] \in Work /\ work[t].at = "commit"
          /\ w = [work[t] EXCEPT !.at = "off", !.outcome = "published"]
          /\ kept'[k] = Append(kept[k], e) /\ \A l \in Conclusions : l # k => kept'[l] = kept[l]
        BY <1>3, <1>4, <1>9, <2>0 DEF Committed, Doing, Services
    <2>2. w.at = "off"
        BY <2>1 DEF Work
    <2>3. \A u \in Threads : u # t /\ work[u].at = "commit" => work[u].kind # k
        BY <1>4, <2>1, OneHandPerConclusion
    <2>4. Coming(k) = {e.available}
        <3>1. {u \in Threads : work[u].at = "commit" /\ work[u].kind = k} = {t}
            BY <1>4, <2>1, <2>3
        <3> QED BY <1>5, <2>0, <3>1 DEF Coming
    <2>5. Coming(k)' = {}
        BY <1>2, <1>5, <2>2, <2>3 DEF Coming
    <2>6. ASSUME NEW n \in Conclusions, n # k PROVE Untouched(n)
        <3>1. n \notin Histories
            BY DEF Histories, Conclusions
        <3>2. \A u \in Threads : (work'[u].at = "commit" /\ work'[u].kind = n) <=>
                                 (work[u].at = "commit" /\ work[u].kind = n)
            BY <1>2, <1>4, <2>1, <2>2, <2>6
        <3>3. \A u \in Threads : work[u].at = "commit" /\ work[u].kind = n
                                 => work'[u].entry = work[u].entry
            BY <1>2, <1>4, <2>6
        <3>4. Coming(n)' = Coming(n)
            BY <3>1, <3>2, <3>3 DEF Coming
        <3> QED BY <1>7, <2>1, <2>6, <3>4 DEF Untouched
    <2>7. Joins(k, e)
        BY <1>7, <2>1, <2>4, <2>5 DEF Joins
    <2> QED BY <1>5, <1>6, <2>6, <2>7 DEF OneHistoryMoves
<1>10. CASE ~Stamped(t, w) /\ ~Committed(t, w)
    <2>1. work[t].at # "commit"
        <3>1. work[t].at = "commit" => work[t].waiting = <<>>
            BY DEF TakingInv, Taking
        <3> QED BY <1>1, <1>10, <3>1 DEF Opened, NotOpened, Taken, Derived, Answered, Ended, Doing
    <2>2. w.at # "commit"
        BY <1>1, <1>10, <2>1, MovesAsk
    <2>3. kept' = kept
        BY <1>1, <1>10 DEF Opened, NotOpened, Taken, Derived, Answered, Ended
    <2>4. ASSUME NEW n \in Conclusions PROVE Untouched(n)
        <3>1. n \notin Histories
            BY DEF Histories, Conclusions
        <3>2. \A u \in Threads : work'[u].at = "commit" <=> work[u].at = "commit"
            BY <1>2, <2>1, <2>2
        <3>3. \A u \in Threads : work[u].at = "commit" => work'[u] = work[u]
            BY <1>2, <2>1
        <3>4. Coming(n)' = Coming(n)
            BY <3>1, <3>2, <3>3 DEF Coming
        <3> QED BY <1>7, <2>3, <3>4 DEF Untouched
    <2> QED BY <1>5, <1>6, <2>4 DEF OneHistoryMoves
<1> QED BY <1>8, <1>9, <1>10

\* A clock that is not set back stays at or after its greatest reading.
LEMMA ConclusionsReadOn ==
    ASSUME TypeInv, NEW t \in Threads, Conclude(t), scenario.clock # "adjusted", latest <= now
    PROVE  latest' <= now'
<1>1. now \in Nat /\ latest \in Nat
    BY TypeInvIs
<1>2. Read /\ now' = now => latest' <= now'
    BY <1>1 DEF Read
<1>3. ReadAvailability => latest' <= now'
    <2>1. Availability \in Nat /\ latest <= Availability
        BY <1>1 DEF Availability
    <2> HIDE DEF Availability
    <2> QED BY <1>1, <2>1 DEF ReadAvailability
<1>4. latest' = latest /\ now' = now => latest' <= now'
    BY <1>1
<1>5. \A does : BeginConclusion(t, does) => now' = now
    BY DEF BeginConclusion, governed, clock
<1>6. CASE BeginExecute(t) \/ BeginRecall(t) \/ BeginFails(t)
    BY <1>2, <1>4, <1>5, <1>6 DEF BeginExecute, BeginRecall, BeginFails
<1>7. CASE Interpret(t) \/ Assess(t) \/ DeriveStrategy(t) \/ RefuseConclusion(t)
    <2>1. Read /\ now' = now
        BY <1>7 DEF Interpret, Assess, DeriveStrategy, DeriveFrom, RefuseConclusion, governed, clock
    <2> QED BY <1>2, <2>1
<1>8. CASE StampConclusion(t)
    BY <1>3, <1>8 DEF StampConclusion
<1>9. CASE \/ TakeLock(t) \/ Commit(t) \/ ClockFails(t)
           \/ RecallInterpretations(t) \/ RecallAssessments(t) \/ RecallStrategies(t)
    <2>1. latest' = latest /\ now' = now
        BY <1>9 DEF TakeLock, Commit, ClockFails, RecallInterpretations, RecallAssessments,
           RecallStrategies, Answer, governed, clock
    <2> QED BY <1>4, <2>1
<1> QED BY <1>6, <1>7, <1>8, <1>9 DEF Conclude

-----------------------------------------------------------------------------

\* Nothing is known after the last reading, and what is stamped is later than all
\* that its history holds.
FrontierInv ==
    /\ AppendersHold
    /\ scenario.clock # "adjusted" => latest <= now
    /\ \A n \in Names : LastKnown(n) <= latest
    /\ \A n \in Names : \A instant \in Coming(n) :
          instant \in Nat /\ LastKnown(n) <= instant /\ instant <= latest

LEMMA LastKnownOf ==
    ASSUME TypeInv, Services, NEW n \in Names, NEW e, Log'[n] = Append(Log[n], e)
    PROVE  LastKnown(n)' = e.available
<1>1. Len(Log[n]) \in Nat /\ DOMAIN Log[n] = 1..Len(Log[n])
    BY LogsAre
<1>2. Log[n] \in Seq({Log[n][i] : i \in DOMAIN Log[n]})
    <2>1. CASE n \in Histories
        <3>1. Log[n] = hist[n] /\ hist[n] \in Seq(Entry(n))
            BY <2>1, TypeInvIs DEF Log
        <3> QED BY <3>1
    <2>2. CASE n \in Conclusions
        <3>1. Log[n] = kept[n] /\ kept[n] \in Seq(Conclusion)
            BY <2>2 DEF Log, Services, Histories, Conclusions
        <3> QED BY <3>1
    <2> QED BY <2>1, <2>2 DEF Names
<1>3. Append(Log[n], e) # <<>> /\ Len(Append(Log[n], e)) = Len(Log[n]) + 1
      /\ Append(Log[n], e)[Len(Log[n]) + 1] = e
    BY <1>1, <1>2, AppendProperties
<1> QED BY <1>3 DEF LastKnown

LEMMA FrontierMoves ==
    ASSUME TypeInv, Services, TypeInv', Services', FrontierInv, AppendersHold', OneHistoryMoves,
           latest <= latest', scenario' = scenario, scenario.clock # "adjusted" => latest' <= now'
    PROVE  FrontierInv'
<1>1. latest \in Nat /\ latest' \in Nat
    BY DEF TypeInv, TypeOK
<1>2. ASSUME NEW n \in Names
      PROVE  LastKnown(n) \in Nat /\ LastKnown(n) <= latest
    BY LogsAre DEF FrontierInv
<1>3. ASSUME NEW n \in Names, Untouched(n)
      PROVE  /\ LastKnown(n)' <= latest'
             /\ \A instant \in Coming(n)' :
                   instant \in Nat /\ LastKnown(n)' <= instant /\ instant <= latest'
    <2>1. LastKnown(n)' = LastKnown(n) /\ Coming(n)' = Coming(n)
        BY <1>3 DEF Untouched, LastKnown
    <2>2. \A instant \in Coming(n) :
              instant \in Nat /\ LastKnown(n) <= instant /\ instant <= latest
        BY DEF FrontierInv
    <2> QED BY <1>1, <1>2, <2>1, <2>2
<1>4. ASSUME NEW n \in Names, Promised(n)
      PROVE  /\ LastKnown(n)' <= latest'
             /\ \A instant \in Coming(n)' :
                   instant \in Nat /\ LastKnown(n)' <= instant /\ instant <= latest'
    <2>1. PICK a : a = Availability
        OBVIOUS
    <2>2. LastKnown(n)' = LastKnown(n) /\ Coming(n)' = {a} /\ LastKnown(n) <= a /\ a <= latest'
        BY <1>4, <2>1 DEF Promised, StampedFor, LastKnown
    <2>3. a \in Nat
        BY <2>1, TypeInvIs, ReadingsGrow
    <2> QED BY <1>1, <1>2, <2>2, <2>3
<1>5. ASSUME NEW n \in Names, NEW e, Joins(n, e)
      PROVE  /\ LastKnown(n)' <= latest'
             /\ \A instant \in Coming(n)' :
                   instant \in Nat /\ LastKnown(n)' <= instant /\ instant <= latest'
    <2>1. LastKnown(n)' = e.available /\ Coming(n)' = {} /\ e.available \in Coming(n)
        BY <1>5, LastKnownOf DEF Joins
    <2>2. e.available \in Nat /\ e.available <= latest
        BY <2>1 DEF FrontierInv
    <2> QED BY <1>1, <2>1, <2>2
<1>6. ASSUME NEW n \in Names
      PROVE  Untouched(n) \/ Promised(n) \/ \E e : Joins(n, e)
    BY DEF OneHistoryMoves
<1> QED BY <1>3, <1>4, <1>5, <1>6 DEF FrontierInv

\* What the frontier of a history is.
LEMMA FrontierIs ==
    ASSUME NEW n \in Names
    PROVE  /\ Coming(n) = {} => Frontier[n] = NextReading(n)
           /\ \A instant : Coming(n) = {instant} => Frontier[n] = instant
<1>1. \A instant : TheOne({instant}) = instant
    BY DEF TheOne
<1> QED BY <1>1 DEF Frontier

LEMMA FrontierIsNext ==
    ASSUME NEW n \in Names
    PROVE  /\ Coming(n)' = {} => Frontier'[n] = NextReading(n)'
           /\ \A instant : Coming(n)' = {instant} => Frontier'[n] = instant
<1>1. \A instant : TheOne({instant}) = instant
    BY DEF TheOne
<1> QED BY <1>1 DEF Frontier

LEMMA KindIs ==
    ASSUME TypeInv
    PROVE  scenario.clock \in {"distinct", "tied", "adjusted"}
BY TypeInvIs, GovernedAssumption DEF Kinds

\* The frontier only moves on, and what is appended is between where it was and
\* where it goes.
LEMMA FrontierMovesOn ==
    ASSUME TypeInv, Services, TypeInv', Services', FrontierInv, FrontierInv', OneHistoryMoves,
           latest <= latest', scenario' = scenario, NEW n \in Names
    PROVE  /\ Frontier[n] \in Nat /\ Frontier'[n] \in Nat /\ Frontier[n] <= Frontier'[n]
           /\ \A e : Joins(n, e) => Frontier[n] <= e.available /\ e.available <= Frontier'[n]
<1>1. /\ latest \in Nat /\ latest' \in Nat /\ now \in Nat
      /\ scenario.clock \in {"distinct", "tied", "adjusted"}
    BY KindIs DEF TypeInv, TypeOK
<1>2. LastKnown(n) \in Nat /\ LastKnown(n) <= latest
    BY LogsAre DEF FrontierInv
<1>3. PICK r, s : r = NextReading(n) /\ s = NextReading(n)'
    OBVIOUS
<1>4. /\ scenario.clock = "distinct" => r = latest + 1 /\ s = latest' + 1
      /\ scenario.clock = "tied" => r = latest /\ s = latest'
      /\ scenario.clock = "adjusted" => r = LastKnown(n) /\ s = LastKnown(n)'
    BY <1>3 DEF NextReading
<1>5. CASE Untouched(n)
    <2>1. LastKnown(n)' = LastKnown(n) /\ Coming(n)' = Coming(n)
        BY <1>5 DEF Untouched, LastKnown
    <2>2. r \in Nat /\ s \in Nat /\ r <= s
        BY <1>1, <1>2, <1>4, <2>1
    <2>3. Frontier'[n] = IF Coming(n) = {} THEN s ELSE Frontier[n]
        BY <1>3, <2>1 DEF Frontier
    <2>4. Coming(n) # {} => Frontier[n] \in Coming(n)
        BY DEF Frontier, TheOne
    <2>5. Coming(n) \subseteq Nat
        BY DEF FrontierInv
    <2>6. \A e : ~Joins(n, e)
        BY <2>1 DEF Joins
    <2> QED BY <1>3, <2>2, <2>3, <2>4, <2>5, <2>6, FrontierIs
<1>6. CASE Promised(n)
    <2>1. PICK a : a = Availability
        OBVIOUS
    <2>2. Coming(n) = {} /\ Coming(n)' = {a} /\ LastKnown(n) <= a
        BY <1>6, <2>1 DEF Promised, StampedFor
    <2>3. a \in Nat /\ (scenario.clock = "distinct" => latest < a)
        BY <1>1, <2>1, ReadingsGrow
    <2>4. scenario.clock = "tied" => latest <= a
        BY <1>1, <2>1 DEF Availability, FrontierInv
    <2>5. r \in Nat /\ r <= a
        BY <1>1, <1>2, <1>4, <2>2, <2>3, <2>4
    <2>6. Frontier[n] = r /\ Frontier'[n] = a
        BY <1>3, <2>2, FrontierIs, FrontierIsNext
    <2>7. \A e : ~Joins(n, e)
        BY <2>2 DEF Joins
    <2> QED BY <2>3, <2>5, <2>6, <2>7
<1>7. ASSUME NEW e, Joins(n, e)
      PROVE  /\ Frontier[n] \in Nat /\ Frontier'[n] \in Nat
             /\ Frontier[n] = e.available /\ e.available <= Frontier'[n]
    <2>1. /\ LastKnown(n)' = e.available /\ Coming(n)' = {} /\ Coming(n) = {e.available}
        BY <1>7, LastKnownOf DEF Joins
    <2>2. e.available \in Nat /\ e.available <= latest
        BY <2>1 DEF FrontierInv
    <2>3. s \in Nat /\ e.available <= s
        BY <1>1, <1>4, <2>1, <2>2
    <2> QED BY <1>3, <2>1, <2>2, <2>3, FrontierIs, FrontierIsNext
<1>8. Untouched(n) \/ Promised(n) \/ \E e : Joins(n, e)
    BY DEF OneHistoryMoves
<1> QED BY <1>5, <1>6, <1>7, <1>8

LEMMA ArchiveStep ==
    ASSUME TypeInv, Services, TypeInv', Services', FrontierInv, FrontierInv', OneHistoryMoves,
           latest <= latest', scenario' = scenario
    PROVE  Archive!Next
<1>1. \A n \in Names : /\ Frontier[n] \in Nat /\ Frontier'[n] \in Nat /\ Frontier[n] <= Frontier'[n]
                       /\ \A e : Joins(n, e) => Frontier[n] <= e.available /\ e.available <= Frontier'[n]
    BY FrontierMovesOn
<1>2. Frontier' = [n \in Names |-> Frontier'[n]]
    BY DEF Frontier
<1>3. Archive!MovesOn
    BY <1>1, <1>2 DEF Archive!MovesOn
<1>4. Log = [n \in Names |-> Log[n]] /\ Log' = [n \in Names |-> Log'[n]]
    BY DEF Log
<1>5. CASE \A n \in Names : Log'[n] = Log[n]
    <2>1. Log' = Log
        BY <1>4, <1>5
    <2> QED BY <1>3, <2>1 DEF Archive!Next, Archive!Elapse
<1>6. ASSUME NEW m \in Names, NEW e, Joins(m, e), \A n \in Names : n # m => Untouched(n)
      PROVE  Archive!Next
    <2>1. Log'[m] = Append(Log[m], e) /\ \A n \in Names : n # m => Log'[n] = Log[n]
        BY <1>6 DEF Joins, Untouched
    <2>2. Len(Log[m]) \in Nat /\ DOMAIN Log[m] = 1..Len(Log[m])
        BY LogsAre
    <2>3. /\ Len(Append(Log[m], e)) = Len(Log[m]) + 1
          /\ Append(Log[m], e)[Len(Log[m]) + 1] = e
        BY <2>2 
    <2>4. Log' = [Log EXCEPT ![m] = Append(@, e)]
        BY <1>4, <2>1
    <2>5. Archive!Retain(m)
        BY <1>1, <1>3, <1>6, <2>1, <2>3, <2>4 DEF Archive!Retain
    <2> QED BY <2>5 DEF Archive!Next
<1> QED BY <1>5, <1>6 DEF OneHistoryMoves, Untouched, Promised, StampedFor

LEMMA FrontierInit == Init /\ ConclusionsInit => FrontierInv
<1> SUFFICES ASSUME Init, ConclusionsInit PROVE FrontierInv
    OBVIOUS
<1>1. \A t \in Threads : call[t].at = "idle" /\ work[t].at = "off"
    BY DEF Init, ConclusionsInit, Idle, Resting
<1>2. \A n \in Names : Log[n] = <<>> /\ Coming(n) = {}
    BY <1>1 DEF Init, ConclusionsInit, Log, Names, Coming
<1>3. \A n \in Names : LastKnown(n) = 0
    BY <1>2 DEF LastKnown
<1>4. latest = 0 /\ now = 1
    BY DEF Init
<1> QED BY <1>1, <1>2, <1>3, <1>4 DEF FrontierInv, AppendersHold

\* What every step does to the histories and to the clock.
LEMMA StepsMoveArchive ==
    ASSUME LockInv, Services, TakingInv, FrontierInv, [ConcludingNext]_allVars
    PROVE  /\ OneHistoryMoves /\ AppendersHold'
           /\ latest <= latest' /\ scenario' = scenario
           /\ scenario.clock # "adjusted" => latest' <= now'
<1>1. TypeInv /\ AppendersHold /\ (scenario.clock # "adjusted" => latest <= now)
    BY DEF LockInv, FrontierInv
<1>2. CASE [Next]_vars /\ UNCHANGED conclusionVars
    <2>1. OneHistoryMoves /\ AppendersHold'
        BY <1>1, <1>2, GovernedMoveArchive
    <2>2. latest <= latest' /\ scenario' = scenario
        BY <1>1, <1>2, LatestGrows, ScenarioStays
    <2>3. scenario.clock # "adjusted" => latest' <= now'
        BY <1>1, <1>2, ClockGoesOn
    <2> QED BY <2>1, <2>2, <2>3
<1>3. ASSUME NEW t \in Threads, Conclude(t), Quiet
      PROVE  /\ OneHistoryMoves /\ AppendersHold'
             /\ latest <= latest' /\ scenario' = scenario
             /\ scenario.clock # "adjusted" => latest' <= now'
    <2>1. OneHistoryMoves
        BY <1>1, <1>3, ConclusionsMoveArchive
    <2>2. AppendersHold'
        BY <1>1, <1>3 DEF Quiet, AppendersHold
    <2>3. latest <= latest' /\ scenario' = scenario
        BY <1>3 DEF Quiet
    <2>4. scenario.clock # "adjusted" => latest' <= now'
        BY <1>1, <1>3, ConclusionsReadOn
    <2> QED BY <2>1, <2>2, <2>3, <2>4
<1> QED BY <1>1, <1>2, <1>3, StepsAre

LEMMA FrontierStep ==
    ASSUME LockInv, Services, TakingInv, TypeInv', Services', FrontierInv,
           [ConcludingNext]_allVars
    PROVE  /\ FrontierInv'
           /\ OneHistoryMoves /\ latest <= latest' /\ scenario' = scenario
<1>1. TypeInv
    BY DEF LockInv
<1>2. /\ OneHistoryMoves /\ AppendersHold' /\ latest <= latest' /\ scenario' = scenario
      /\ scenario.clock # "adjusted" => latest' <= now'
    BY StepsMoveArchive
<1> QED BY <1>1, <1>2, FrontierMoves

LEMMA FrontierHolds == ConcludingSpec => []FrontierInv
<1>1. /\ LockInv /\ Services /\ TakingInv /\ TypeInv' /\ Services' /\ FrontierInv
      /\ [ConcludingNext]_allVars
      => FrontierInv'
    BY FrontierStep
<1> QED BY <1>1, FrontierInit, GovernedTypes, GovernedLocks, ServicesTyped, LocksAreTaken,
       PTL DEF ConcludingSpec

\* The eleven services keep what AsOfArchive promises of their histories: whoever
\* appends beside whom, and whatever the clock does, a history is only added to,
\* at or after a frontier that never moves back (_append_occurrence_locked of every
\* service stamps under the lock it appends under).
THEOREM ConclusionsImplementArchive == ConcludingSpec => ImplementsArchive
<1>1. Init /\ ConclusionsInit => Archive!Init
    <2> SUFFICES ASSUME Init, ConclusionsInit PROVE Archive!Init
        OBVIOUS
    <2>1. \A t \in Threads : call[t].at = "idle" /\ work[t].at = "off"
        BY DEF Init, ConclusionsInit, Idle, Resting
    <2>2. \A n \in Names : Log[n] = <<>> /\ Coming(n) = {}
        BY <2>1 DEF Init, ConclusionsInit, Log, Names, Coming
    <2>3. Log = [n \in Names |-> <<>>]
        BY <2>2 DEF Log
    <2>4. \A n \in Names : NextReading(n) \in Nat
        <3>1. scenario.clock \in {"distinct", "tied", "adjusted"} /\ latest = 0
            BY GovernedAssumption DEF Init, Kinds
        <3>2. \A n \in Names : LastKnown(n) = 0
            BY <2>2 DEF LastKnown
        <3> QED BY <3>1, <3>2 DEF NextReading
    <2>5. Frontier \in [Names -> Nat]
        BY <2>2, <2>4 DEF Frontier
    <2> QED BY <2>3, <2>5 DEF Archive!Init
<1>2. /\ LockInv /\ Services /\ TakingInv /\ TypeInv' /\ Services' /\ FrontierInv
      /\ FrontierInv' /\ [ConcludingNext]_allVars
      => Archive!Next
    <2> SUFFICES ASSUME LockInv, Services, TakingInv, TypeInv', Services', FrontierInv,
                        FrontierInv', [ConcludingNext]_allVars
                 PROVE  Archive!Next
        OBVIOUS
    <2>1. TypeInv
        BY DEF LockInv
    <2>2. OneHistoryMoves /\ latest <= latest' /\ scenario' = scenario
        BY FrontierStep
    <2> QED BY <2>1, <2>2, ArchiveStep
<1> QED BY <1>1, <1>2, GovernedTypes, GovernedLocks, ServicesTyped, LocksAreTaken, FrontierHolds,
       PTL DEF ConcludingSpec, ImplementsArchive, Archive!Spec

\* What was known of a history before its frontier is settled: no step adds an
\* occurrence there, and none that is there is lost or changed.
SettledPastStands ==
    \A n \in Names : \A i \in DOMAIN Log[n] \cup DOMAIN Log'[n] :
        \/ i \in DOMAIN Log[n] /\ i \in DOMAIN Log'[n] /\ Log'[n][i] = Log[n][i]
        \/ i \in DOMAIN Log'[n] \ DOMAIN Log[n] /\ Log'[n][i].available >= Frontier[n]

\* So what was known at an instant before the frontier stays what was known at it
\* for ever: the cutoff of a survey, the start of a qualification or the decision
\* of a conclusion is read once and need not be read again
\* (get_result_history_as_of of every service).
THEOREM ThePastIsSettled == ConcludingSpec => [][SettledPastStands]_allVars
<1>1. /\ LockInv /\ Services /\ TakingInv /\ TypeInv' /\ Services' /\ FrontierInv
      /\ FrontierInv' /\ [ConcludingNext]_allVars
      => SettledPastStands
    <2> SUFFICES ASSUME LockInv, Services, TakingInv, TypeInv', Services', FrontierInv,
                        FrontierInv', [ConcludingNext]_allVars, NEW n \in Names,
                        NEW i \in DOMAIN Log[n] \cup DOMAIN Log'[n]
                 PROVE  \/ i \in DOMAIN Log[n] /\ i \in DOMAIN Log'[n] /\ Log'[n][i] = Log[n][i]
                        \/ /\ i \in DOMAIN Log'[n] \ DOMAIN Log[n]
                           /\ Log'[n][i].available >= Frontier[n]
        BY DEF SettledPastStands
    <2>1. TypeInv
        BY DEF LockInv
    <2>2. OneHistoryMoves /\ latest <= latest' /\ scenario' = scenario
        BY FrontierStep
    <2>3. CASE Log'[n] = Log[n]
        BY <2>3
    <2>4. ASSUME NEW e, Joins(n, e)
          PROVE  \/ i \in DOMAIN Log[n] /\ i \in DOMAIN Log'[n] /\ Log'[n][i] = Log[n][i]
                 \/ /\ i \in DOMAIN Log'[n] \ DOMAIN Log[n]
                    /\ Log'[n][i].available >= Frontier[n]
        <3>1. Frontier[n] \in Nat /\ Frontier[n] <= e.available
            BY <2>1, <2>2, <2>4, FrontierMovesOn
        <3>2. e.available \in Nat
            BY <2>4 DEF Joins, FrontierInv
        <3>3. Log'[n] = Append(Log[n], e)
            BY <2>4 DEF Joins
        <3>4. Len(Log[n]) \in Nat /\ DOMAIN Log[n] = 1..Len(Log[n])
            BY <2>1, LogsAre
        <3>5. /\ DOMAIN Append(Log[n], e) = 1..(Len(Log[n]) + 1)
              /\ Append(Log[n], e)[Len(Log[n]) + 1] = e
              /\ \A j \in 1..Len(Log[n]) : Append(Log[n], e)[j] = Log[n][j]
            BY <3>4
        <3> QED BY <3>1, <3>2, <3>3, <3>4, <3>5
    <2> QED BY <2>2, <2>3, <2>4 DEF OneHistoryMoves, Untouched, Promised, StampedFor
<1> QED BY <1>1, GovernedTypes, GovernedLocks, ServicesTyped, LocksAreTaken, FrontierHolds,
       PTL DEF ConcludingSpec
=============================================================================
