----------------------- MODULE DailyTechnicalDecisions -----------------------
(***************************************************************************)
(* What the governed interpretation, assessment and strategy say: the      *)
(* classic policies from a technical snapshot to a strategy mode.          *)
(*                                                                         *)
(* A snapshot is the operands the policies compare.  An indicator exists   *)
(* from the bar count on that its window needs; its value is a number.     *)
(* Each content is derived and then checked against a second derivation by *)
(* the same helpers, so a helper that raised, or cited evidence that does  *)
(* not exist, would refuse every execution on that snapshot.               *)
(***************************************************************************)
EXTENDS Integers

\* lag: days between the last bar and the analysis.
TechnicalSnapshot ==
    [bars: Nat, lag: Nat, close: Int, ema8: Int, ema20: Int, ema144: Int, ema169: Int,
     macd: Int, signal: Int, rsi: Int, volatility: Int, distance: Int]

\* The frozen configuration (volatilities in hundredths) and profile.
RsiNeutral == 50
RsiElevated == 70
RsiDepressed == 30
VolatilityLow == 15
VolatilityHigh == 30
ExtensionBand == 5
MinimumBarCount == 250
StaleAfterCalendarDays == 7

-----------------------------------------------------------------------------
\* The snapshot: which components its history is too short for.

Required == [ema8 |-> 8, ema20 |-> 20, ema144 |-> 144, ema169 |-> 169, macd |-> 34,
             rsi |-> 15, atr |-> 14, volatility |-> 21, distance |-> 20]
Unavailable(s) == {c \in DOMAIN Required : s.bars < Required[c]}

Degraded(s) == s.bars < MinimumBarCount \/ Unavailable(s) # {}
Warnings(s) ==
    {w \in {"insufficient_profile_history", "stale_evidence"} :
        \/ w = "insufficient_profile_history" /\ s.bars < MinimumBarCount
        \/ w = "stale_evidence" /\ s.lag > StaleAfterCalendarDays}

-----------------------------------------------------------------------------
\* The interpretation: eighteen comparisons and four states.

\* The bars both operands of a comparison need.
Needs == [trend_ema8_above_ema20 |-> 20, trend_ema8_below_ema20 |-> 20,
          trend_close_above_ema144 |-> 144, trend_close_below_ema144 |-> 144,
          trend_close_above_ema169 |-> 169, trend_close_below_ema169 |-> 169,
          momentum_macd_line_above_signal |-> 34, momentum_macd_line_below_signal |-> 34,
          momentum_rsi_at_or_above_neutral |-> 15, momentum_rsi_below_neutral |-> 15,
          rsi_at_or_above_elevated |-> 15, rsi_at_or_below_depressed |-> 15,
          volatility_below_low |-> 21, volatility_at_or_above_low |-> 21,
          volatility_below_high |-> 21, volatility_at_or_above_high |-> 21,
          extension_above_positive_band |-> 20, extension_below_negative_band |-> 20]

Holds(s) == [trend_ema8_above_ema20 |-> s.ema8 > s.ema20,
             trend_ema8_below_ema20 |-> s.ema8 < s.ema20,
             trend_close_above_ema144 |-> s.close > s.ema144,
             trend_close_below_ema144 |-> s.close < s.ema144,
             trend_close_above_ema169 |-> s.close > s.ema169,
             trend_close_below_ema169 |-> s.close < s.ema169,
             momentum_macd_line_above_signal |-> s.macd > s.signal,
             momentum_macd_line_below_signal |-> s.macd < s.signal,
             momentum_rsi_at_or_above_neutral |-> s.rsi >= RsiNeutral,
             momentum_rsi_below_neutral |-> s.rsi < RsiNeutral,
             rsi_at_or_above_elevated |-> s.rsi >= RsiElevated,
             rsi_at_or_below_depressed |-> s.rsi <= RsiDepressed,
             volatility_below_low |-> s.volatility < VolatilityLow,
             volatility_at_or_above_low |-> s.volatility >= VolatilityLow,
             volatility_below_high |-> s.volatility < VolatilityHigh,
             volatility_at_or_above_high |-> s.volatility >= VolatilityHigh,
             extension_above_positive_band |-> s.distance > ExtensionBand,
             extension_below_negative_band |-> s.distance < 0 - ExtensionBand]

\* The comparisons that were made, and those that came out true.
ComparisonEvidence(s) == {id \in DOMAIN Needs : Needs[id] <= s.bars}
Satisfied(s) == LET holds == Holds(s) IN {id \in ComparisonEvidence(s) : holds[id]}

Direction(exists, positive, negative) ==
    IF ~exists THEN "unavailable"
    ELSE IF positive THEN "positive"
    ELSE IF negative THEN "negative" ELSE "mixed"

Trend(s) ==
    Direction(s.bars >= 169,
              s.ema8 > s.ema20 /\ s.close > s.ema144 /\ s.close > s.ema169,
              s.ema8 < s.ema20 /\ s.close < s.ema144 /\ s.close < s.ema169)

\* Mutant: a neutral momentum index counts as negative too.
MomentumAtNeutral(s) ==
    Direction(s.bars >= 34,
              s.macd > s.signal /\ s.rsi >= RsiNeutral,
              s.macd < s.signal /\ s.rsi <= RsiNeutral)

Momentum(s) ==
    Direction(s.bars >= 34,
              s.macd > s.signal /\ s.rsi >= RsiNeutral,
              s.macd < s.signal /\ s.rsi < RsiNeutral)

VolatilityState(s) ==
    IF s.bars < 21 THEN "unavailable"
    ELSE IF s.volatility < VolatilityLow THEN "low"
    ELSE IF s.volatility < VolatilityHigh THEN "normal" ELSE "high"

ExtensionState(s) ==
    IF s.bars < 20 THEN "unavailable"
    ELSE IF s.distance > ExtensionBand THEN "above"
    ELSE IF s.distance < 0 - ExtensionBand THEN "below" ELSE "within"

-----------------------------------------------------------------------------
\* The assessment: findings and an outcome.

Opposed(s) == <<Trend(s), Momentum(s)>> \in {<<"positive", "negative">>, <<"negative", "positive">>}

\* What an opposition of trend and momentum cites; the helper raises unless all
\* of it is satisfied.
OppositionEvidence(s) ==
    IF Trend(s) = "positive"
    THEN {"trend_ema8_above_ema20", "trend_close_above_ema144", "trend_close_above_ema169",
          "momentum_macd_line_below_signal", "momentum_rsi_below_neutral"}
    ELSE {"trend_ema8_below_ema20", "trend_close_below_ema144", "trend_close_below_ema169",
          "momentum_macd_line_above_signal", "momentum_rsi_at_or_above_neutral"}

CautionFor == [rsi_at_or_above_elevated |-> "rsi_elevated",
               rsi_at_or_below_depressed |-> "rsi_depressed",
               extension_above_positive_band |-> "ema20_above_reference_band",
               extension_below_negative_band |-> "ema20_below_reference_band",
               volatility_at_or_above_high |-> "high_realized_volatility"]

\* Mutant: an old last bar is no caution.
CautionsUnlessStale(s) ==
    {CautionFor[id] : id \in DOMAIN CautionFor \cap Satisfied(s)}
        \cup {c \in {"source_quality_degraded"} : Degraded(s)}
        \cup (Warnings(s) \ {"stale_evidence"})

\* The codes of the cautions; the ones on comparisons cite theirs.
Cautions(s) ==
    {CautionFor[id] : id \in DOMAIN CautionFor \cap Satisfied(s)}
        \cup {c \in {"source_quality_degraded"} : Degraded(s)}
        \cup Warnings(s)

Outcome(s) ==
    IF "unavailable" \in {Trend(s), Momentum(s), VolatilityState(s), ExtensionState(s)}
    THEN "insufficient_data"
    ELSE IF "mixed" \in {Trend(s), Momentum(s)} \/ Opposed(s) THEN "mixed"
    ELSE IF Cautions(s) # {} THEN "caution"
    ELSE "aligned"

-----------------------------------------------------------------------------
\* The strategy.

RuleFor == [insufficient_data |-> "insufficient_data_no_active_strategy",
            mixed |-> "mixed_no_active_strategy",
            caution |-> "caution_no_active_strategy"]

\* _classic_strategy_semantics: the mode and its rule; it raises ("unsupported")
\* on an aligned assessment whose directions are not both positive or negative.
StrategyMode(s) ==
    IF Outcome(s) # "aligned" THEN <<"no_active_strategy", RuleFor[Outcome(s)]>>
    ELSE IF Trend(s) = "positive" /\ Momentum(s) = "positive"
    THEN <<"positive_directional_continuation", "aligned_positive_continuation">>
    ELSE IF Trend(s) = "negative" /\ Momentum(s) = "negative"
    THEN <<"negative_directional_continuation", "aligned_negative_continuation">>
    ELSE <<"unsupported", "unsupported">>

AllowedModeRulePairs ==
    {<<"positive_directional_continuation", "aligned_positive_continuation">>,
     <<"negative_directional_continuation", "aligned_negative_continuation">>,
     <<"no_active_strategy", "caution_no_active_strategy">>,
     <<"no_active_strategy", "mixed_no_active_strategy">>,
     <<"no_active_strategy", "insufficient_data_no_active_strategy">>}

-----------------------------------------------------------------------------
\* What must hold of every snapshot.

\* The assessment of the interpretation can be made: what its findings cite was
\* compared and came out true.
Assessable(s) == Opposed(s) => OppositionEvidence(s) \subseteq Satisfied(s)
Deployable(s) == StrategyMode(s) \in AllowedModeRulePairs
Decided(s) == Assessable(s) /\ Deployable(s)

\* The reference: when trend and momentum agree and nothing qualifies them.
Unqualified(s) ==
    /\ s.bars >= MinimumBarCount /\ s.lag <= StaleAfterCalendarDays
    /\ RsiDepressed < s.rsi /\ s.rsi < RsiElevated
    /\ s.volatility < VolatilityHigh
    /\ s.distance \in (0 - ExtensionBand)..ExtensionBand
Rising(s) ==
    /\ s.ema8 > s.ema20 /\ s.close > s.ema144 /\ s.close > s.ema169
    /\ s.macd > s.signal /\ s.rsi >= RsiNeutral
Falling(s) ==
    /\ s.ema8 < s.ema20 /\ s.close < s.ema144 /\ s.close < s.ema169
    /\ s.macd < s.signal /\ s.rsi < RsiNeutral

ActiveWhenUnqualified(s) ==
    /\ StrategyMode(s)[1] = "positive_directional_continuation" <=> Unqualified(s) /\ Rising(s)
    /\ StrategyMode(s)[1] = "negative_directional_continuation" <=> Unqualified(s) /\ Falling(s)
=============================================================================
