---------------------------- MODULE RadarEvaluation ----------------------------
(***************************************************************************)
(* What an evaluation promises about a checkpoint, with no facts that are  *)
(* loaded one by one, no requests and no failures: it takes one history    *)
(* that the instrument's ticker served on days it meant the instrument,    *)
(* and either nothing comes of it or the checkpoint is replaced, at once,  *)
(* by what all the gates and the preparation make of that history and of   *)
(* the checkpoint as it stands.                                            *)
(***************************************************************************)
EXTENDS RadarObservation, InstrumentMappings, Sequences

CONSTANTS
    Settings,
    Revision

VARIABLES
    setting,        \* symbols, profile, registry, and what was retained at first
    checkpoint,     \* [Instruments -> Witness]
    market,         \* [Tickers -> Contents]
    asOf,
    held            \* the instrument and the history that are being evaluated, if any

vars == <<setting, checkpoint, market, asOf, held>>

Init ==
    /\ setting \in Settings
    /\ checkpoint = setting.retained
    /\ market \in [Tickers -> Contents]
    /\ asOf \in Times
    /\ held = {}

\* The provider serves something else.
Revise ==
    /\ \E ticker \in Tickers, content \in Contents :
          market' = [market EXCEPT ![ticker] = content]
    /\ UNCHANGED <<setting, checkpoint, asOf, held>>

\* Another batch, at another time.
Restart ==
    /\ held = {} /\ asOf' \in Times
    /\ UNCHANGED <<setting, checkpoint, market, held>>

\* The ticker meant the instrument, and nothing else, on every session from start on.
Meant(ticker, instrument, start) ==
    \A label \in TradingDays : start <= label /\ label <= LatestSession[asOf] =>
        /\ Meanings(setting.registry, ticker, label) # {}
        /\ \A m \in Meanings(setting.registry, ticker, label) : m.instrument = instrument

Take ==
    /\ held = {}
    /\ \E instrument \in Instruments, ticker \in Tickers, start \in Starts :
          /\ ticker \in TickersOf(setting.registry, instrument)
          /\ Meant(ticker, instrument, start)
          /\ held' = {[instrument |-> instrument,
                       history |-> [session |-> LatestSession[asOf], content |-> market[ticker],
                                    start |-> start]]}
    /\ UNCHANGED <<setting, checkpoint, market, asOf>>

\* What a gate makes of a checkpoint and a history.
Disposition(gate, prior, history) ==
    LET reason == TriggerReason(prior, asOf, history) IN
    CASE gate.kind = "ema" ->
            IF RelationOf[history.content] \in gate.accepts THEN "PASS" ELSE "DROP"
      [] gate.kind = "trigger" /\ reason \in OrdinaryReasons -> "PASS"
      [] gate.kind = "trigger" /\ reason = "UNCHANGED" -> "DROP"
      [] OTHER -> "ATTENTION"

\* The pipeline ends at the n-th gate.
EndsAt(n, prior, history) ==
    /\ \A k \in 1..(n - 1) : Disposition(setting.profile[k], prior, history) = "PASS"
    /\ \/ n = Len(setting.profile)
       \/ Disposition(setting.profile[n], prior, history) # "PASS"

\* A trigger among the gates that ran lets the outcome move the checkpoint.
Moves(n, prior, history, outcome) ==
    LET reason == TriggerReason(prior, asOf, history) IN
    /\ \E k \in 1..n : setting.profile[k].kind = "trigger"
    /\ Advances(prior, reason, outcome)
    /\ CanPrepare(prior, reason, Observe(Revision, history, asOf), history)

\* The n-th gate is the last, and the checkpoint becomes what is prepared then.
AdvanceAfter(n, e, outcome, stamp) ==
    LET prior == checkpoint[e.instrument]
        light == Observe(Revision, e.history, asOf)
    IN /\ EndsAt(n, prior, e.history)
       /\ outcome = "SELECTED" <=> Disposition(setting.profile[n], prior, e.history) = "PASS"
       /\ Moves(n, prior, e.history, outcome)
       /\ checkpoint' = [checkpoint EXCEPT ![e.instrument] =
                            Complete(Prepare(prior, light, e.history, outcome, stamp))]

Advance ==
    /\ \E e \in held, n \in DOMAIN setting.profile, outcome \in CommittedOutcomes, stamp \in Stamps :
          AdvanceAfter(n, e, outcome, stamp)
    /\ held' = {}
    /\ UNCHANGED <<setting, market, asOf>>

\* Filtered, failed or dead: the checkpoint stays.
Drop ==
    /\ held # {} /\ held' = {}
    /\ UNCHANGED <<setting, checkpoint, market, asOf>>

Next == Revise \/ Restart \/ Take \/ Advance \/ Drop

Spec == Init /\ [][Next]_vars
=============================================================================
