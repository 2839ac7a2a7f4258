--------------------------- MODULE RadarObservation ---------------------------
(***************************************************************************)
(* The decisions of the Radar observation path, as operators over one      *)
(* instrument's values: the session/content trigger, the comparison with   *)
(* the last accepted observation, the preparation of a proposed state, the *)
(* validation of a prepared source, and candidate eligibility.             *)
(*                                                                         *)
(* Abstractions.  A completed session is a number; a content identity is   *)
(* only ever compared within one session and scope, so it is a member of   *)
(* Contents; a scope ends at the session, so its history_start stands for  *)
(* it; definition id, calculation revision and schema move together and    *)
(* are one "revision".  The instrument, the profile and the eligibility    *)
(* policy are fixed (the code supports one policy value) and are left out. *)
(* A refused value stands for the exception the code raises.               *)
(***************************************************************************)
EXTENDS Integers

CONSTANTS
    Sessions,       \* dates a checkpoint or a content can carry
    TradingDays,    \* the dates the exchange calendar calls sessions
    Times,          \* evaluation times (as_of)
    LatestSession,  \* [Times -> TradingDays], the calendar's completed session
    Contents,       \* normalized market-content identities
    Starts,         \* history_start of a content scope
    RelationOf,     \* [Contents -> Relations], EMA8 against EMA20
    Revisions,      \* observation definitions that ever produced a state
    Stamps,         \* completion-clock readings (observed_at)
    NoLight         \* no prior lightweight observation

Relations == {"ABOVE", "EQUAL", "BELOW"}

Light == [revision: Revisions, session: Sessions, content: Contents,
          start: Starts, relation: Relations, asOf: Times]

ASSUME ObservationAssumption ==
    /\ Sessions \subseteq Int /\ TradingDays \subseteq Sessions
    /\ LatestSession \in [Times -> TradingDays]
    /\ RelationOf \in [Contents -> Relations]
    /\ NoLight \notin Light

-----------------------------------------------------------------------------
(* Retained values *)

Market == [session: Sessions, content: Contents, start: Starts,
           observedAt: Stamps]

Classifications == {"BASELINE_INITIALIZED", "INCOMPARABLE_BASELINE_INITIALIZED",
                    "STATE_UNCHANGED", "STATE_TRANSITION"}

Change == [prior: Light \cup {NoLight}, classification: Classifications]

CommittedOutcomes == {"SELECTED", "FILTERED"}

ObservationState == [market: Market, light: Light, change: Change,
                     outcome: CommittedOutcomes]

\* The parts of a retained state are about one observation.
Corresponds(s) == /\ s.light.session = s.market.session
                  /\ s.light.content = s.market.content
                  /\ s.light.start = s.market.start

\* What a lookup of the checkpoint file can return besides UNAVAILABLE.
Absent == [status |-> "ABSENT"]
Legacy(m) == [status |-> "LEGACY_CONTENT_ONLY", market |-> m]
Complete(s) == [status |-> "PRESENT_COMPLETE_STATE", state |-> s]

Witness == {Absent} \cup [status: {"LEGACY_CONTENT_ONLY"}, market: Market]
                    \cup [status: {"PRESENT_COMPLETE_STATE"}, state: ObservationState]

\* Mutant: the content-only checkpoint of the earlier release is overlooked.
HasStateMarket(w) == w.status = "PRESENT_COMPLETE_STATE"

HasMarket(w) == w.status # "ABSENT"
MarketOf(w) == IF w.status = "LEGACY_CONTENT_ONLY" THEN w.market ELSE w.state.market
PriorLight(w) ==
    IF w.status = "PRESENT_COMPLETE_STATE" THEN w.state.light ELSE NoLight

\* The content fact of one evaluation, and what the execution supplies.
CurrentContent == [session: Sessions, content: Contents, start: Starts]

-----------------------------------------------------------------------------
(* Session/content trigger *)

OrdinaryReasons ==
    {"BASELINE_REQUIRED", "NEW_COMPLETED_SESSION", "MARKET_CONTENT_CHANGED"}

\* How the content relates to the retained market facts; "REFUSED" where the
\* code raises because the two cannot be compared.
MarketReason(w, c) ==
    IF ~HasMarket(w) THEN "BASELINE_REQUIRED"
    ELSE LET m == MarketOf(w) IN
         CASE m.session > c.session -> "REFUSED"
           [] m.session < c.session -> "NEW_COMPLETED_SESSION"
           [] m.session = c.session /\ m.start # c.start -> "REFUSED"
           [] m.session = c.session /\ m.start = c.start /\ m.content = c.content
                -> "UNCHANGED"
           [] OTHER -> "MARKET_CONTENT_CHANGED"

\* The trigger's reason code for a present content c at as_of.  Every reason
\* outside OrdinaryReasons and "UNCHANGED" carries the ATTENTION disposition.
TriggerReason(w, asOf, c) ==
    LET latest == LatestSession[asOf] IN
    IF HasMarket(w) /\ MarketOf(w).session \notin TradingDays THEN "PRIOR_NOT_SESSION"
    ELSE IF HasMarket(w) /\ MarketOf(w).session > latest THEN "PRIOR_SESSION_AHEAD"
    ELSE IF c.session # latest THEN "CURRENT_SESSION_MISMATCH"
    ELSE IF ~HasMarket(w) THEN "BASELINE_REQUIRED"
    ELSE IF MarketOf(w).session < latest THEN "NEW_COMPLETED_SESSION"
    ELSE IF MarketOf(w).start # c.start THEN "INCOMPARABLE_CONTENT_SCOPE"
    ELSE IF MarketOf(w).content = c.content THEN "UNCHANGED"
    ELSE "MARKET_CONTENT_CHANGED"

\* Outcomes the pipeline can end with once the trigger has this reason: PASS
\* hands over to the later gates, DROP filters, anything else is attention.
OutcomesAfter(reason) ==
    IF reason \in OrdinaryReasons
    THEN {"SELECTED", "FILTERED", "ATTENTION", "FAILED"}
    ELSE IF reason = "UNCHANGED" THEN {"FILTERED"} ELSE {"ATTENTION"}

\* Mutant: the outcome is not looked at.
AdvancesAnyOutcome(w, reason, outcome) ==
    \/ reason \in OrdinaryReasons
    \/ reason = "UNCHANGED" /\ w.status = "LEGACY_CONTENT_ONLY"

\* Which results may move the checkpoint.
Advances(w, reason, outcome) ==
    /\ outcome \in CommittedOutcomes
    /\ \/ reason \in OrdinaryReasons
       \/ reason = "UNCHANGED" /\ outcome = "FILTERED"
                               /\ w.status = "LEGACY_CONTENT_ONLY"

-----------------------------------------------------------------------------
(* Meaningful change *)

\* The comparisons the policy refuses to make.
Incoherent(prior, cur) ==
    /\ prior # NoLight
    /\ \/ cur.session < prior.session
       \/ /\ cur.revision = prior.revision
          /\ cur.session = prior.session
          /\ \/ cur.start # prior.start
             \/ cur.content = prior.content /\ cur.relation # prior.relation

\* Mutant: relations are compared across calculation revisions.
ClassifyAcrossRevisions(prior, cur) ==
    IF prior = NoLight THEN "BASELINE_INITIALIZED"
    ELSE IF prior.relation = cur.relation THEN "STATE_UNCHANGED" ELSE "STATE_TRANSITION"

Classify(prior, cur) ==
    CASE prior = NoLight -> "BASELINE_INITIALIZED"
      [] prior # NoLight /\ prior.revision # cur.revision
           -> "INCOMPARABLE_BASELINE_INITIALIZED"
      [] prior # NoLight /\ prior.revision = cur.revision
           /\ prior.relation = cur.relation -> "STATE_UNCHANGED"
      [] OTHER -> "STATE_TRANSITION"

-----------------------------------------------------------------------------
(* Preparation of the proposed state, and the prepared source *)

\* The lightweight observation derived from the same retained history.
Observe(revision, c, asOf) ==
    [revision |-> revision, session |-> c.session, content |-> c.content,
     start |-> c.start, relation |-> RelationOf[c.content], asOf |-> asOf]

CanPrepare(w, reason, light, c) ==
    /\ MarketReason(w, c) = reason
    /\ ~Incoherent(PriorLight(w), light)

\* Mutant: the prior observation is lost on the way to the decision.
PrepareWithoutPrior(w, light, c, outcome, stamp) ==
    [market  |-> [session |-> c.session, content |-> c.content, start |-> c.start,
                  observedAt |-> stamp],
     light   |-> light,
     change  |-> [prior |-> NoLight, classification |-> Classify(NoLight, light)],
     outcome |-> outcome]

\* Mutant: the completion time is taken over from the state that is replaced.
PrepareKeepingTime(w, light, c, outcome, stamp) ==
    [market  |-> [session |-> c.session, content |-> c.content, start |-> c.start,
                  observedAt |-> IF HasMarket(w) THEN MarketOf(w).observedAt ELSE stamp],
     light   |-> light,
     change  |-> [prior |-> PriorLight(w),
                  classification |-> Classify(PriorLight(w), light)],
     outcome |-> outcome]

Prepare(w, light, c, outcome, stamp) ==
    [market  |-> [session |-> c.session, content |-> c.content, start |-> c.start,
                  observedAt |-> stamp],
     light   |-> light,
     change  |-> [prior |-> PriorLight(w),
                  classification |-> Classify(PriorLight(w), light)],
     outcome |-> outcome]

Source == [reason: OrdinaryReasons \cup {"UNCHANGED"}, state: ObservationState,
           predecessor: Witness]

ContentOf(s) == [session |-> s.market.session, content |-> s.market.content,
                 start |-> s.market.start]

\* Strict validation of a prepared source, on construction and on every read.
ValidPrepared(src) ==
    LET prior == PriorLight(src.predecessor) IN
    /\ ~Incoherent(prior, src.state.light)
    /\ src.state.change = [prior |-> prior,
                           classification |-> Classify(prior, src.state.light)]
    /\ src.reason = MarketReason(src.predecessor, ContentOf(src.state))
    /\ src.reason = "UNCHANGED" => /\ src.predecessor.status = "LEGACY_CONTENT_ONLY"
                                   /\ src.state.outcome = "FILTERED"
    /\ src.predecessor # Complete(src.state)

-----------------------------------------------------------------------------
(* Candidate eligibility *)

Eligible(src) == /\ src.state.outcome = "SELECTED"
                 /\ src.state.change.classification = "STATE_TRANSITION"

\* What the evaluator requires of a saved source under the running revision;
\* it raises otherwise, even when the answer would have been negative.
ValidSaved(src, revision) ==
    LET cur == src.state.light
        prior == src.state.change.prior
    IN /\ cur.revision = revision
       /\ \/ /\ src.reason = "UNCHANGED" /\ src.state.outcome = "FILTERED"
             /\ src.state.change.classification = "BASELINE_INITIALIZED"
             /\ prior = NoLight
          \/ /\ src.reason \in OrdinaryReasons
             /\ prior # NoLight =>
                  \/ cur.session > prior.session /\ src.reason = "NEW_COMPLETED_SESSION"
                  \/ /\ cur.session <= prior.session
                     /\ cur.start = prior.start /\ cur.content # prior.content
                     /\ src.reason = "MARKET_CONTENT_CHANGED"

CandidateReasons == {"NOT_SELECTED", "NO_MEANINGFUL_TRANSITION", "ELIGIBLE"}

CandidateReason(src) ==
    IF src.state.outcome # "SELECTED" THEN "NOT_SELECTED"
    ELSE IF Eligible(src) THEN "ELIGIBLE" ELSE "NO_MEANINGFUL_TRANSITION"
=============================================================================
