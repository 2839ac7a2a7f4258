------------------------ MODULE RadarObservationProofs ------------------------
(***************************************************************************)
(* What the decisions of the observation path guarantee in every run, with *)
(* uncoordinated calls, failures, crashes and upgrades: the validators     *)
(* agree, the session never goes back, a delivered transition is genuine.  *)
(***************************************************************************)
EXTENDS RadarCandidateDeliveryProofs

-----------------------------------------------------------------------------
(* The decisions *)

\* The state of a proposal is about the content it was prepared from.
LEMMA ProposalContent ==
    ASSUME NEW asOf, NEW c \in CurrentContent, NEW outcome, NEW stamp,
           NEW s, s = Proposal(asOf, c, outcome, stamp).state
    PROVE  /\ s.light = Observe(revision, c, asOf) /\ s.outcome = outcome
           /\ s.change = [prior |-> PriorLight(checkpoint),
                          classification |-> Classify(PriorLight(checkpoint),
                                                      Observe(revision, c, asOf))]
           /\ ContentOf(s) = c
BY DEF Proposal, Prepare, ContentOf, Observe, CurrentContent

\* The market facts of a lookup that has any are market facts.
LEMMA MarketType ==
    ASSUME NEW w \in Witness, HasMarket(w)
    PROVE  MarketOf(w) \in Market
BY DEF HasMarket, MarketOf, Witness, Absent, ObservationState

\* A comparable market predecessor is of the same or an earlier session.
LEMMA ComparableSession ==
    ASSUME NEW w \in Witness, NEW c \in CurrentContent, HasMarket(w),
           MarketReason(w, c) \in OrdinaryReasons \cup {"UNCHANGED"}
    PROVE  MarketOf(w).session <= c.session
<1>1. MarketOf(w) \in Market
    BY MarketType
<1>2. MarketOf(w).session \in Int /\ c.session \in Int
    BY <1>1, ObservationAssumption DEF Market, CurrentContent
<1>3. MarketReason(w, c) # "REFUSED"
    BY DEF OrdinaryReasons
<1>4. ~(MarketOf(w).session > c.session)
    BY <1>2, <1>3 DEF MarketReason
<1> QED BY <1>2, <1>4

\* A transition is only ever classified between two observations of one
\* calculation revision with different relations.
LEMMA TransitionMeansChange ==
    ASSUME NEW prior, NEW cur, Classify(prior, cur) = "STATE_TRANSITION"
    PROVE  prior # NoLight /\ prior.revision = cur.revision /\ prior.relation # cur.relation
BY DEF Classify

\* What _prepare_state lets through is what _validate_prepared asks for.
LEMMA ProposalIsValid ==
    ASSUME checkpoint \in Witness, NEW asOf, NEW c \in CurrentContent, NEW stamp, NEW outcome,
           Advances(checkpoint, TriggerReason(checkpoint, asOf, c), outcome),
           CanPrepare(checkpoint, TriggerReason(checkpoint, asOf, c),
                      Observe(revision, c, asOf), c)
    PROVE  ValidPrepared(Proposal(asOf, c, outcome, stamp))
<1> DEFINE src == Proposal(asOf, c, outcome, stamp)
<1>1. src.predecessor = checkpoint /\ src.reason = TriggerReason(checkpoint, asOf, c)
    BY DEF Proposal
<1>2. /\ src.state.light = Observe(revision, c, asOf) /\ src.state.outcome = outcome
      /\ src.state.change = [prior |-> PriorLight(checkpoint),
                             classification |-> Classify(PriorLight(checkpoint),
                                                         Observe(revision, c, asOf))]
      /\ ContentOf(src.state) = c
    BY ProposalContent
<1> HIDE DEF src
<1>3. src.reason = MarketReason(checkpoint, c)
    BY <1>1 DEF CanPrepare
<1>4. src.reason = "UNCHANGED" => /\ checkpoint.status = "LEGACY_CONTENT_ONLY"
                                  /\ outcome = "FILTERED"
    BY <1>1 DEF Advances, OrdinaryReasons
<1>5. checkpoint # Complete(src.state)
    <2> SUFFICES ASSUME checkpoint = Complete(src.state) PROVE FALSE
        OBVIOUS
    <2>1. checkpoint.status = "PRESENT_COMPLETE_STATE" /\ MarketOf(checkpoint) = src.state.market
        BY DEF Complete, MarketOf
    <2>2. HasMarket(checkpoint)
        BY <2>1 DEF HasMarket
    <2>3. /\ MarketOf(checkpoint).session = c.session /\ MarketOf(checkpoint).start = c.start
          /\ MarketOf(checkpoint).content = c.content
        BY <1>2, <2>1 DEF ContentOf
    <2>4. c.session \in Int
        BY ObservationAssumption DEF CurrentContent
    <2>5. MarketReason(checkpoint, c) = "UNCHANGED"
        BY <2>2, <2>3, <2>4 DEF MarketReason
    <2> QED BY <1>3, <1>4, <2>1, <2>5
<1>6. ~Incoherent(PriorLight(checkpoint), Observe(revision, c, asOf))
    BY DEF CanPrepare
<1>7. ValidPrepared(src)
    BY <1>1, <1>2, <1>3, <1>4, <1>5, <1>6 DEF ValidPrepared
<1> QED BY <1>7 DEF src

\* And the evaluator accepts it after publication: the prior observation, if
\* any, is the market predecessor the trigger compared with.
LEMMA ProposalIsSaved ==
    ASSUME checkpoint \in Witness, NEW asOf, NEW c \in CurrentContent, NEW stamp, NEW outcome,
           checkpoint.status = "PRESENT_COMPLETE_STATE" => Corresponds(checkpoint.state),
           Advances(checkpoint, TriggerReason(checkpoint, asOf, c), outcome),
           CanPrepare(checkpoint, TriggerReason(checkpoint, asOf, c),
                      Observe(revision, c, asOf), c)
    PROVE  ValidSaved(Proposal(asOf, c, outcome, stamp), revision)
<1> DEFINE src == Proposal(asOf, c, outcome, stamp)
           prior == PriorLight(checkpoint)
           cur == Observe(revision, c, asOf)
<1>0. src.reason = TriggerReason(checkpoint, asOf, c)
    BY DEF Proposal
<1>a. /\ src.state.light = cur /\ src.state.outcome = outcome
      /\ src.state.change = [prior |-> prior, classification |-> Classify(prior, cur)]
    BY ProposalContent
<1> HIDE DEF src
<1>1. /\ src.reason = TriggerReason(checkpoint, asOf, c)
      /\ src.state.light = cur /\ src.state.outcome = outcome
      /\ src.state.change.prior = prior
      /\ src.state.change.classification = Classify(prior, cur)
    BY <1>0, <1>a
<1>2. src.reason = MarketReason(checkpoint, c)
    BY <1>1 DEF CanPrepare
<1>3. /\ cur.revision = revision /\ cur.session = c.session
      /\ cur.content = c.content /\ cur.start = c.start
    BY DEF Observe
<1>4. CASE src.reason = "UNCHANGED"
    <2>1. checkpoint.status = "LEGACY_CONTENT_ONLY" /\ outcome = "FILTERED"
        BY <1>1, <1>4 DEF Advances, OrdinaryReasons
    <2>2. prior = NoLight
        BY <2>1 DEF PriorLight
    <2>3. Classify(prior, cur) = "BASELINE_INITIALIZED"
        BY <2>2 DEF Classify
    <2>4. ValidSaved(src, revision)
        BY <1>1, <1>3, <1>4, <2>1, <2>2, <2>3 DEF ValidSaved
    <2> QED BY <2>4 DEF src
<1>5. CASE src.reason # "UNCHANGED"
    <2>1. src.reason \in OrdinaryReasons
        BY <1>1, <1>5 DEF Advances
    <2>2. ASSUME prior # NoLight
          PROVE  \/ cur.session > prior.session /\ src.reason = "NEW_COMPLETED_SESSION"
                 \/ /\ cur.session <= prior.session
                    /\ cur.start = prior.start /\ cur.content # prior.content
                    /\ src.reason = "MARKET_CONTENT_CHANGED"
        <3>1. checkpoint.status = "PRESENT_COMPLETE_STATE" /\ prior = checkpoint.state.light
            BY <2>2 DEF PriorLight
        <3> DEFINE m == MarketOf(checkpoint)
        <3>2. /\ HasMarket(checkpoint) /\ m \in Market
              /\ m.session = prior.session /\ m.start = prior.start
              /\ m.content = prior.content
            BY <3>1 DEF HasMarket, MarketOf, Corresponds, Witness, Absent, ObservationState
        <3>3. m.session \in Int /\ c.session \in Int
            BY <3>2, ObservationAssumption DEF Market, CurrentContent
        <3> HIDE DEF m, prior, cur
        <3>4. CASE m.session < c.session
            BY <1>2, <1>3, <3>2, <3>3, <3>4 DEF MarketReason, m
        <3>5. CASE m.session >= c.session
            BY <1>2, <1>3, <2>1, <1>5, <3>2, <3>3, <3>5 DEF MarketReason, OrdinaryReasons, m
        <3> QED BY <3>3, <3>4, <3>5
    <2>3. ValidSaved(src, revision)
        BY <1>1, <1>3, <2>1, <2>2 DEF ValidSaved
    <2> QED BY <2>3 DEF src
<1> QED BY <1>4, <1>5

-----------------------------------------------------------------------------
(* The invariant *)

\* The initial checkpoint is coherent and nothing is prepared.
LEMMA ObservedInit == Init => ObservedInv
BY DeliveryAssumption DEF Init, ObservedInv, ValidatorsAgree

\* A step that keeps the checkpoint, the prepared records and the revision,
\* and is not about to judge or overwrite anything, keeps the invariant.
LEMMA ObservedKept ==
    ASSUME ObservedInv, UNCHANGED <<checkpoint, prepared>>,
           pc' \notin {"admitting", "preparing", "overwriting"}
    PROVE  ObservedInv'
BY DEF ObservedInv, ValidatorsAgree

\* A save puts a state about one observation in place of the checkpoint.
LEMMA ObservedSave ==
    ASSUME ObservedInv, checkpoint' = Complete(task.state), prepared' = prepared,
           Corresponds(task.state), pc' \notin {"admitting", "preparing", "overwriting"}
    PROVE  ObservedInv'
<1>1. checkpoint'.state = task.state
    BY DEF Complete
<1>2. Corresponds(checkpoint'.state)
    BY <1>1
<1> QED BY <1>2 DEF ObservedInv, ValidatorsAgree, Corresponds

\* The proposal that leaves the evaluation is one all validators accept.
LEMMA ObservedProposal == TypeInv /\ ObservedInv /\ EvaluateAndPrepare => ObservedInv'
<1> SUFFICES ASSUME TypeInv, ObservedInv, EvaluateAndPrepare PROVE ObservedInv'
    OBVIOUS
<1>1. checkpoint \in Witness /\ UNCHANGED <<checkpoint, prepared, revision>>
    BY DEF TypeInv, TypeOK, EvaluateAndPrepare, durable
<1>2. PICK asOf \in Times, c \in CurrentContent, stamp \in Stamps :
          LET reason == TriggerReason(checkpoint, asOf, c) IN
          \E outcome \in OutcomesAfter(reason) :
             /\ Advances(checkpoint, reason, outcome)
             /\ CanPrepare(checkpoint, reason, Observe(revision, c, asOf), c)
             /\ task' = Proposal(asOf, c, outcome, stamp)
    BY DEF EvaluateAndPrepare
<1>3. PICK outcome :
          /\ Advances(checkpoint, TriggerReason(checkpoint, asOf, c), outcome)
          /\ CanPrepare(checkpoint, TriggerReason(checkpoint, asOf, c),
                        Observe(revision, c, asOf), c)
          /\ task' = Proposal(asOf, c, outcome, stamp)
    BY <1>2
<1>4. ContentOf(task'.state) = c /\ Corresponds(task'.state)
    <2>1. ContentOf(Proposal(asOf, c, outcome, stamp).state) = c
        BY DEF ContentOf, Proposal, Prepare, CurrentContent
    <2>2. Corresponds(Proposal(asOf, c, outcome, stamp).state)
        BY DEF Corresponds, Proposal, Prepare, Observe
    <2> QED BY <1>3, <2>1, <2>2
<1>5. ValidPrepared(task')
    BY <1>1, <1>3, ProposalIsValid
<1>6. ValidSaved(task', revision)
    BY <1>1, <1>3, ProposalIsSaved DEF ObservedInv
<1>7. task'.predecessor = checkpoint /\ task'.reason = MarketReason(checkpoint, c)
    BY <1>3 DEF Proposal, CanPrepare
<1>8. task'.reason = MarketReason(task'.predecessor, ContentOf(task'.state))
    BY <1>4, <1>7
<1>9. ValidPrepared(task)' /\ ValidSaved(task, revision)'
    BY <1>1, <1>5, <1>6 DEF ValidPrepared, ValidSaved, PriorLight, Incoherent, Classify,
       MarketReason, HasMarket, MarketOf, ContentOf, Complete
<1> QED
    BY <1>1, <1>4, <1>7, <1>8, <1>9
    DEF ObservedInv, ValidatorsAgree, Corresponds, MarketReason, HasMarket, MarketOf, ContentOf

\* Admission keeps the proposal and what it started from.
LEMMA ObservedAdmit == ObservedInv /\ Admit => ObservedInv'
<1> SUFFICES ASSUME ObservedInv, Admit PROVE ObservedInv'
    OBVIOUS
<1>1. UNCHANGED <<checkpoint, prepared>> /\ pc = "admitting"
    BY DEF Admit, durable
<1>2. CASE pc' = "preparing"
    <2>1. task' = task
        BY <1>2 DEF Admit, Raise, Return, Goto
    <2> QED BY <1>1, <1>2, <2>1 DEF ObservedInv, ValidatorsAgree
<1>3. CASE pc' # "preparing"
    <2>1. pc' = "idle"
        BY <1>3 DEF Admit, Raise, Return, Goto
    <2> QED BY <1>1, <2>1, ObservedKept
<1> QED BY <1>2, <1>3

\* The prepared record is of the admitted proposal.
LEMMA ObservedPrepared == ObservedInv /\ PersistPrepared => ObservedInv'
<1> SUFFICES ASSUME ObservedInv, PersistPrepared PROVE ObservedInv'
    OBVIOUS
<1>1. /\ checkpoint' = checkpoint /\ prepared' = prepared \cup {task}
      /\ Corresponds(task.state)
    BY DEF PersistPrepared, ObservedInv
<1>2. pc' \in {"rechecking", "idle"}
    BY DEF PersistPrepared, Goto, Raise, Return
<1> QED BY <1>1, <1>2 DEF ObservedInv, ValidatorsAgree

\* Every step keeps it: one case per action.
LEMMA ObservedStep ==
    Inductive /\ TypeInv /\ ObservedInv /\ [Next]_vars => ObservedInv'
<1> SUFFICES ASSUME Inductive, TypeInv, ObservedInv, [Next]_vars PROVE ObservedInv'
    OBVIOUS
<1> USE DEF durable
<1>1. CASE EvaluateAndPrepare
    BY <1>1, ObservedProposal
<1>2. CASE Admit
    BY <1>2, ObservedAdmit
<1>3. CASE PersistPrepared
    BY <1>3, ObservedPrepared
<1>4. CASE SaveCheckpoint
    <2>1. checkpoint' = Complete(task.state) /\ prepared' = prepared /\ pc = "saving"
        BY <1>4 DEF SaveCheckpoint
    <2>2. pc' \in {"accepting", "idle"}
        BY <1>4 DEF SaveCheckpoint, Goto, Raise, Return
    <2>3. Corresponds(task.state)
        BY <2>1 DEF ObservedInv, Inductive, TaskInv
    <2> QED BY <2>1, <2>2, <2>3, ObservedSave
<1>5. CASE OverwritePlain
    <2>1. checkpoint' = Complete(task.state) /\ prepared' = prepared /\ pc = "overwriting"
        BY <1>5 DEF OverwritePlain
    <2>2. pc' = "idle"
        BY <1>5 DEF OverwritePlain, Raise, Return
    <2>3. Corresponds(task.state)
        BY <2>1 DEF ObservedInv
    <2> QED BY <2>1, <2>2, <2>3, ObservedSave
<1>6. CASE Begin \/ FindUnresolved \/ Reconcile \/ EvaluateWithoutAdvancing
    <2>1. UNCHANGED <<checkpoint, prepared>>
        BY <1>6 DEF Begin, FindUnresolved, Reconcile, EvaluateWithoutAdvancing
    <2>2. pc' \notin {"admitting", "preparing", "overwriting"}
        BY <1>6 DEF Begin, FindUnresolved, Reconcile, EvaluateWithoutAdvancing, Resolution,
           Goto, Raise, Return
    <2> QED BY <2>1, <2>2, ObservedKept
<1>7. CASE Recheck \/ PersistAccepted \/ PersistDecision \/ PersistPending
    <2>1. UNCHANGED <<checkpoint, prepared>>
        BY <1>7 DEF Recheck, PersistAccepted, PersistDecision, PersistPending
    <2>2. pc' \notin {"admitting", "preparing", "overwriting"}
        BY <1>7 DEF Recheck, PersistAccepted, PersistDecision, PersistPending,
           Goto, Raise, Return, Finish
    <2> QED BY <2>1, <2>2, ObservedKept
<1>8. CASE PreparationFails \/ StepFails \/ Crash \/ BeginPlain \/ Upgrade
    <2>1. UNCHANGED <<checkpoint, prepared>>
        BY <1>8 DEF PreparationFails, StepFails, Crash, BeginPlain, Upgrade
    <2>2. pc' \notin {"admitting", "preparing", "overwriting"}
        BY <1>8 DEF PreparationFails, StepFails, Crash, BeginPlain, Upgrade, Raise, Return
    <2> QED BY <2>1, <2>2, ObservedKept
<1>9. CASE UNCHANGED vars
    BY <1>9 DEF vars, ObservedInv, ValidatorsAgree
<1> QED BY <1>1, <1>2, <1>3, <1>4, <1>5, <1>6, <1>7, <1>8, <1>9 DEF Next, OwnerStep

\* What the observation path retains and proposes is coherent in every run.
LEMMA ObservationsCohere == Spec => []ObservedInv
<1>1. Inductive => TypeInv
    BY InductiveParts
<1>2. Inductive /\ ObservedInv /\ [Next]_vars => ObservedInv'
    BY <1>1, ObservedStep
<1> QED BY <1>2, ObservedInit, InductiveInvariant, PTL DEF Spec

-----------------------------------------------------------------------------
(* Theorems *)

\* What _prepare_state lets through, _validate_prepared and
\* _validate_saved_source accept: a published checkpoint can be completed.
THEOREM ValidatorsAlwaysAgree == Spec => []ValidatorsAgree
<1>1. ObservedInv => ValidatorsAgree
    BY DEF ObservedInv
<1> QED BY <1>1, ObservationsCohere, PTL

\* Pending work is only ever for a change of relation between two observations
\* of one calculation revision, the later one of a selected run.
THEOREM DeliveredTransitionsAreGenuine == Spec => []TransitionIsGenuine
<1>1. ASSUME LinksCoherent PROVE TransitionIsGenuine
    <2> SUFFICES ASSUME NEW p \in pending
                 PROVE  /\ p.candidate.outcome = "SELECTED"
                        /\ p.candidate.change.prior # NoLight
                        /\ p.candidate.change.prior.revision = p.candidate.light.revision
                        /\ p.candidate.change.prior.relation # p.candidate.light.relation
        BY DEF TransitionIsGenuine
    <2> DEFINE record == [source |-> p.source, reason |-> "ELIGIBLE"]
    <2>1. /\ p.source \in prepared /\ p.candidate = p.source.state /\ record \in decisions
          /\ \A d \in decisions : d.reason = CandidateReason(d.source)
        BY <1>1 DEF LinksCoherent
    <2>2. CandidateReason(p.source) = "ELIGIBLE"
        BY <2>1
    <2>3. Eligible(p.source)
        BY <2>2, EligibleReason
    <2>4. p.source.state.change = [prior |-> PriorLight(p.source.predecessor),
                classification |-> Classify(PriorLight(p.source.predecessor),
                                            p.source.state.light)]
        BY <1>1, <2>1 DEF LinksCoherent, ValidPrepared
    <2>5. Classify(PriorLight(p.source.predecessor), p.source.state.light) = "STATE_TRANSITION"
        BY <2>3, <2>4 DEF Eligible
    <2>6. p.source.state.change.prior = PriorLight(p.source.predecessor)
        BY <2>4
    <2> QED BY <2>1, <2>3, <2>5, <2>6, TransitionMeansChange DEF Eligible
<1> QED BY <1>1, InventoryStaysCoherent, PTL DEF InventoryCoherent

\* A source that may become the checkpoint is not of an earlier session.
LEMMA SourceIsLater ==
    ASSUME NEW s \in Source, HasMarket(s.predecessor),
           s.reason = MarketReason(s.predecessor, ContentOf(s.state))
    PROVE  MarketOf(s.predecessor).session <= s.state.market.session
<1>1. s.predecessor \in Witness /\ ContentOf(s.state) \in CurrentContent
    BY DEF Source, ObservationState, Market, ContentOf, CurrentContent
<1>2. s.reason \in OrdinaryReasons \cup {"UNCHANGED"}
    BY DEF Source
<1>3. ContentOf(s.state).session = s.state.market.session
    BY DEF ContentOf
<1> QED BY <1>1, <1>2, <1>3, ComparableSession

\* The checkpoint never goes back to an earlier completed session, in any run:
\* coordinated or not, recovered or not, before or after an upgrade.
THEOREM SessionsNeverGoBack == Spec => SessionNeverGoesBack
<1> DEFINE Later == checkpoint.status # "ABSENT" =>
               /\ checkpoint'.status # "ABSENT"
               /\ MarketOf(checkpoint).session <= MarketOf(checkpoint').session
<1>1. ASSUME Inductive, ObservedInv, [Next]_vars PROVE [Later]_vars
    <2> SUFFICES ASSUME checkpoint.status # "ABSENT" PROVE Later
        OBVIOUS
    <2>1. TypeInv /\ TaskInv /\ checkpoint \in Witness
        BY <1>1, InductiveParts DEF Inductive, TypeOK
    <2>2. MarketOf(checkpoint).session \in Int
        BY <2>1, MarketType, ObservationAssumption DEF HasMarket, Market
    <2>3. CASE checkpoint' = checkpoint
        BY <2>2, <2>3
    <2>4. CASE checkpoint' # checkpoint
        <3>1. SaveCheckpoint \/ OverwritePlain
            BY <1>1, <2>4, OnlySavesWriteTheCheckpoint
        <3>2. checkpoint' = Complete(task.state) /\ task \in Source
            BY <2>1, <3>1 DEF SaveCheckpoint, OverwritePlain, TypeInv
        <3>3. /\ checkpoint = task.predecessor
              /\ task.reason = MarketReason(task.predecessor, ContentOf(task.state))
            <4>1. CASE SaveCheckpoint
                <5>1. pc = "saving" /\ checkpoint = task.predecessor /\ task \in prepared
                    BY <2>1, <4>1 DEF SaveCheckpoint, TaskInv
                <5>2. ValidPrepared(task)
                    BY <1>1, <5>1 DEF Inductive, LinksCoherent
                <5> QED BY <5>1, <5>2 DEF ValidPrepared
            <4>2. CASE OverwritePlain
                BY <1>1, <4>2 DEF OverwritePlain, ObservedInv
            <4> QED BY <3>1, <4>1, <4>2
        <3>4. HasMarket(task.predecessor)
            BY <3>3 DEF HasMarket
        <3>5. MarketOf(checkpoint).session <= task.state.market.session
            BY <3>2, <3>3, <3>4, SourceIsLater
        <3>6. MarketOf(checkpoint') = task.state.market /\ checkpoint'.status # "ABSENT"
            BY <3>2 DEF MarketOf, Complete
        <3> QED BY <3>5, <3>6
    <2> QED BY <2>3, <2>4
<1>2. Inductive /\ ObservedInv /\ [Next]_vars => [Later]_vars
    BY <1>1
<1> QED BY <1>2, InductiveInvariant, ObservationsCohere, PTL DEF Spec, SessionNeverGoesBack
=============================================================================
