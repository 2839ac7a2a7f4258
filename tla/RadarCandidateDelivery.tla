------------------------ MODULE RadarCandidateDelivery ------------------------
(***************************************************************************)
(* One instrument's owner: RadarApplicationService.evaluate composed with  *)
(* RadarCandidateDeliveryCoordinator, the checkpoint file and the delivery *)
(* records.  Every file operation is a step of its own; a step may fail    *)
(* with or without its effect, and the process may die between any two     *)
(* steps.  Restart is the next call: recovery runs before evaluation.      *)
(*                                                                         *)
(* The durable variables are the files.  A record's file name is what      *)
(* identifies it: a prepared, accepted or decision record is named by the  *)
(* source identity (the fingerprint of the whole source, so the source     *)
(* itself), a pending record by the candidate fingerprint (the state).     *)
(* Temporary files and the directory scan are RadarDeliverySharedRoot's.   *)
(***************************************************************************)
EXTENDS RadarObservation, FiniteSets

CONSTANTS
    Baselines,      \* what the checkpoint file may hold when coordination starts
    NoSource,       \* no source in hand
    ClockMayRepeat, \* can two prepared states carry the same observed_at?
    MaxSources,     \* bound: prepared records
    MaxFaults,      \* bound: failed steps and crashes
    MaxPlain        \* bound: evaluations run without the coordinator

ASSUME DeliveryAssumption ==
    /\ Baselines \subseteq Witness
    /\ \A b \in Baselines : b.status = "PRESENT_COMPLETE_STATE" => Corresponds(b.state)
    /\ NoSource \notin Source
    /\ ClockMayRepeat \in BOOLEAN
    /\ Revisions \subseteq Int
    /\ MaxSources \in Nat /\ MaxFaults \in Nat /\ MaxPlain \in Nat

VARIABLES
    checkpoint,     \* the instrument's checkpoint file
    prepared,       \* prepared-*.json: sources
    accepted,       \* accepted-*.json
    decisions,      \* decision-*.json
    pending,        \* pending-*.json
    published,      \* history: states save_state has made visible
    pc,             \* where the owner's call stands
    mode,           \* what the call is doing: "recover", "publish" or "plain"
    task,           \* the source in hand
    report,         \* what the last call returned or raised
    revision,       \* observation revision of the running build
    faults,         \* faults so far
    plain           \* uncoordinated calls so far

durable == <<checkpoint, prepared, accepted, decisions, pending, published>>
vars == <<durable, pc, mode, task, report, revision, faults, plain>>

AcceptedRecord == [source: Source, state: ObservationState]
DecisionRecord == [source: Source, reason: CandidateReasons]
PendingRecord  == [source: Source, candidate: ObservationState]

Points == {"idle", "recovering", "reconciling", "evaluating", "admitting", "preparing",
           "rechecking", "saving", "accepting", "deciding", "enqueuing", "overwriting"}

Stages == {"PREPARED", "CHECKPOINT", "RECOVERY", "ACCEPTED", "DECISION", "PENDING",
           "INVARIANT", "PREPARATION", "ADVANCEMENT"}

Reports == [result: {"NONE", "SAVED", "NOT_ADVANCED", "ERROR"},
            stage: Stages \cup {"NONE"}, mayBePublished: BOOLEAN]

NoReport == [result |-> "NONE", stage |-> "NONE", mayBePublished |-> FALSE]
Saved    == [NoReport EXCEPT !.result = "SAVED"]
NotAdvanced == [NoReport EXCEPT !.result = "NOT_ADVANCED"]
Error(stage, may) == [result |-> "ERROR", stage |-> stage, mayBePublished |-> may]

-----------------------------------------------------------------------------
(* The store's view of its records *)

IsAccepted(s) == \E a \in accepted : a.source = s

\* Mutant: a decision alone resolves a source.
ResolvedWithoutPending(s) == IsAccepted(s) /\ \E d \in decisions : d.source = s

\* A source is resolved once it is accepted and decided and, if eligible,
\* its own pending record is there.
IsResolved(s) ==
    /\ IsAccepted(s)
    /\ \E d \in decisions :
          /\ d.source = s
          /\ d.reason = "ELIGIBLE" =>
                \E p \in pending : p.source = s /\ p.candidate = s.state

Unresolved == {s \in prepared : ~IsResolved(s)}

\* Links between records: no orphan, every record agrees with its source.
LinksCoherent ==
    /\ \A s \in prepared : ValidPrepared(s)
    /\ \A a \in accepted : a.source \in prepared /\ a.state = a.source.state
    /\ \A d \in decisions : /\ d.source \in prepared /\ IsAccepted(d.source)
                            /\ d.reason = CandidateReason(d.source)
    /\ \A p \in pending : /\ p.source \in prepared /\ IsAccepted(p.source)
                          /\ p.candidate = p.source.state
                          /\ [source |-> p.source, reason |-> "ELIGIBLE"] \in decisions

\* An eligible decision and a pending record embed the Candidate, whose
\* decoder admits only the observation semantics of the running build.
CandidatesDecodable ==
    /\ \A d \in decisions : d.reason = "ELIGIBLE" => d.source.state.light.revision = revision
    /\ \A p \in pending : p.candidate.light.revision = revision

InventoryReadable == LinksCoherent /\ CandidatesDecodable

-----------------------------------------------------------------------------
(* How a call ends *)

Return(r) == pc' = "idle" /\ task' = NoSource /\ report' = r
Raise(stage, may) == Return(Error(stage, may))
Goto(point) == pc' = point /\ UNCHANGED <<task, report>>

\* After the last record: recovery goes on to the evaluation it preceded,
\* publication returns the saved result.
Finish == IF mode = "recover"
          THEN pc' = "evaluating" /\ task' = NoSource /\ UNCHANGED report
          ELSE Return(Saved)

NoFault == UNCHANGED faults
Fault == faults < MaxFaults /\ faults' = faults + 1

Init ==
    /\ checkpoint \in Baselines
    /\ prepared = {} /\ accepted = {} /\ decisions = {} /\ pending = {}
    /\ published = {}
    /\ pc = "idle" /\ mode = "recover" /\ task = NoSource /\ report = NoReport
    /\ revision \in Revisions
    /\ faults = 0 /\ plain = 0

-----------------------------------------------------------------------------
(* Recovery *)

\* Mutant: evaluate without recovering first.
BeginWithoutRecovery ==
    /\ pc = "idle"
    /\ pc' = "evaluating" /\ mode' = "recover" /\ report' = NoReport
    /\ UNCHANGED <<durable, task, revision, faults, plain>>

\* A coordinated evaluate call starts: recover before anything is loaded.
Begin ==
    /\ pc = "idle"
    /\ pc' = "recovering" /\ mode' = "recover" /\ report' = NoReport
    /\ UNCHANGED <<durable, task, revision, faults, plain>>

\* recover: list the unresolved sources; more than one is an error.
FindUnresolved ==
    /\ pc = "recovering"
    /\ IF ~InventoryReadable \/ \E s, t \in Unresolved : s # t
       THEN Raise("RECOVERY", TRUE)
       ELSE \/ Unresolved = {} /\ pc' = "evaluating" /\ UNCHANGED <<task, report>>
            \/ \E s \in Unresolved : task' = s /\ pc' = "reconciling" /\ UNCHANGED report
    /\ UNCHANGED <<durable, mode, revision, plain>> /\ NoFault

\* Mutants: accept what was never published; publish over anything; complete an
\* accepted source without looking; know only the unpublished case.
AcceptsUnpublished(s) ==
    IF checkpoint \in {s.predecessor, Complete(s.state)} THEN "accepting" ELSE "refused"
PublishesOverAnything(s) ==
    IF checkpoint = Complete(s.state) THEN "accepting"
    ELSE IF ~IsAccepted(s) THEN "saving" ELSE "refused"
TrustsAcceptance(s) ==
    IF checkpoint = Complete(s.state) \/ IsAccepted(s) THEN "accepting"
    ELSE IF checkpoint = s.predecessor THEN "saving" ELSE "refused"
OnlyResumes(s) ==
    IF ~IsAccepted(s) /\ checkpoint = s.predecessor THEN "saving" ELSE "refused"

\* The cases of ADR0051, decision 8: the proposal was published, it was not,
\* or nobody can tell.
Resolution(s) ==
    IF checkpoint = Complete(s.state) THEN "accepting"
    ELSE IF ~IsAccepted(s) /\ checkpoint = s.predecessor THEN "saving"
    ELSE "refused"

\* recover: compare the checkpoint with the proposal and the predecessor.
Reconcile ==
    /\ pc = "reconciling"
    /\ IF Resolution(task) = "refused" THEN Raise("RECOVERY", TRUE) ELSE Goto(Resolution(task))
    /\ UNCHANGED <<durable, mode, revision, plain>> /\ NoFault

-----------------------------------------------------------------------------
(* Evaluation *)

\* The pipeline read the checkpoint (or could not), and the result does not
\* advance it: a fact is unavailable, a gate ended in attention or failed, or
\* the content is unchanged.
EvaluateWithoutAdvancing ==
    /\ pc = "evaluating"
    /\ Return(NotAdvanced)
    /\ UNCHANGED <<durable, mode, revision, plain>> /\ NoFault

\* Preparation raises after an advancing result: the lightweight observation
\* is missing or does not correspond, or the clock fails.
PreparationFails ==
    /\ pc = "evaluating"
    /\ Raise("PREPARATION", FALSE)
    /\ UNCHANGED <<durable, mode, revision, plain>> /\ Fault

FreshStamp(t) ==
    \/ ClockMayRepeat
    \/ /\ \A s \in prepared : s.state.market.observedAt # t
       /\ HasMarket(checkpoint) => MarketOf(checkpoint).observedAt # t

Proposal(asOf, c, outcome, stamp) ==
    LET light == Observe(revision, c, asOf)
    IN [reason |-> TriggerReason(checkpoint, asOf, c),
        state |-> Prepare(checkpoint, light, c, outcome, stamp),
        predecessor |-> checkpoint]

\* An advancing result, prepared: the proposal keeps the lookup it used.
EvaluateAndPrepare ==
    /\ pc = "evaluating"
    /\ Cardinality(prepared) < MaxSources
    /\ \E asOf \in Times, c \in CurrentContent, stamp \in Stamps :
          LET reason == TriggerReason(checkpoint, asOf, c) IN
          \E outcome \in OutcomesAfter(reason) :
             /\ Advances(checkpoint, reason, outcome)
             /\ CanPrepare(checkpoint, reason, Observe(revision, c, asOf), c)
             /\ FreshStamp(stamp)
             /\ task' = Proposal(asOf, c, outcome, stamp)
    /\ pc' = IF mode = "plain" THEN "overwriting" ELSE "admitting"
    /\ mode' = IF mode = "plain" THEN "plain" ELSE "publish"
    /\ UNCHANGED <<durable, report, revision, plain>> /\ NoFault

-----------------------------------------------------------------------------
(* Publication *)

\* publish: no source may be unresolved, and the source must validate.
Admit ==
    /\ pc = "admitting"
    /\ IF ~InventoryReadable \/ Unresolved # {} THEN Raise("RECOVERY", FALSE)
       ELSE IF ~ValidPrepared(task) THEN Raise("INVARIANT", FALSE)
       ELSE Goto("preparing")
    /\ UNCHANGED <<durable, mode, revision, plain>> /\ NoFault

PersistPrepared ==
    /\ pc = "preparing"
    /\ prepared' = prepared \cup {task}
    /\ \/ Goto("rechecking") /\ NoFault
       \/ Raise("PREPARED", FALSE) /\ Fault
    /\ UNCHANGED <<checkpoint, accepted, decisions, pending, published, mode, revision, plain>>

Recheck ==
    /\ pc = "rechecking"
    /\ IF checkpoint = task.predecessor THEN Goto("saving") ELSE Raise("RECOVERY", FALSE)
    /\ UNCHANGED <<durable, mode, revision, plain>> /\ NoFault

\* Mutant: a failed save is reported as if nothing could have been published.
SaveDeniesPublication ==
    /\ pc = "saving"
    /\ checkpoint' = Complete(task.state)
    /\ published' = published \cup {task.state}
    /\ \/ Goto("accepting") /\ NoFault
       \/ Raise("CHECKPOINT", FALSE) /\ Fault
    /\ UNCHANGED <<prepared, accepted, decisions, pending, mode, revision, plain>>

\* save_state: os.replace is the commit point.
SaveCheckpoint ==
    /\ pc = "saving"
    /\ checkpoint' = Complete(task.state)
    /\ published' = published \cup {task.state}
    /\ \/ Goto("accepting") /\ NoFault
       \/ Raise("CHECKPOINT", TRUE) /\ Fault
    /\ UNCHANGED <<prepared, accepted, decisions, pending, mode, revision, plain>>

\* Mutant: pending work before the decision.
AcceptedThenPending ==
    /\ pc = "accepting"
    /\ accepted' = accepted \cup {[source |-> task, state |-> task.state]}
    /\ \/ Goto(IF Eligible(task) THEN "enqueuing" ELSE "deciding") /\ NoFault
       \/ Raise("ACCEPTED", TRUE) /\ Fault
    /\ UNCHANGED <<checkpoint, prepared, decisions, pending, published, mode, revision, plain>>

PersistAccepted ==
    /\ pc = "accepting"
    /\ accepted' = accepted \cup {[source |-> task, state |-> task.state]}
    /\ \/ Goto("deciding") /\ NoFault
       \/ Raise("ACCEPTED", TRUE) /\ Fault
    /\ UNCHANGED <<checkpoint, prepared, decisions, pending, published, mode, revision, plain>>

\* Mutant: a positive decision is taken for the pending record.
DecisionEndsTheCall ==
    /\ pc = "deciding"
    /\ decisions' = decisions \cup {[source |-> task, reason |-> CandidateReason(task)]}
    /\ NoFault /\ Finish
    /\ UNCHANGED <<checkpoint, prepared, accepted, pending, published, mode, revision, plain>>

\* Re-read the retained source, evaluate it, persist the decision.
PersistDecision ==
    /\ pc = "deciding"
    /\ IF task \in prepared /\ IsAccepted(task) /\ ValidSaved(task, revision)
       THEN /\ decisions' = decisions \cup {[source |-> task, reason |-> CandidateReason(task)]}
            /\ \/ NoFault /\ IF Eligible(task) THEN Goto("enqueuing") ELSE Finish
               \/ Fault /\ Raise("DECISION", TRUE)
       ELSE Raise("INVARIANT", TRUE) /\ NoFault /\ UNCHANGED decisions
    /\ UNCHANGED <<checkpoint, prepared, accepted, pending, published, mode, revision, plain>>

\* The pending file is named by the candidate alone: another source with the
\* same state already owns the name, and that is a conflict.
PersistPending ==
    /\ pc = "enqueuing"
    /\ IF \E p \in pending : p.candidate = task.state /\ p.source # task
       THEN Raise("PENDING", TRUE) /\ NoFault /\ UNCHANGED pending
       ELSE /\ pending' = pending \cup {[source |-> task, candidate |-> task.state]}
            /\ \/ NoFault /\ Finish
               \/ Fault /\ Raise("PENDING", TRUE)
    /\ UNCHANGED <<checkpoint, prepared, accepted, decisions, published, mode, revision, plain>>

-----------------------------------------------------------------------------
(* Faults and the environment *)

\* The errors each step can raise when one of its file operations fails.
FailuresAt(point) ==
    CASE point \in {"recovering", "reconciling"} -> {Error("RECOVERY", TRUE)}
      [] point \in {"admitting", "rechecking"} -> {Error("RECOVERY", FALSE)}
      [] point = "preparing" -> {Error("PREPARED", FALSE)}
      [] point = "saving" -> {Error("CHECKPOINT", TRUE)}
      [] point = "accepting" -> {Error("ACCEPTED", TRUE)}
      [] point = "deciding" -> {Error("INVARIANT", TRUE), Error("DECISION", TRUE)}
      [] point = "enqueuing" -> {Error("PENDING", TRUE)}
      [] OTHER -> {Error("ADVANCEMENT", TRUE)}

\* A read or a write fails before it had any effect.
StepFails ==
    /\ pc \notin {"idle", "evaluating"}
    /\ \E r \in FailuresAt(pc) : Return(r)
    /\ UNCHANGED <<durable, mode, revision, plain>> /\ Fault

\* The process dies; only the files are left.
Crash ==
    /\ pc # "idle"
    /\ Return(NoReport)
    /\ UNCHANGED <<durable, mode, revision, plain>> /\ Fault

\* A build with a later observation revision is started.
Upgrade ==
    /\ pc = "idle"
    /\ \E r \in Revisions : r > revision /\ revision' = r
    /\ UNCHANGED <<durable, pc, mode, task, report, faults, plain>>

\* The same instrument evaluated by a service that has no coordinator.
BeginPlain ==
    /\ pc = "idle"
    /\ plain < MaxPlain /\ plain' = plain + 1
    /\ pc' = "evaluating" /\ mode' = "plain" /\ report' = NoReport
    /\ UNCHANGED <<durable, task, revision, faults>>

OverwritePlain ==
    /\ pc = "overwriting"
    /\ checkpoint' = Complete(task.state)
    /\ published' = published \cup {task.state}
    /\ \/ Return(Saved) /\ NoFault
       \/ Raise("ADVANCEMENT", TRUE) /\ Fault
    /\ UNCHANGED <<prepared, accepted, decisions, pending, mode, revision, plain>>

-----------------------------------------------------------------------------
\* The owner's own progress, apart from faults and the environment.
OwnerStep ==
    \/ Begin \/ FindUnresolved \/ Reconcile
    \/ EvaluateWithoutAdvancing \/ EvaluateAndPrepare
    \/ Admit \/ PersistPrepared \/ Recheck \/ SaveCheckpoint
    \/ PersistAccepted \/ PersistDecision \/ PersistPending
    \/ OverwritePlain

Next == OwnerStep \/ PreparationFails \/ StepFails \/ Crash \/ Upgrade \/ BeginPlain

Spec == Init /\ [][Next]_vars

\* The caller keeps evaluating the instrument (each run of the composition is a
\* new call), and a call that nothing interrupts goes on to its end.
FairSpec == Spec /\ WF_vars(OwnerStep)

-----------------------------------------------------------------------------
(* Properties *)

\* What is still owed for a prepared source, told from the records themselves
\* and not by the store's own is_resolved.
Outstanding ==
    {s \in prepared :
        ~ /\ \E a \in accepted : a.source = s
          /\ [source |-> s, reason |-> CandidateReason(s)] \in decisions
          /\ Eligible(s) => [source |-> s, candidate |-> s.state] \in pending}

\* Every durable and local value is one the code can write or hold.
TypeOK ==
    /\ checkpoint \in Witness
    /\ prepared \subseteq Source
    /\ accepted \subseteq AcceptedRecord
    /\ decisions \subseteq DecisionRecord
    /\ pending \subseteq PendingRecord
    /\ published \subseteq ObservationState
    /\ pc \in Points /\ mode \in {"recover", "publish", "plain"}
    /\ task \in Source \cup {NoSource}
    /\ report \in Reports
    /\ revision \in Revisions
    /\ faults \in 0..MaxFaults /\ plain \in 0..MaxPlain

\* At most one source publication is outstanding (ADR0051, decision 7), whatever
\* failed or died, in whatever order, and whoever else wrote the checkpoint in
\* between: unresolved refuses more than one, and nothing could ever repair that.
SingleUnresolved == \A s, t \in Outstanding : s = t

\* The delivery directory an owner leaves behind is never one its own scan
\* refuses (_inventory, _verify_links): no orphan and no contradiction between
\* two records after any failure or crash.
InventoryCoherent == LinksCoherent

\* A source accepted or delivered was once the visible checkpoint: no candidate
\* exists for an observation that was only prepared.
NoPhantomAcceptance ==
    /\ \A a \in accepted : a.state \in published
    /\ \A p \in pending : IsAccepted(p.source) /\ p.candidate \in published

\* A coordinated evaluation (and so its providers, gates and clock) never runs
\* while the work of an earlier one is outstanding.
EvaluationOnlyWhenSettled ==
    pc \in {"evaluating", "admitting", "preparing"} /\ mode # "plain" => Outstanding = {}

\* Without uncoordinated writers recover's case split is exhaustive and
\* unambiguous: an outstanding source finds the checkpoint at its predecessor
\* (then it is not accepted) or at its proposal, never at both or neither.
Reconcilable ==
    \A s \in Outstanding :
        /\ s.predecessor # Complete(s.state)
        /\ ~IsAccepted(s) => checkpoint \in {s.predecessor, Complete(s.state)}
        /\ IsAccepted(s) => checkpoint = Complete(s.state)

\* checkpoint_may_be_published = FALSE is never a lie: an error that denies
\* publication leaves no outstanding source that is the visible checkpoint.
DenialIsTrue ==
    report.result = "ERROR" /\ ~report.mayBePublished =>
        \A s \in Outstanding : checkpoint # Complete(s.state)

\* A result reported as SAVED by a coordinated call owes nothing any more.
SavedIsSettled == report.result = "SAVED" /\ mode = "publish" => Outstanding = {}

\* The overwrite interlock (ADR0051, decision 15): a checkpoint is only replaced once the source that
\* put it there is accepted, decided and, if eligible, pending.
OverwriteInterlock ==
    [][checkpoint' # checkpoint =>
         \A s \in prepared : checkpoint = Complete(s.state) => s \notin Outstanding]_vars

\* Write-ahead: a coordinated replacement of the checkpoint goes from the
\* predecessor to the proposal of a source that is already durable, so it never
\* destroys a checkpoint somebody else wrote.
WriteAhead ==
    [][checkpoint' # checkpoint /\ mode # "plain" =>
         \E s \in prepared : checkpoint = s.predecessor /\ checkpoint' = Complete(s.state)]_vars

\* An acceptance, a decision or pending work is only ever added for the
\* observation that is the visible checkpoint at that moment, also when an
\* uncoordinated call overwrote the one recovery was about to complete.
CompletedWhileVisible ==
    [][/\ \A a \in accepted' \ accepted : checkpoint = Complete(a.state)
       /\ \A d \in decisions' \ decisions : checkpoint = Complete(d.source.state)
       /\ \A p \in pending' \ pending : checkpoint = Complete(p.candidate)]_vars

\* The completed session of the checkpoint never goes back: not by an evaluation
\* with an earlier as_of, not by a recovered proposal, not across an upgrade.
SessionNeverGoesBack ==
    [][checkpoint.status # "ABSENT" =>
         /\ checkpoint'.status # "ABSENT"
         /\ MarketOf(checkpoint).session <= MarketOf(checkpoint').session]_vars

\* The three validators agree: what _prepare_state lets through is accepted by
\* _validate_prepared before publication and by _validate_saved_source after
\* it.  If they did not, the checkpoint would be published and every later call
\* would fail in recovery.
ValidatorsAgree ==
    pc = "admitting" => ValidPrepared(task) /\ ValidSaved(task, revision)

\* A delivered candidate is a change of the relation between two observations
\* that the same calculation revision made, the later one of a selected run.
TransitionIsGenuine ==
    \A p \in pending :
        LET s == p.candidate IN
        /\ s.outcome = "SELECTED" /\ s.change.prior # NoLight
        /\ s.change.prior.revision = s.light.revision
        /\ s.change.prior.relation # s.light.relation

\* The name of a pending record, told from its candidate alone, is free or already
\* its own source's when the record is due, so completion never fails for a
\* conflict: it needs completion times that differ, and no more than that.
CandidateNameIsFree ==
    pc = "enqueuing" => \A p \in pending : p.candidate = task.state => p.source = task

-----------------------------------------------------------------------------
(* The inductive invariant: what the call knows at each point *)

\* A call that has not returned has reported nothing; an uncoordinated one has
\* been counted and takes no part in publication.
CallInv ==
    /\ pc # "idle" => report = NoReport
    /\ mode = "plain" => plain > 0 /\ pc \in {"idle", "evaluating", "overwriting"}
    /\ pc = "overwriting" => mode = "plain"

\* The source in hand is the only one outstanding; before the save it started
\* from the checkpoint, after the save it is the checkpoint.
TaskInv ==
    /\ pc \notin {"idle", "recovering", "evaluating"} => task \in Source
    /\ pc \in {"evaluating", "admitting", "preparing"} /\ mode # "plain" => Outstanding = {}
    /\ pc \in {"admitting", "preparing", "rechecking", "saving"} =>
          checkpoint = task.predecessor
    /\ pc = "preparing" => ValidPrepared(task)
    /\ pc \in {"reconciling", "rechecking", "saving", "accepting", "deciding", "enqueuing"} =>
          task \in prepared /\ Outstanding \subseteq {task}
    /\ pc \in {"accepting", "deciding", "enqueuing"} => checkpoint = Complete(task.state)
    /\ pc \in {"deciding", "enqueuing"} => IsAccepted(task)
    /\ pc = "enqueuing" =>
          Eligible(task) /\ [source |-> task, reason |-> "ELIGIBLE"] \in decisions

\* A prepared source that is the visible checkpoint was published.
VisibleWasPublished ==
    \A s \in prepared : checkpoint = Complete(s.state) => s.state \in published

\* Every retained state is about one observation, and a proposal on its way to
\* the checkpoint continues the observation it replaces.
ObservedInv ==
    /\ checkpoint.status = "PRESENT_COMPLETE_STATE" => Corresponds(checkpoint.state)
    /\ \A s \in prepared : Corresponds(s.state)
    /\ pc \in {"admitting", "preparing", "overwriting"} =>
          /\ Corresponds(task.state) /\ checkpoint = task.predecessor
          /\ task.reason = MarketReason(task.predecessor, ContentOf(task.state))
    /\ ValidatorsAgree

Inductive ==
    /\ TypeOK
    /\ CallInv /\ TaskInv
    /\ LinksCoherent /\ SingleUnresolved
    /\ VisibleWasPublished /\ NoPhantomAcceptance
    /\ plain = 0 => Reconcilable
    /\ mode # "plain" => DenialIsTrue
    /\ SavedIsSettled

-----------------------------------------------------------------------------
(* Progress, and the promise the owner implements *)

\* Every source once prepared is resolved, so that every eligible observation
\* becomes pending work, once faults stop and the instrument is evaluated again.
EveryPreparedSourceResolves ==
    \A i \in 1..MaxSources :
        (Cardinality(prepared) >= i) ~> (Cardinality(prepared \ Outstanding) >= i)

\* The files, with their crashes and failed steps, implement the hand-off.
Handoff == INSTANCE CandidateHandoff WITH
    visible <- checkpoint,
    owed    <- {s \in Outstanding : checkpoint = Complete(s.state)},
    settled <- prepared \ Outstanding,
    work    <- {p.source : p \in pending}

\* Publication and recovery by a coordinated owner behave like one hand-off per
\* visible observation, in the write order of ADR0051, decision 6.
ImplementsHandoff == Handoff!Spec

\* A settled instrument can always be evaluated again; in particular a build
\* with a new calculation revision can establish its baseline (ADR0049,
\* decision 9) instead of failing to read the candidates of the old one.
SettledNeverBlocksEvaluation ==
    pc = "recovering" /\ Outstanding = {} => InventoryReadable
=============================================================================
