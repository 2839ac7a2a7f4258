--------------------- MODULE RadarCandidateDeliveryProofs ---------------------
(***************************************************************************)
(* Type correctness and the inductive invariant of RadarCandidateDelivery, *)
(* for every calendar, content, baseline and bound.                        *)
(***************************************************************************)
EXTENDS RadarCandidateDelivery, TLAPS

-----------------------------------------------------------------------------
(* Values *)

\* A complete checkpoint is one of the lookups a source may have started from.
LEMMA CompleteIsWitness ==
    ASSUME NEW s \in ObservationState
    PROVE  Complete(s) \in Witness
BY DEF Complete, Witness

\* Two complete checkpoints are equal only when they carry the same state.
LEMMA CompleteIsInjective ==
    ASSUME NEW s, NEW t, Complete(s) = Complete(t)
    PROVE  s = t
<1>1. Complete(s).state = s /\ Complete(t).state = t
    BY DEF Complete
<1> QED BY <1>1

\* The prior observation of a lookup is an observation or none.
LEMMA PriorLightType ==
    ASSUME NEW w \in Witness
    PROVE  PriorLight(w) \in Light \cup {NoLight}
<1>1. CASE w \in [status: {"PRESENT_COMPLETE_STATE"}, state: ObservationState]
    BY <1>1 DEF PriorLight, ObservationState
<1>2. CASE w \in [status: {"LEGACY_CONTENT_ONLY"}, market: Market]
    BY <1>2 DEF PriorLight
<1>3. CASE w = Absent
    BY <1>3 DEF PriorLight, Absent
<1> QED BY <1>1, <1>2, <1>3 DEF Witness

\* The observation _prepare_state derives is one the codec can hold.
LEMMA ObserveType ==
    ASSUME NEW r \in Revisions, NEW c \in CurrentContent, NEW asOf \in Times
    PROVE  Observe(r, c, asOf) \in Light
BY ObservationAssumption DEF Observe, Light, CurrentContent

\* The state _prepare_state returns is one the codec can hold.
LEMMA PrepareType ==
    ASSUME NEW w \in Witness, NEW light \in Light, NEW c \in CurrentContent,
           NEW outcome \in CommittedOutcomes, NEW stamp \in Stamps
    PROVE  Prepare(w, light, c, outcome, stamp) \in ObservationState
<1>1. PriorLight(w) \in Light \cup {NoLight}
    BY PriorLightType
<1>2. Classify(PriorLight(w), light) \in Classifications
    BY DEF Classify, Classifications
<1>3. [prior |-> PriorLight(w), classification |-> Classify(PriorLight(w), light)] \in Change
    BY <1>1, <1>2 DEF Change
<1>4. [session |-> c.session, content |-> c.content, start |-> c.start,
       observedAt |-> stamp] \in Market
    BY DEF Market, CurrentContent
<1> QED BY <1>3, <1>4 DEF Prepare, ObservationState

\* An advancing result always yields a source: no reason but the four that may
\* advance, and no outcome but the two that may be committed, reaches it.
LEMMA ProposalType ==
    ASSUME checkpoint \in Witness, revision \in Revisions,
           NEW asOf \in Times, NEW c \in CurrentContent, NEW stamp \in Stamps,
           NEW outcome, Advances(checkpoint, TriggerReason(checkpoint, asOf, c), outcome)
    PROVE  Proposal(asOf, c, outcome, stamp) \in Source
<1> DEFINE light == Observe(revision, c, asOf)
           state == Prepare(checkpoint, light, c, outcome, stamp)
           reason == TriggerReason(checkpoint, asOf, c)
<1>1. outcome \in CommittedOutcomes /\ reason \in OrdinaryReasons \cup {"UNCHANGED"}
    BY DEF Advances
<1>2. light \in Light
    BY ObserveType
<1>3. state \in ObservationState
    BY <1>1, <1>2, PrepareType
<1>4. Proposal(asOf, c, outcome, stamp)
        = [reason |-> reason, state |-> state, predecessor |-> checkpoint]
    BY DEF Proposal
<1> HIDE DEF state, reason
<1> QED BY <1>1, <1>3, <1>4 DEF Source

\* The evaluator answers with one of its three reasons.
LEMMA CandidateReasonType ==
    ASSUME NEW s
    PROVE  CandidateReason(s) \in CandidateReasons
BY DEF CandidateReason, CandidateReasons

\* The results a call returns are reports.
LEMMA ReportTypes ==
    /\ NoReport \in Reports /\ Saved \in Reports /\ NotAdvanced \in Reports
    /\ \A stage \in Stages, may \in BOOLEAN : Error(stage, may) \in Reports
BY DEF NoReport, Saved, NotAdvanced, Error, Reports

\* The errors a failing step raises are reports.
LEMMA FailureTypes ==
    ASSUME NEW point, NEW r \in FailuresAt(point)
    PROVE  r \in Reports
BY ReportTypes DEF FailuresAt, Stages

-----------------------------------------------------------------------------
(* Type correctness *)

\* TypeOK alone is not inductive: a record is written from the source in hand.
TypeInv == TypeOK /\ (pc \notin {"idle", "recovering", "evaluating"} => task \in Source)

\* What every step must establish of the owner's call.
CallTyped ==
    /\ pc' \in Points /\ report' \in Reports /\ task' \in Source \cup {NoSource}
    /\ pc' \notin {"idle", "recovering", "evaluating"} => task' \in Source

\* Ending a call keeps the types of the local state.
LEMMA ReturnType ==
    ASSUME NEW r \in Reports, Return(r)
    PROVE  CallTyped
BY DEF Return, Points, CallTyped

\* So does finishing the last record.
LEMMA FinishType ==
    ASSUME TypeInv, Finish
    PROVE  CallTyped
<1>1. CASE mode = "recover"
    BY <1>1 DEF Finish, TypeInv, TypeOK, Points, CallTyped
<1>2. CASE mode # "recover"
    BY <1>2, ReturnType, ReportTypes DEF Finish
<1> QED BY <1>1, <1>2

\* So does going on to the next step.
LEMMA GotoType ==
    ASSUME TypeInv, task \in Source, NEW point \in Points, Goto(point)
    PROVE  CallTyped
BY DEF Goto, TypeInv, TypeOK, CallTyped

\* So does raising an error at a known stage.
LEMMA RaiseType ==
    ASSUME NEW stage \in Stages, NEW may \in BOOLEAN, Raise(stage, may)
    PROVE  CallTyped
BY ReturnType, ReportTypes DEF Raise

\* Counting a fault respects the bound.
LEMMA FaultType ==
    ASSUME TypeOK, Fault \/ NoFault
    PROVE  faults' \in 0..MaxFaults
BY DeliveryAssumption DEF TypeOK, Fault, NoFault

\* The durable and bounded variables, when they do not change.
LEMMA SameFiles ==
    ASSUME TypeInv, CallTyped, UNCHANGED <<durable, mode, revision, plain>>,
           faults' \in 0..MaxFaults
    PROVE  TypeInv'
BY DEF TypeInv, TypeOK, CallTyped, durable

\* Every step keeps the types: one case per action.
LEMMA TypeStep == TypeInv /\ [Next]_vars => TypeInv'
<1> SUFFICES ASSUME TypeInv, [Next]_vars PROVE TypeInv'
    OBVIOUS
<1>0. TypeOK
    BY DEF TypeInv
<1>1. CASE Begin
    BY <1>1, ReportTypes DEF Begin, TypeInv, TypeOK, Points, durable
<1>2. CASE FindUnresolved
    <2>1. CASE Raise("RECOVERY", TRUE)
        BY <1>0, <1>2, <2>1, RaiseType, FaultType, SameFiles DEF FindUnresolved, Stages
    <2>2. CASE Unresolved = {} /\ pc' = "evaluating" /\ UNCHANGED <<task, report>>
        <3>1. CallTyped
            BY <2>2 DEF TypeInv, TypeOK, Points, CallTyped
        <3> QED BY <1>0, <1>2, <3>1, FaultType, SameFiles DEF FindUnresolved
    <2>3. CASE \E s \in Unresolved : task' = s /\ pc' = "reconciling" /\ UNCHANGED report
        <3>1. CallTyped
            BY <2>3 DEF TypeInv, TypeOK, Points, Unresolved, CallTyped
        <3> QED BY <1>0, <1>2, <3>1, FaultType, SameFiles DEF FindUnresolved
    <2> QED BY <1>2, <2>1, <2>2, <2>3 DEF FindUnresolved
<1>3. CASE Reconcile
    <2>1. task \in Source
        BY <1>3 DEF Reconcile, TypeInv
    <2>2. CallTyped
        BY <1>3, <2>1, RaiseType, GotoType DEF Reconcile, Resolution, Points, Stages
    <2> QED BY <1>0, <1>3, <2>2, FaultType, SameFiles DEF Reconcile
<1>4. CASE EvaluateWithoutAdvancing
    BY <1>0, <1>4, ReturnType, ReportTypes, FaultType, SameFiles DEF EvaluateWithoutAdvancing
<1>5. CASE EvaluateAndPrepare
    <2>1. PICK asOf \in Times, c \in CurrentContent, stamp \in Stamps :
             \E outcome \in OutcomesAfter(TriggerReason(checkpoint, asOf, c)) :
                /\ Advances(checkpoint, TriggerReason(checkpoint, asOf, c), outcome)
                /\ task' = Proposal(asOf, c, outcome, stamp)
        BY <1>5 DEF EvaluateAndPrepare
    <2>2. PICK outcome \in OutcomesAfter(TriggerReason(checkpoint, asOf, c)) :
             /\ Advances(checkpoint, TriggerReason(checkpoint, asOf, c), outcome)
             /\ task' = Proposal(asOf, c, outcome, stamp)
        BY <2>1
    <2>3. task' \in Source
        BY <1>0, <2>2, ProposalType DEF TypeOK
    <2>4. faults' \in 0..MaxFaults
        BY <1>0, <1>5, FaultType DEF EvaluateAndPrepare
    <2> QED BY <1>0, <1>5, <2>3, <2>4 DEF EvaluateAndPrepare, TypeInv, TypeOK, durable, Points
<1>6. CASE Admit
    <2>1. task \in Source
        BY <1>6 DEF Admit, TypeInv
    <2>2. CallTyped
        BY <1>6, <2>1, RaiseType, GotoType DEF Admit, Points, Stages
    <2> QED BY <1>0, <1>6, <2>2, FaultType, SameFiles DEF Admit
<1>7. CASE PersistPrepared
    <2>1. task \in Source
        BY <1>7 DEF PersistPrepared, TypeInv
    <2>2. CallTyped /\ faults' \in 0..MaxFaults
        BY <1>0, <1>7, <2>1, RaiseType, GotoType, FaultType DEF PersistPrepared, Points, Stages
    <2> QED BY <1>7, <2>1, <2>2 DEF PersistPrepared, TypeInv, TypeOK, CallTyped
<1>8. CASE Recheck
    <2>1. task \in Source
        BY <1>8 DEF Recheck, TypeInv
    <2>2. CallTyped
        BY <1>8, <2>1, RaiseType, GotoType DEF Recheck, Points, Stages
    <2> QED BY <1>0, <1>8, <2>2, FaultType, SameFiles DEF Recheck
<1>9. CASE SaveCheckpoint
    <2>1. task \in Source /\ task.state \in ObservationState
        BY <1>9 DEF SaveCheckpoint, TypeInv, Source
    <2>2. CallTyped /\ faults' \in 0..MaxFaults
        BY <1>0, <1>9, <2>1, RaiseType, GotoType, FaultType DEF SaveCheckpoint, Points, Stages
    <2>3. checkpoint' \in Witness
        BY <1>9, <2>1, CompleteIsWitness DEF SaveCheckpoint
    <2> QED BY <1>9, <2>1, <2>2, <2>3 DEF SaveCheckpoint, TypeInv, TypeOK, CallTyped
<1>10. CASE PersistAccepted
    <2>1. task \in Source /\ [source |-> task, state |-> task.state] \in AcceptedRecord
        BY <1>10 DEF PersistAccepted, TypeInv, Source, AcceptedRecord
    <2>2. CallTyped /\ faults' \in 0..MaxFaults
        BY <1>0, <1>10, <2>1, RaiseType, GotoType, FaultType DEF PersistAccepted, Points, Stages
    <2> QED BY <1>10, <2>1, <2>2 DEF PersistAccepted, TypeInv, TypeOK, CallTyped
<1>11. CASE PersistDecision
    <2>1. task \in Source
        BY <1>11 DEF PersistDecision, TypeInv
    <2>2. [source |-> task, reason |-> CandidateReason(task)] \in DecisionRecord
        BY <2>1, CandidateReasonType DEF DecisionRecord
    <2>3. CallTyped
        BY <1>11, <2>1, RaiseType, GotoType, FinishType DEF PersistDecision, Points, Stages
    <2>4. faults' \in 0..MaxFaults
        BY <1>0, <1>11, FaultType DEF PersistDecision
    <2>5. decisions' \subseteq DecisionRecord
        BY <1>0, <1>11, <2>2 DEF PersistDecision, TypeOK
    <2> QED BY <1>11, <2>3, <2>4, <2>5 DEF PersistDecision, TypeInv, TypeOK, CallTyped
<1>12. CASE PersistPending
    <2>1. task \in Source
        BY <1>12 DEF PersistPending, TypeInv
    <2>2. [source |-> task, candidate |-> task.state] \in PendingRecord
        BY <2>1 DEF PendingRecord, Source
    <2>3. CallTyped
        BY <1>12, <2>1, RaiseType, FinishType DEF PersistPending, Stages
    <2>4. faults' \in 0..MaxFaults
        BY <1>0, <1>12, FaultType DEF PersistPending
    <2>5. pending' \subseteq PendingRecord
        BY <1>0, <1>12, <2>2 DEF PersistPending, TypeOK
    <2> QED BY <1>12, <2>3, <2>4, <2>5 DEF PersistPending, TypeInv, TypeOK, CallTyped
<1>13. CASE OverwritePlain
    <2>1. task \in Source /\ task.state \in ObservationState
        BY <1>13 DEF OverwritePlain, TypeInv, Source
    <2>2. CallTyped /\ faults' \in 0..MaxFaults
        BY <1>0, <1>13, ReturnType, ReportTypes, RaiseType, FaultType DEF OverwritePlain, Stages
    <2>3. checkpoint' \in Witness
        BY <1>13, <2>1, CompleteIsWitness DEF OverwritePlain
    <2> QED BY <1>13, <2>1, <2>2, <2>3 DEF OverwritePlain, TypeInv, TypeOK, CallTyped
<1>14. CASE PreparationFails
    BY <1>0, <1>14, RaiseType, FaultType, SameFiles DEF PreparationFails, Stages
<1>15. CASE StepFails
    <2>1. CallTyped
        BY <1>15, FailureTypes, ReturnType DEF StepFails
    <2> QED BY <1>0, <1>15, <2>1, FaultType, SameFiles DEF StepFails
<1>16. CASE Crash
    BY <1>0, <1>16, ReturnType, ReportTypes, FaultType, SameFiles DEF Crash
<1>17. CASE Upgrade
    BY <1>17 DEF Upgrade, TypeInv, TypeOK, durable
<1>18. CASE BeginPlain
    BY <1>18, ReportTypes, DeliveryAssumption DEF BeginPlain, TypeInv, TypeOK, Points, durable
<1>19. CASE UNCHANGED vars
    BY <1>19 DEF vars, durable, TypeInv, TypeOK
<1> QED
    BY <1>1, <1>2, <1>3, <1>4, <1>5, <1>6, <1>7, <1>8, <1>9, <1>10, <1>11, <1>12, <1>13,
       <1>14, <1>15, <1>16, <1>17, <1>18, <1>19 DEF Next, OwnerStep

\* The initial states have the types.
LEMMA TypeInit == Init => TypeInv
BY DeliveryAssumption, ReportTypes DEF Init, TypeInv, TypeOK, Points

\* Whatever fails or dies, in whatever order, every file holds a value of its
\* kind and the call is at one of its points: no step writes or resumes from
\* something the code could not have built.
THEOREM TypeCorrect == Spec => []TypeOK
<1>1. TypeInv => TypeOK
    BY DEF TypeInv
<1> QED BY <1>1, TypeInit, TypeStep, PTL DEF Spec

-----------------------------------------------------------------------------
(* What is outstanding *)

\* An eligible source is exactly one the evaluator calls eligible.
LEMMA EligibleReason ==
    ASSUME NEW s
    PROVE  CandidateReason(s) = "ELIGIBLE" <=> Eligible(s)
BY DEF CandidateReason, Eligible

\* On a coherent inventory the store's is_resolved tells what the records say.
LEMMA UnresolvedIsOutstanding ==
    ASSUME TypeOK, LinksCoherent
    PROVE  Unresolved = Outstanding
<1> SUFFICES ASSUME NEW s \in prepared
             PROVE  IsResolved(s) <=>
                        /\ \E a \in accepted : a.source = s
                        /\ [source |-> s, reason |-> CandidateReason(s)] \in decisions
                        /\ Eligible(s) => [source |-> s, candidate |-> s.state] \in pending
    BY DEF Unresolved, Outstanding
<1>1. \A d \in decisions : d.source = s =>
          d = [source |-> s, reason |-> CandidateReason(s)]
    BY DEF TypeOK, DecisionRecord, LinksCoherent
<1>2. \A p \in pending : p.source = s /\ p.candidate = s.state =>
          p = [source |-> s, candidate |-> s.state]
    BY DEF TypeOK, PendingRecord
<1>3. CandidateReason(s) = "ELIGIBLE" <=> Eligible(s)
    BY EligibleReason
<1>4. ASSUME IsResolved(s)
      PROVE  /\ \E a \in accepted : a.source = s
             /\ [source |-> s, reason |-> CandidateReason(s)] \in decisions
             /\ Eligible(s) => [source |-> s, candidate |-> s.state] \in pending
    <2>1. PICK d \in decisions :
             d.source = s /\ (d.reason = "ELIGIBLE" =>
                                 \E p \in pending : p.source = s /\ p.candidate = s.state)
        BY <1>4 DEF IsResolved
    <2>2. d = [source |-> s, reason |-> CandidateReason(s)]
        BY <1>1, <2>1
    <2>3. d.reason = CandidateReason(s)
        BY <2>2
    <2> QED BY <1>2, <1>3, <1>4, <2>1, <2>2, <2>3 DEF IsResolved, IsAccepted
<1>5. ASSUME /\ \E a \in accepted : a.source = s
             /\ [source |-> s, reason |-> CandidateReason(s)] \in decisions
             /\ Eligible(s) => [source |-> s, candidate |-> s.state] \in pending
      PROVE  IsResolved(s)
    <2> DEFINE d == [source |-> s, reason |-> CandidateReason(s)]
               p == [source |-> s, candidate |-> s.state]
    <2>1. d.source = s /\ d.reason = CandidateReason(s)
        OBVIOUS
    <2>2. p.source = s /\ p.candidate = s.state
        OBVIOUS
    <2> QED BY <1>3, <1>5, <2>1, <2>2 DEF IsResolved, IsAccepted
<1> QED BY <1>4, <1>5

\* Records are only ever added, so a source never becomes outstanding again.
LEMMA RecordsSettle ==
    ASSUME prepared' = prepared,
           accepted \subseteq accepted', decisions \subseteq decisions',
           pending \subseteq pending'
    PROVE  Outstanding' \subseteq Outstanding
BY DEF Outstanding

-----------------------------------------------------------------------------
(* The inductive invariant *)

FileInv ==
    /\ LinksCoherent /\ SingleUnresolved
    /\ VisibleWasPublished /\ NoPhantomAcceptance
    /\ plain = 0 => Reconcilable

ReportInv == (mode # "plain" => DenialIsTrue) /\ SavedIsSettled

\* The parts a step has to keep once the types are dealt with.
Kept == CallInv' /\ TaskInv' /\ FileInv' /\ ReportInv'

\* The inductive invariant, grouped by what an action has to re-establish.
LEMMA InductiveParts ==
    /\ Inductive <=> TypeOK /\ CallInv /\ TaskInv /\ FileInv /\ ReportInv
    /\ Inductive => TypeInv
BY DEF Inductive, FileInv, ReportInv, TypeInv, TaskInv

\* A step that leaves the files alone leaves what they say alone.
LEMMA SameOutstanding ==
    ASSUME UNCHANGED durable
    PROVE  Outstanding' = Outstanding
BY DEF durable, Outstanding

\* A step that leaves the files alone keeps whatever speaks of the files only.
LEMMA FilesKept ==
    ASSUME FileInv, UNCHANGED durable, plain' = plain
    PROVE  FileInv'
BY DEF FileInv, durable, LinksCoherent, IsAccepted, SingleUnresolved, Outstanding,
       VisibleWasPublished, NoPhantomAcceptance, Reconcilable

\* A call that ends without touching a file keeps the invariant.
LEMMA ReturnKept ==
    ASSUME CallInv, NEW r, Return(r), UNCHANGED <<mode, plain>>
    PROVE  CallInv' /\ TaskInv'
BY DEF Return, CallInv, TaskInv

\* Neither an error that admits publication nor silence can be a wrong report.
LEMMA HarmlessReport ==
    ASSUME \/ report' = NoReport \/ report' = NotAdvanced
           \/ \E stage : report' = Error(stage, TRUE)
    PROVE  ReportInv'
<1>1. CASE report' = NoReport \/ report' = NotAdvanced
    <2>1. report'.result \in {"NONE", "NOT_ADVANCED"}
        BY <1>1 DEF NoReport, NotAdvanced
    <2> QED BY <2>1 DEF ReportInv, DenialIsTrue, SavedIsSettled
<1>2. CASE \E stage : report' = Error(stage, TRUE)
    <2>1. report'.result = "ERROR" /\ report'.mayBePublished = TRUE
        BY <1>2 DEF Error
    <2> QED BY <2>1 DEF ReportInv, DenialIsTrue, SavedIsSettled
<1> QED BY <1>1, <1>2

\* An error that denies publication is right when nothing outstanding is visible.
LEMMA RightDenial ==
    ASSUME NEW stage, report' = Error(stage, FALSE),
           mode' # "plain" => \A s \in Outstanding' : checkpoint' # Complete(s.state)
    PROVE  ReportInv'
<1>1. report'.result = "ERROR"
    BY DEF Error
<1> QED BY <1>1 DEF ReportInv, DenialIsTrue, SavedIsSettled

\* The errors of a failed step: only before the save do they deny publication.
LEMMA FailureKinds ==
    ASSUME NEW point, NEW r \in FailuresAt(point)
    PROVE  \/ \E stage : r = Error(stage, TRUE)
           \/ point \in {"admitting", "rechecking", "preparing"}
              /\ \E stage : r = Error(stage, FALSE)
BY DEF FailuresAt

\* Before the save, nothing outstanding can be the visible checkpoint.
LEMMA NotYetVisible ==
    ASSUME Inductive, pc \in {"admitting", "preparing", "rechecking"}
    PROVE  \A s \in Outstanding : checkpoint # Complete(s.state)
<1>1. CallInv /\ TaskInv /\ LinksCoherent
    BY DEF Inductive
<1>2. CASE pc \in {"admitting", "preparing"}
    BY <1>1, <1>2 DEF CallInv, TaskInv
<1>3. CASE pc = "rechecking"
    <2>1. Outstanding \subseteq {task} /\ task \in prepared /\ checkpoint = task.predecessor
        BY <1>1, <1>3 DEF TaskInv
    <2>2. ValidPrepared(task)
        BY <1>1, <2>1 DEF LinksCoherent
    <2> QED BY <2>1, <2>2 DEF ValidPrepared
<1> QED BY <1>2, <1>3

-----------------------------------------------------------------------------
(* Steps that change no file *)

\* Starting a call keeps it: an idle owner has nothing in hand.
LEMMA BeginStep == Inductive /\ Begin => Kept
<1> SUFFICES ASSUME Inductive, Begin PROVE Kept
    OBVIOUS
<1>1. FileInv /\ UNCHANGED durable /\ plain' = plain
    BY InductiveParts DEF Begin
<1>2. FileInv'
    BY <1>1, FilesKept
<1>3. ReportInv'
    BY HarmlessReport DEF Begin
<1>4. CallInv' /\ TaskInv'
    BY DEF Begin, CallInv, TaskInv
<1> QED BY <1>2, <1>3, <1>4 DEF Kept

\* The scan hands over the one outstanding source, or proves there is none.
LEMMA FindUnresolvedStep == Inductive /\ FindUnresolved => Kept
<1> SUFFICES ASSUME Inductive, FindUnresolved PROVE Kept
    OBVIOUS
<1>1. TypeOK /\ CallInv /\ TaskInv /\ FileInv /\ pc = "recovering"
    BY InductiveParts DEF FindUnresolved
<1>2. UNCHANGED durable /\ UNCHANGED <<mode, plain>>
    BY DEF FindUnresolved
<1>3. FileInv' /\ Outstanding' = Outstanding
    BY <1>1, <1>2, FilesKept, SameOutstanding
<1>4. CASE Raise("RECOVERY", TRUE)
    <2>1. Return(Error("RECOVERY", TRUE)) /\ report' = Error("RECOVERY", TRUE)
        BY <1>4 DEF Raise, Return
    <2>2. ReportInv'
        BY <2>1, HarmlessReport
    <2> QED BY <1>1, <1>2, <1>3, <2>1, <2>2, ReturnKept DEF Kept
<1>5. CASE ~Raise("RECOVERY", TRUE)
    <2>1. report' = NoReport /\ UNCHANGED mode /\ mode # "plain"
        BY <1>1, <1>2, <1>5 DEF FindUnresolved, CallInv
    <2>2. Unresolved = Outstanding /\ SingleUnresolved
        BY <1>1, UnresolvedIsOutstanding DEF FileInv
    <2>3. ReportInv'
        BY <2>1, HarmlessReport
    <2>4. CASE Unresolved = {} /\ pc' = "evaluating"
        BY <1>2, <1>3, <2>1, <2>2, <2>3, <2>4 DEF Kept, CallInv, TaskInv
    <2>5. CASE \E s \in Unresolved : task' = s /\ pc' = "reconciling"
        <3>1. PICK s \in Outstanding : task' = s /\ pc' = "reconciling"
            BY <2>2, <2>5
        <3>2. s \in prepared /\ s \in Source /\ Outstanding \subseteq {s}
            BY <1>1, <2>2, <3>1 DEF SingleUnresolved, Outstanding, TypeOK
        <3>3. prepared' = prepared
            BY <1>2 DEF durable
        <3> QED BY <1>2, <1>3, <2>1, <2>3, <3>1, <3>2, <3>3 DEF Kept, CallInv, TaskInv
    <2> QED BY <1>5, <2>4, <2>5 DEF FindUnresolved
<1> QED BY <1>4, <1>5

\* The recovery cases hand over a source that is at its predecessor or visible.
LEMMA ReconcileStep == Inductive /\ Reconcile => Kept
<1> SUFFICES ASSUME Inductive, Reconcile PROVE Kept
    OBVIOUS
<1>1. TypeOK /\ CallInv /\ TaskInv /\ FileInv /\ pc = "reconciling"
    BY InductiveParts DEF Reconcile
<1>2. UNCHANGED durable /\ UNCHANGED <<mode, plain>>
    BY DEF Reconcile
<1>3. FileInv' /\ Outstanding' = Outstanding
    BY <1>1, <1>2, FilesKept, SameOutstanding
<1>4. mode # "plain" /\ report = NoReport /\ task \in prepared /\ task \in Source
      /\ Outstanding \subseteq {task}
    BY <1>1 DEF CallInv, TaskInv
<1>5. CASE Resolution(task) = "refused"
    <2>1. Return(Error("RECOVERY", TRUE)) /\ report' = Error("RECOVERY", TRUE)
        BY <1>5 DEF Reconcile, Raise, Return
    <2>2. ReportInv'
        BY <2>1, HarmlessReport
    <2> QED BY <1>1, <1>2, <1>3, <2>1, <2>2, ReturnKept DEF Kept
<1>6. CASE Resolution(task) # "refused"
    <2>1. Goto(Resolution(task))
        BY <1>6 DEF Reconcile
    <2>2. \/ pc' = "accepting" /\ checkpoint = Complete(task.state)
          \/ pc' = "saving" /\ checkpoint = task.predecessor
        BY <1>6, <2>1 DEF Resolution, Goto
    <2>3. task' = task /\ report' = NoReport /\ prepared' = prepared /\ checkpoint' = checkpoint
        BY <1>2, <1>4, <2>1 DEF Goto, durable
    <2>4. ReportInv'
        BY <2>3, HarmlessReport
    <2> QED BY <1>2, <1>3, <1>4, <2>2, <2>3, <2>4 DEF Kept, CallInv, TaskInv
<1> QED BY <1>5, <1>6

\* A result that does not advance touches nothing.
LEMMA EvaluateWithoutAdvancingStep == Inductive /\ EvaluateWithoutAdvancing => Kept
<1> SUFFICES ASSUME Inductive, EvaluateWithoutAdvancing PROVE Kept
    OBVIOUS
<1>1. CallInv /\ FileInv /\ UNCHANGED durable /\ UNCHANGED <<mode, plain>>
      /\ Return(NotAdvanced) /\ report' = NotAdvanced
    BY InductiveParts DEF EvaluateWithoutAdvancing, Return
<1> QED BY <1>1, FilesKept, ReturnKept, HarmlessReport DEF Kept

\* Neither does a preparation that raises; nothing is outstanding at that point.
LEMMA PreparationFailsStep == Inductive /\ PreparationFails => Kept
<1> SUFFICES ASSUME Inductive, PreparationFails PROVE Kept
    OBVIOUS
<1>1. CallInv /\ TaskInv /\ FileInv /\ UNCHANGED durable /\ UNCHANGED <<mode, plain>>
      /\ Return(Error("PREPARATION", FALSE)) /\ report' = Error("PREPARATION", FALSE)
      /\ pc = "evaluating"
    BY InductiveParts DEF PreparationFails, Return, Raise
<1>2. mode' # "plain" => Outstanding' = {}
    BY <1>1, SameOutstanding DEF TaskInv
<1>3. ReportInv'
    BY <1>1, <1>2, RightDenial
<1> QED BY <1>1, <1>3, FilesKept, ReturnKept DEF Kept

\* The proposal starts from the checkpoint the owner has just read.
LEMMA EvaluateAndPrepareStep == Inductive /\ TypeInv' /\ EvaluateAndPrepare => Kept
<1> SUFFICES ASSUME Inductive, TypeInv', EvaluateAndPrepare PROVE Kept
    OBVIOUS
<1>1. CallInv /\ TaskInv /\ FileInv /\ UNCHANGED durable /\ plain' = plain
      /\ report' = report /\ pc = "evaluating"
    BY InductiveParts DEF EvaluateAndPrepare
<1>2. FileInv' /\ Outstanding' = Outstanding
    BY <1>1, FilesKept, SameOutstanding
<1>3. report' = NoReport
    BY <1>1 DEF CallInv
<1>4. ReportInv'
    BY <1>3, HarmlessReport
<1>5. \/ mode = "plain" /\ mode' = "plain" /\ pc' = "overwriting"
      \/ mode # "plain" /\ mode' = "publish" /\ pc' = "admitting"
    BY DEF EvaluateAndPrepare
<1>6. task'.predecessor = checkpoint /\ checkpoint' = checkpoint
    BY <1>1 DEF EvaluateAndPrepare, Proposal, durable
<1>7. task' \in Source
    BY <1>5 DEF TypeInv
<1>8. CallInv'
    BY <1>1, <1>3, <1>5 DEF CallInv
<1>9. TaskInv'
    BY <1>1, <1>2, <1>5, <1>6, <1>7 DEF TaskInv
<1> QED BY <1>2, <1>4, <1>8, <1>9 DEF Kept

\* Admission validates the proposal before it becomes durable.
LEMMA AdmitStep == Inductive /\ Admit => Kept
<1> SUFFICES ASSUME Inductive, Admit PROVE Kept
    OBVIOUS
<1>1. TypeOK /\ CallInv /\ TaskInv /\ FileInv /\ pc = "admitting"
    BY InductiveParts DEF Admit
<1>2. UNCHANGED durable /\ UNCHANGED <<mode, plain>>
    BY DEF Admit
<1>3. FileInv' /\ Outstanding' = Outstanding
    BY <1>1, <1>2, FilesKept, SameOutstanding
<1>4. mode # "plain" /\ report = NoReport /\ Outstanding = {} /\ task \in Source
      /\ checkpoint = task.predecessor
    BY <1>1 DEF CallInv, TaskInv
<1>5. ASSUME NEW stage, Raise(stage, FALSE)
      PROVE  Kept
    <2>1. Return(Error(stage, FALSE)) /\ report' = Error(stage, FALSE)
        BY <1>5 DEF Raise, Return
    <2>2. ReportInv'
        BY <1>3, <1>4, <2>1, RightDenial
    <2> QED BY <1>1, <1>2, <1>3, <2>1, <2>2, ReturnKept DEF Kept
<1>6. CASE ValidPrepared(task) /\ Goto("preparing")
    <2>1. pc' = "preparing" /\ task' = task /\ report' = NoReport /\ checkpoint' = checkpoint
        BY <1>2, <1>4, <1>6 DEF Goto, durable
    <2>2. ReportInv'
        BY <2>1, HarmlessReport
    <2> QED BY <1>2, <1>3, <1>4, <1>6, <2>1, <2>2 DEF Kept, CallInv, TaskInv
<1> QED BY <1>5, <1>6 DEF Admit

\* The second look at the checkpoint finds the predecessor.
LEMMA RecheckStep == Inductive /\ Recheck => Kept
<1> SUFFICES ASSUME Inductive, Recheck PROVE Kept
    OBVIOUS
<1>1. CallInv /\ TaskInv /\ FileInv /\ pc = "rechecking"
    BY InductiveParts DEF Recheck
<1>2. UNCHANGED durable /\ UNCHANGED <<mode, plain>>
    BY DEF Recheck
<1>3. FileInv' /\ Outstanding' = Outstanding
    BY <1>1, <1>2, FilesKept, SameOutstanding
<1>4. checkpoint = task.predecessor /\ task \in prepared /\ task \in Source
      /\ Outstanding \subseteq {task} /\ report = NoReport /\ mode # "plain"
    BY <1>1 DEF TaskInv, CallInv
<1>5. pc' = "saving" /\ task' = task /\ report' = NoReport /\ UNCHANGED <<checkpoint, prepared>>
    BY <1>2, <1>4 DEF Recheck, Goto, durable
<1>6. ReportInv'
    BY <1>5, HarmlessReport
<1> QED BY <1>2, <1>3, <1>4, <1>5, <1>6 DEF Kept, CallInv, TaskInv

\* A failed step reports an error that denies publication only where nothing
\* outstanding is visible.
LEMMA StepFailsStep == Inductive /\ StepFails => Kept
<1> SUFFICES ASSUME Inductive, StepFails PROVE Kept
    OBVIOUS
<1>1. CallInv /\ FileInv /\ UNCHANGED durable /\ UNCHANGED <<mode, plain>>
    BY InductiveParts DEF StepFails
<1>2. PICK r \in FailuresAt(pc) : Return(r)
    BY DEF StepFails
<1>3. report' = r /\ checkpoint' = checkpoint /\ Outstanding' = Outstanding
    BY <1>1, <1>2, SameOutstanding DEF Return, durable
<1>4. CASE \E stage : r = Error(stage, TRUE)
    BY <1>1, <1>2, <1>3, <1>4, HarmlessReport, FilesKept, ReturnKept DEF Kept
<1>5. CASE pc \in {"admitting", "rechecking", "preparing"} /\ \E stage : r = Error(stage, FALSE)
    <2>1. \A s \in Outstanding : checkpoint # Complete(s.state)
        BY <1>5, NotYetVisible
    <2>2. ReportInv'
        BY <1>3, <1>5, <2>1, RightDenial
    <2> QED BY <1>1, <1>2, <2>2, FilesKept, ReturnKept DEF Kept
<1> QED BY <1>2, <1>4, <1>5, FailureKinds

\* A crash forgets the call; the files keep the invariant.
LEMMA CrashStep == Inductive /\ Crash => Kept
<1> SUFFICES ASSUME Inductive, Crash PROVE Kept
    OBVIOUS
<1>1. CallInv /\ FileInv /\ UNCHANGED durable /\ UNCHANGED <<mode, plain>>
      /\ Return(NoReport) /\ report' = NoReport
    BY InductiveParts DEF Crash, Return
<1> QED BY <1>1, FilesKept, ReturnKept, HarmlessReport DEF Kept

\* Neither the revision of the build nor the fault count is part of it.
LEMMA QuietStep ==
    ASSUME Inductive, UNCHANGED <<durable, pc, mode, task, report, plain>>
    PROVE  Kept
<1>1. CallInv /\ TaskInv /\ FileInv /\ ReportInv
    BY InductiveParts
<1>2. FileInv' /\ Outstanding' = Outstanding
    BY <1>1, FilesKept, SameOutstanding
<1>3. CallInv'
    BY <1>1 DEF CallInv
<1>4. TaskInv'
    BY <1>1, <1>2 DEF TaskInv, IsAccepted, durable
<1>5. ReportInv'
    BY <1>1, <1>2 DEF ReportInv, DenialIsTrue, SavedIsSettled, durable
<1> QED BY <1>2, <1>3, <1>4, <1>5 DEF Kept

\* An uncoordinated call is counted before it can overwrite anything.
LEMMA BeginPlainStep == Inductive /\ BeginPlain => Kept
<1> SUFFICES ASSUME Inductive, BeginPlain PROVE Kept
    OBVIOUS
<1>1. TypeOK /\ FileInv /\ UNCHANGED durable
    BY InductiveParts DEF BeginPlain
<1>2. plain' > 0 /\ plain' # 0
    BY <1>1, DeliveryAssumption DEF TypeOK, BeginPlain
<1>3. FileInv'
    <2>1. (LinksCoherent /\ SingleUnresolved /\ VisibleWasPublished /\ NoPhantomAcceptance)'
        BY <1>1 DEF FileInv, durable, LinksCoherent, IsAccepted, SingleUnresolved,
           Outstanding, VisibleWasPublished, NoPhantomAcceptance
    <2> QED BY <1>2, <2>1 DEF FileInv
<1>4. ReportInv'
    BY HarmlessReport DEF BeginPlain
<1>5. CallInv' /\ TaskInv'
    BY <1>2 DEF BeginPlain, CallInv, TaskInv
<1> QED BY <1>3, <1>4, <1>5 DEF Kept

-----------------------------------------------------------------------------
(* Steps that write a file *)

\* A prepared record: the only source that can now be outstanding is the new
\* one, which is not the checkpoint and, unless it recurs, not accepted.
LEMMA PersistPreparedStep == Inductive /\ PersistPrepared => Kept
<1> SUFFICES ASSUME Inductive, PersistPrepared PROVE Kept
    OBVIOUS
<1>1. TypeOK /\ CallInv /\ TaskInv /\ FileInv /\ pc = "preparing"
    BY InductiveParts DEF PersistPrepared
<1>2. mode # "plain" /\ report = NoReport /\ Outstanding = {} /\ task \in Source
      /\ checkpoint = task.predecessor /\ ValidPrepared(task)
    BY <1>1 DEF CallInv, TaskInv
<1>3. /\ prepared' = prepared \cup {task}
      /\ UNCHANGED <<checkpoint, accepted, decisions, pending, published, mode, plain>>
    BY DEF PersistPrepared
<1>4. checkpoint # Complete(task.state)
    BY <1>2 DEF ValidPrepared
<1>5. Outstanding' \subseteq {task}
    BY <1>2, <1>3 DEF Outstanding
<1>6. FileInv'
    <2>1. LinksCoherent'
        BY <1>1, <1>2, <1>3 DEF FileInv, LinksCoherent, IsAccepted
    <2>2. SingleUnresolved'
        BY <1>5 DEF SingleUnresolved
    <2>3. VisibleWasPublished'
        BY <1>1, <1>3, <1>4 DEF FileInv, VisibleWasPublished
    <2>4. NoPhantomAcceptance'
        BY <1>1, <1>3 DEF FileInv, NoPhantomAcceptance, IsAccepted
    <2>5. task \in Outstanding' => \A a \in accepted : a.source # task
        <3>1. CASE task \in prepared
            <4>1. prepared' = prepared
                BY <1>3, <3>1
            <4>2. Outstanding' = {}
                BY <1>2, <1>3, <4>1, RecordsSettle
            <4> QED BY <4>2
        <3>2. CASE task \notin prepared
            BY <1>1, <3>2 DEF FileInv, LinksCoherent
        <3> QED BY <3>1, <3>2
    <2>6. Reconcilable'
        <3> SUFFICES ASSUME NEW s \in Outstanding'
                     PROVE  /\ s.predecessor # Complete(s.state)
                            /\ checkpoint = s.predecessor
                            /\ \A a \in accepted : a.source # s
            BY <1>3 DEF Reconcilable, IsAccepted
        <3>1. s = task
            BY <1>5
        <3> QED BY <1>2, <1>4, <2>5, <3>1
    <2> QED BY <2>1, <2>2, <2>3, <2>4, <2>6 DEF FileInv
<1>7. CASE Goto("rechecking")
    <2>1. pc' = "rechecking" /\ task' = task /\ report' = NoReport
        BY <1>2, <1>7 DEF Goto
    <2>2. ReportInv'
        BY <2>1, HarmlessReport
    <2> QED BY <1>2, <1>3, <1>5, <1>6, <2>1, <2>2 DEF Kept, CallInv, TaskInv
<1>8. CASE Raise("PREPARED", FALSE)
    <2>1. Return(Error("PREPARED", FALSE)) /\ report' = Error("PREPARED", FALSE)
        BY <1>8 DEF Raise, Return
    <2>2. ReportInv'
        BY <1>3, <1>4, <1>5, <2>1, RightDenial
    <2> QED BY <1>1, <1>3, <1>6, <2>1, <2>2, ReturnKept DEF Kept
<1> QED BY <1>7, <1>8 DEF PersistPrepared

\* The save: what becomes visible is the one source that is outstanding.
LEMMA SaveCheckpointStep == Inductive /\ SaveCheckpoint => Kept
<1> SUFFICES ASSUME Inductive, SaveCheckpoint PROVE Kept
    OBVIOUS
<1>1. CallInv /\ TaskInv /\ FileInv /\ pc = "saving"
    BY InductiveParts DEF SaveCheckpoint
<1>2. mode # "plain" /\ report = NoReport /\ task \in prepared /\ task \in Source
      /\ Outstanding \subseteq {task}
    BY <1>1 DEF CallInv, TaskInv
<1>3. /\ checkpoint' = Complete(task.state) /\ published' = published \cup {task.state}
      /\ UNCHANGED <<prepared, accepted, decisions, pending, mode, plain>>
    BY DEF SaveCheckpoint
<1>4. Outstanding' = Outstanding
    BY <1>3 DEF Outstanding
<1>5. FileInv'
    <2>1. LinksCoherent' /\ SingleUnresolved'
        BY <1>1, <1>3, <1>4 DEF FileInv, LinksCoherent, IsAccepted, SingleUnresolved
    <2>2. VisibleWasPublished'
        BY <1>1, <1>3, CompleteIsInjective DEF FileInv, VisibleWasPublished
    <2>3. NoPhantomAcceptance'
        BY <1>1, <1>3 DEF FileInv, NoPhantomAcceptance, IsAccepted
    <2>4. ValidPrepared(task)
        BY <1>1, <1>2 DEF FileInv, LinksCoherent
    <2>5. task.predecessor # Complete(task.state)
        BY <2>4 DEF ValidPrepared
    <2>6. Reconcilable'
        BY <1>2, <1>3, <1>4, <2>5 DEF Reconcilable
    <2> QED BY <2>1, <2>2, <2>3, <2>6 DEF FileInv
<1>6. CASE Goto("accepting")
    <2>1. pc' = "accepting" /\ task' = task /\ report' = NoReport
        BY <1>2, <1>6 DEF Goto
    <2>2. ReportInv'
        BY <2>1, HarmlessReport
    <2> QED BY <1>2, <1>3, <1>4, <1>5, <2>1, <2>2 DEF Kept, CallInv, TaskInv
<1>7. CASE Raise("CHECKPOINT", TRUE)
    <2>1. Return(Error("CHECKPOINT", TRUE)) /\ report' = Error("CHECKPOINT", TRUE)
        BY <1>7 DEF Raise, Return
    <2>2. ReportInv'
        BY <2>1, HarmlessReport
    <2> QED BY <1>1, <1>3, <1>5, <2>1, <2>2, ReturnKept DEF Kept
<1> QED BY <1>6, <1>7 DEF SaveCheckpoint

\* Once the source in hand is the checkpoint, completing it keeps what holds of
\* the others: it alone may be outstanding, and it is visible.
LEMMA CompletionReconcilable ==
    ASSUME FileInv, task \in prepared, Outstanding' \subseteq {task}, prepared' = prepared,
           checkpoint' = checkpoint, checkpoint = Complete(task.state)
    PROVE  SingleUnresolved' /\ Reconcilable'
<1>1. ValidPrepared(task)
    BY DEF FileInv, LinksCoherent
<1>2. task.predecessor # Complete(task.state)
    BY <1>1 DEF ValidPrepared
<1> QED BY <1>2 DEF SingleUnresolved, Reconcilable

\* The acceptance is of the visible, prepared source.
LEMMA PersistAcceptedStep == Inductive /\ PersistAccepted => Kept
<1> SUFFICES ASSUME Inductive, PersistAccepted PROVE Kept
    OBVIOUS
<1>1. CallInv /\ TaskInv /\ FileInv /\ pc = "accepting"
    BY InductiveParts DEF PersistAccepted
<1>2. mode # "plain" /\ report = NoReport /\ task \in prepared /\ task \in Source
      /\ Outstanding \subseteq {task} /\ checkpoint = Complete(task.state)
    BY <1>1 DEF CallInv, TaskInv
<1> DEFINE record == [source |-> task, state |-> task.state]
<1>3. /\ accepted' = accepted \cup {record}
      /\ UNCHANGED <<checkpoint, prepared, decisions, pending, published, mode, plain>>
    BY DEF PersistAccepted
<1>4. record.source = task /\ record.state = task.state
    OBVIOUS
<1> HIDE DEF record
<1>5. Outstanding' \subseteq {task}
    BY <1>2, <1>3, RecordsSettle
<1>6. FileInv'
    <2>1. SingleUnresolved' /\ Reconcilable'
        BY <1>1, <1>2, <1>3, <1>5, CompletionReconcilable
    <2>2. \A s : IsAccepted(s) => IsAccepted(s)'
        BY <1>3 DEF IsAccepted
    <2>3. LinksCoherent'
        BY <1>1, <1>2, <1>3, <1>4, <2>2 DEF FileInv, LinksCoherent
    <2>4. VisibleWasPublished'
        BY <1>1, <1>3 DEF FileInv, VisibleWasPublished
    <2>5. NoPhantomAcceptance'
        BY <1>1, <1>2, <1>3, <1>4, <2>2 DEF FileInv, VisibleWasPublished, NoPhantomAcceptance
    <2> QED BY <2>1, <2>3, <2>4, <2>5 DEF FileInv
<1>7. CASE Goto("deciding")
    <2>1. pc' = "deciding" /\ task' = task /\ report' = NoReport
        BY <1>2, <1>7 DEF Goto
    <2>2. ReportInv'
        BY <2>1, HarmlessReport
    <2>3. \E a \in accepted' : a.source = task
        BY <1>3, <1>4
    <2>4. TaskInv'
        BY <1>2, <1>3, <1>5, <2>1, <2>3 DEF TaskInv, IsAccepted
    <2> QED BY <1>2, <1>3, <1>6, <2>1, <2>2, <2>4 DEF Kept, CallInv
<1>8. CASE Raise("ACCEPTED", TRUE)
    <2>1. Return(Error("ACCEPTED", TRUE)) /\ report' = Error("ACCEPTED", TRUE)
        BY <1>8 DEF Raise, Return
    <2>2. ReportInv'
        BY <2>1, HarmlessReport
    <2> QED BY <1>1, <1>3, <1>6, <2>1, <2>2, ReturnKept DEF Kept
<1> QED BY <1>7, <1>8 DEF PersistAccepted

\* The end of a call that leaves nothing outstanding.
LEMMA FinishKept ==
    ASSUME CallInv, TypeOK, pc \in {"deciding", "enqueuing"}, Finish, FileInv',
           Outstanding' = {}, UNCHANGED <<mode, plain>>
    PROVE  Kept
<1>1. mode # "plain" /\ report = NoReport
    BY DEF CallInv
<1>2. CASE mode = "recover"
    <2>1. pc' = "evaluating" /\ report' = NoReport
        BY <1>1, <1>2 DEF Finish
    <2>2. ReportInv'
        BY <2>1, HarmlessReport
    <2> QED BY <1>1, <2>1, <2>2 DEF Kept, CallInv, TaskInv
<1>3. CASE mode # "recover"
    <2>1. Return(Saved) /\ report' = Saved
        BY <1>3 DEF Finish, Return
    <2>2. report'.result = "SAVED"
        BY <2>1 DEF Saved, NoReport
    <2>3. ReportInv'
        BY <2>2 DEF ReportInv, DenialIsTrue, SavedIsSettled
    <2> QED BY <2>1, <2>3, ReturnKept DEF Kept
<1> QED BY <1>2, <1>3

\* The decision is of the accepted source and states its reason; a negative one
\* settles it.
LEMMA PersistDecisionStep == Inductive /\ PersistDecision => Kept
<1> SUFFICES ASSUME Inductive, PersistDecision PROVE Kept
    OBVIOUS
<1>1. TypeOK /\ CallInv /\ TaskInv /\ FileInv /\ pc = "deciding"
    BY InductiveParts DEF PersistDecision
<1>2. mode # "plain" /\ report = NoReport /\ task \in prepared /\ task \in Source
      /\ Outstanding \subseteq {task} /\ checkpoint = Complete(task.state) /\ IsAccepted(task)
    BY <1>1 DEF CallInv, TaskInv
<1> DEFINE record == [source |-> task, reason |-> CandidateReason(task)]
<1>3. UNCHANGED <<checkpoint, prepared, accepted, pending, published, mode, plain>>
    BY DEF PersistDecision
<1>4. decisions' \in {decisions, decisions \cup {record}}
    BY DEF PersistDecision
<1>5. record.source = task /\ record.reason = CandidateReason(task)
    OBVIOUS
<1>6. Outstanding' \subseteq {task}
    BY <1>2, <1>3, <1>4, RecordsSettle
<1>7. FileInv'
    <2> HIDE DEF record
    <2>1. SingleUnresolved' /\ Reconcilable'
        BY <1>1, <1>2, <1>3, <1>6, CompletionReconcilable
    <2>2. LinksCoherent'
        BY <1>1, <1>2, <1>3, <1>4, <1>5 DEF FileInv, LinksCoherent, IsAccepted
    <2>3. VisibleWasPublished' /\ NoPhantomAcceptance'
        BY <1>1, <1>3 DEF FileInv, VisibleWasPublished, NoPhantomAcceptance, IsAccepted
    <2> QED BY <2>1, <2>2, <2>3 DEF FileInv
<1>8. ASSUME NEW stage, Raise(stage, TRUE)
      PROVE  Kept
    <2>1. Return(Error(stage, TRUE)) /\ report' = Error(stage, TRUE)
        BY <1>8 DEF Raise, Return
    <2>2. ReportInv'
        BY <2>1, HarmlessReport
    <2> QED BY <1>1, <1>3, <1>7, <2>1, <2>2, ReturnKept DEF Kept
<1>9. CASE decisions' = decisions \cup {record} /\ Eligible(task) /\ Goto("enqueuing")
    <2>1. pc' = "enqueuing" /\ task' = task /\ report' = NoReport
        BY <1>2, <1>9 DEF Goto
    <2>2. ReportInv'
        BY <2>1, HarmlessReport
    <2>3. [source |-> task, reason |-> "ELIGIBLE"] \in decisions'
        BY <1>9, EligibleReason
    <2>4. TaskInv'
        BY <1>2, <1>3, <1>6, <1>9, <2>1, <2>3 DEF TaskInv, IsAccepted
    <2> QED BY <1>2, <1>3, <1>7, <2>1, <2>2, <2>4 DEF Kept, CallInv
<1>10. CASE decisions' = decisions \cup {record} /\ ~Eligible(task) /\ Finish
    <2>1. task \notin Outstanding'
        BY <1>2, <1>3, <1>10 DEF Outstanding, IsAccepted
    <2>2. Outstanding' = {}
        BY <1>6, <2>1
    <2> QED BY <1>1, <1>3, <1>7, <1>10, <2>2, FinishKept
<1> QED BY <1>8, <1>9, <1>10 DEF PersistDecision

\* The pending record settles the source in hand.
LEMMA PersistPendingStep == Inductive /\ PersistPending => Kept
<1> SUFFICES ASSUME Inductive, PersistPending PROVE Kept
    OBVIOUS
<1>1. TypeOK /\ CallInv /\ TaskInv /\ FileInv /\ pc = "enqueuing"
    BY InductiveParts DEF PersistPending
<1>2. mode # "plain" /\ report = NoReport /\ task \in prepared /\ task \in Source
      /\ Outstanding \subseteq {task} /\ checkpoint = Complete(task.state) /\ IsAccepted(task)
      /\ Eligible(task) /\ [source |-> task, reason |-> "ELIGIBLE"] \in decisions
    BY <1>1 DEF CallInv, TaskInv
<1> DEFINE record == [source |-> task, candidate |-> task.state]
<1>3. UNCHANGED <<checkpoint, prepared, accepted, decisions, published, mode, plain>>
    BY DEF PersistPending
<1>4. pending' \in {pending, pending \cup {record}}
    BY DEF PersistPending
<1>5. record.source = task /\ record.candidate = task.state
    OBVIOUS
<1>6. Outstanding' \subseteq {task}
    BY <1>2, <1>3, <1>4, RecordsSettle
<1>7. FileInv'
    <2> HIDE DEF record
    <2>1. SingleUnresolved' /\ Reconcilable'
        BY <1>1, <1>2, <1>3, <1>6, CompletionReconcilable
    <2>2. LinksCoherent'
        BY <1>1, <1>2, <1>3, <1>4, <1>5 DEF FileInv, LinksCoherent, IsAccepted
    <2>3. VisibleWasPublished'
        BY <1>1, <1>3 DEF FileInv, VisibleWasPublished
    <2>4. NoPhantomAcceptance'
        BY <1>1, <1>2, <1>3, <1>4, <1>5 DEF FileInv, VisibleWasPublished, NoPhantomAcceptance,
           IsAccepted
    <2> QED BY <2>1, <2>2, <2>3, <2>4 DEF FileInv
<1>8. CASE Raise("PENDING", TRUE)
    <2>1. Return(Error("PENDING", TRUE)) /\ report' = Error("PENDING", TRUE)
        BY <1>8 DEF Raise, Return
    <2>2. ReportInv'
        BY <2>1, HarmlessReport
    <2> QED BY <1>1, <1>3, <1>7, <2>1, <2>2, ReturnKept DEF Kept
<1>9. CASE pending' = pending \cup {record} /\ Finish
    <2>1. CandidateReason(task) = "ELIGIBLE"
        BY <1>2, EligibleReason
    <2>2. task \notin Outstanding'
        BY <1>2, <1>3, <1>9, <2>1 DEF Outstanding, IsAccepted
    <2>3. Outstanding' = {}
        BY <1>6, <2>2
    <2> QED BY <1>1, <1>3, <1>7, <1>9, <2>3, FinishKept
<1> QED BY <1>8, <1>9 DEF PersistPending

\* An uncoordinated overwrite breaks only what is claimed without such calls.
LEMMA OverwritePlainStep == Inductive /\ OverwritePlain => Kept
<1> SUFFICES ASSUME Inductive, OverwritePlain PROVE Kept
    OBVIOUS
<1>1. CallInv /\ FileInv /\ pc = "overwriting"
    BY InductiveParts DEF OverwritePlain
<1>2. mode = "plain" /\ plain > 0 /\ plain # 0
    BY <1>1 DEF CallInv
<1>3. /\ checkpoint' = Complete(task.state) /\ published' = published \cup {task.state}
      /\ UNCHANGED <<prepared, accepted, decisions, pending, mode, plain>>
    BY DEF OverwritePlain
<1>4. FileInv'
    <2>1. Outstanding' = Outstanding
        BY <1>3 DEF Outstanding
    <2>2. LinksCoherent' /\ SingleUnresolved'
        BY <1>1, <1>3, <2>1 DEF FileInv, LinksCoherent, IsAccepted, SingleUnresolved
    <2>3. VisibleWasPublished'
        BY <1>1, <1>3, CompleteIsInjective DEF FileInv, VisibleWasPublished
    <2>4. NoPhantomAcceptance'
        BY <1>1, <1>3 DEF FileInv, NoPhantomAcceptance, IsAccepted
    <2> QED BY <1>2, <1>3, <2>2, <2>3, <2>4 DEF FileInv
<1>5. ReportInv'
    BY <1>2, <1>3 DEF ReportInv, SavedIsSettled
<1>6. CallInv' /\ TaskInv'
    BY <1>1, <1>3, ReturnKept DEF OverwritePlain, Raise
<1> QED BY <1>4, <1>5, <1>6 DEF Kept

-----------------------------------------------------------------------------
(* The invariant, and what follows from it *)

\* The invariant holds with no records.
LEMMA InductiveInit == Init => Inductive
<1> SUFFICES ASSUME Init PROVE Inductive
    OBVIOUS
<1>1. TypeOK
    BY TypeInit DEF TypeInv
<1>2. Outstanding = {}
    BY DEF Init, Outstanding
<1>3. CallInv /\ TaskInv
    BY <1>2 DEF Init, CallInv, TaskInv
<1>4. report.result = "NONE"
    BY DEF Init, NoReport
<1>5. LinksCoherent /\ SingleUnresolved /\ VisibleWasPublished /\ NoPhantomAcceptance
      /\ Reconcilable
    BY <1>2 DEF Init, LinksCoherent, SingleUnresolved, VisibleWasPublished,
       NoPhantomAcceptance, Reconcilable
<1> QED BY <1>1, <1>3, <1>4, <1>5 DEF Inductive, DenialIsTrue, SavedIsSettled

\* Every step keeps the invariant: one case per action.
LEMMA InductiveStep == Inductive /\ [Next]_vars => Inductive'
<1> SUFFICES ASSUME Inductive, [Next]_vars PROVE Inductive'
    OBVIOUS
<1>1. TypeInv'
    BY InductiveParts, TypeStep
<1>2. Kept
    <2>1. CASE OwnerStep
        BY <1>1, <2>1, BeginStep, FindUnresolvedStep, ReconcileStep,
           EvaluateWithoutAdvancingStep, EvaluateAndPrepareStep, AdmitStep,
           PersistPreparedStep, RecheckStep, SaveCheckpointStep, PersistAcceptedStep,
           PersistDecisionStep, PersistPendingStep, OverwritePlainStep DEF OwnerStep
    <2>2. CASE PreparationFails \/ StepFails \/ Crash \/ BeginPlain
        BY <2>2, PreparationFailsStep, StepFailsStep, CrashStep, BeginPlainStep
    <2>3. CASE Upgrade
        BY <2>3, QuietStep DEF Upgrade
    <2>4. CASE UNCHANGED vars
        BY <2>4, QuietStep DEF vars
    <2> QED BY <2>1, <2>2, <2>3, <2>4 DEF Next
<1>3. TypeOK'
    BY <1>1 DEF TypeInv
<1> QED BY <1>2, <1>3 DEF Kept, FileInv, ReportInv, Inductive

\* Inductive ties the call's position to the files: it holds after every
\* failure, crash, upgrade and uncoordinated call, for every bound.
THEOREM InductiveInvariant == Spec => []Inductive
BY InductiveInit, InductiveStep, PTL DEF Spec

\* At most one source publication is ever outstanding, so the scan of an owner
\* never finds the two unresolved sources that it could not repair.
THEOREM OneSourceOutstanding == Spec => []SingleUnresolved
<1>1. Inductive => SingleUnresolved
    BY DEF Inductive
<1> QED BY <1>1, InductiveInvariant, PTL

\* No order of failures, crashes and uncoordinated calls leaves an orphan or a
\* contradiction in the delivery directory, which _verify_links would refuse.
THEOREM InventoryStaysCoherent == Spec => []InventoryCoherent
<1>1. Inductive => InventoryCoherent
    BY DEF Inductive, InventoryCoherent
<1> QED BY <1>1, InductiveInvariant, PTL

\* Nothing is accepted, and no candidate delivered, that was not once the
\* visible checkpoint.
THEOREM OnlyPublishedIsAccepted == Spec => []NoPhantomAcceptance
<1>1. Inductive => NoPhantomAcceptance
    BY DEF Inductive
<1> QED BY <1>1, InductiveInvariant, PTL

\* A coordinated evaluation never runs over outstanding work: recovery has
\* resolved it, or the call has failed before the evaluation.
THEOREM RecoveryComesFirst == Spec => []EvaluationOnlyWhenSettled
<1>1. Inductive => EvaluationOnlyWhenSettled
    BY DEF Inductive, TaskInv, EvaluationOnlyWhenSettled
<1> QED BY <1>1, InductiveInvariant, PTL

\* A coordinated call that reports SAVED owes no record any more.
THEOREM SavedMeansSettled == Spec => []SavedIsSettled
<1>1. Inductive => SavedIsSettled
    BY DEF Inductive
<1> QED BY <1>1, InductiveInvariant, PTL

\* Only the two saves replace the checkpoint.
LEMMA OnlySavesWriteTheCheckpoint ==
    ASSUME Inductive, [Next]_vars, checkpoint' # checkpoint
    PROVE  SaveCheckpoint \/ (OverwritePlain /\ mode = "plain")
BY DEF Inductive, CallInv, Next, OwnerStep, Begin, FindUnresolved, Reconcile,
       EvaluateWithoutAdvancing, EvaluateAndPrepare, Admit, PersistPrepared, Recheck,
       PersistAccepted, PersistDecision, PersistPending, OverwritePlain, PreparationFails,
       StepFails, Crash, Upgrade, BeginPlain, durable, vars

\* A coordinated save replaces exactly the checkpoint its prepared source
\* names, whoever wrote it: it destroys nobody else's observation.
THEOREM SavesAreWriteAhead == Spec => WriteAhead
<1> DEFINE Ahead == checkpoint' # checkpoint /\ mode # "plain" =>
              \E s \in prepared : checkpoint = s.predecessor /\ checkpoint' = Complete(s.state)
<1>1. ASSUME Inductive, [Next]_vars PROVE Ahead
    <2> SUFFICES ASSUME checkpoint' # checkpoint, mode # "plain"
                 PROVE  \E s \in prepared :
                            checkpoint = s.predecessor /\ checkpoint' = Complete(s.state)
        OBVIOUS
    <2>1. SaveCheckpoint
        BY <1>1, OnlySavesWriteTheCheckpoint
    <2>2. task \in prepared /\ checkpoint = task.predecessor
        BY <1>1, <2>1 DEF SaveCheckpoint, Inductive, TaskInv
    <2> QED BY <2>1, <2>2 DEF SaveCheckpoint
<1>2. Inductive /\ [Next]_vars => [Ahead]_vars
    BY <1>1
<1> QED BY <1>2, InductiveInvariant, PTL DEF Spec, WriteAhead

\* Records of the completion are only added for the visible observation.
THEOREM CompletionsAreVisible == Spec => CompletedWhileVisible
<1> DEFINE Visible == /\ \A a \in accepted' \ accepted : checkpoint = Complete(a.state)
                      /\ \A d \in decisions' \ decisions :
                            checkpoint = Complete(d.source.state)
                      /\ \A p \in pending' \ pending : checkpoint = Complete(p.candidate)
<1>1. ASSUME Inductive, [Next]_vars PROVE Visible
    <2> USE <1>1
    <2>1. TaskInv
        BY DEF Inductive
    <2>2. CASE PersistAccepted
        BY <2>1, <2>2 DEF PersistAccepted, TaskInv
    <2>3. CASE PersistDecision
        <3> DEFINE record == [source |-> task, reason |-> CandidateReason(task)]
        <3>1. record.source = task
            OBVIOUS
        <3>2. checkpoint = Complete(task.state) /\ UNCHANGED <<accepted, pending>>
            BY <2>1, <2>3 DEF PersistDecision, TaskInv
        <3>3. decisions' \subseteq decisions \cup {record}
            BY <2>3 DEF PersistDecision
        <3> HIDE DEF record
        <3> QED BY <3>1, <3>2, <3>3
    <2>4. CASE PersistPending
        <3> DEFINE record == [source |-> task, candidate |-> task.state]
        <3>1. record.candidate = task.state
            OBVIOUS
        <3>2. checkpoint = Complete(task.state) /\ UNCHANGED <<accepted, decisions>>
            BY <2>1, <2>4 DEF PersistPending, TaskInv
        <3>3. pending' \subseteq pending \cup {record}
            BY <2>4 DEF PersistPending
        <3> HIDE DEF record
        <3> QED BY <3>1, <3>2, <3>3
    <2>5. CASE ~PersistAccepted /\ ~PersistDecision /\ ~PersistPending
        <3>1. UNCHANGED <<accepted, decisions, pending>>
            BY <2>5 DEF Next, OwnerStep, Begin, FindUnresolved, Reconcile,
               EvaluateWithoutAdvancing, EvaluateAndPrepare, Admit, PersistPrepared, Recheck,
               SaveCheckpoint, OverwritePlain, PreparationFails, StepFails, Crash, Upgrade,
               BeginPlain, durable, vars
        <3> QED BY <3>1
    <2> QED BY <2>2, <2>3, <2>4, <2>5
<1>2. Inductive /\ [Next]_vars => [Visible]_vars
    BY <1>1
<1> QED BY <1>2, InductiveInvariant, PTL DEF Spec, CompletedWhileVisible

-----------------------------------------------------------------------------
(* Without uncoordinated writers *)

\* With MaxPlain = 0 there is never an uncoordinated call.
LEMMA NoPlainCall ==
    ASSUME MaxPlain = 0, Inductive
    PROVE  plain = 0 /\ mode # "plain" /\ Reconcilable /\ DenialIsTrue
<1>1. plain = 0
    BY DEF Inductive, TypeOK
<1> QED BY <1>1 DEF Inductive, CallInv

\* When every call is coordinated, recover's case split is exhaustive: the
\* checkpoint is at the predecessor or the proposal of what is outstanding.
THEOREM AlwaysReconcilable ==
    ASSUME MaxPlain = 0
    PROVE  Spec => []Reconcilable
<1>1. Inductive => Reconcilable
    BY NoPlainCall
<1> QED BY <1>1, InductiveInvariant, PTL

\* When every call is coordinated, an error that denies publication is right.
THEOREM DenialsAreTrue ==
    ASSUME MaxPlain = 0
    PROVE  Spec => []DenialIsTrue
<1>1. Inductive => DenialIsTrue
    BY NoPlainCall
<1> QED BY <1>1, InductiveInvariant, PTL

\* When every call is coordinated, no observation is overwritten before its
\* acceptance, decision and pending work exist.
THEOREM OverwritesWait ==
    ASSUME MaxPlain = 0
    PROVE  Spec => OverwriteInterlock
<1> DEFINE Waits == checkpoint' # checkpoint =>
              \A s \in prepared : checkpoint = Complete(s.state) => s \notin Outstanding
<1>1. ASSUME Inductive, [Next]_vars PROVE Waits
    <2> SUFFICES ASSUME checkpoint' # checkpoint, NEW s \in Outstanding
                 PROVE  checkpoint # Complete(s.state)
        OBVIOUS
    <2>1. SaveCheckpoint
        BY <1>1, NoPlainCall, OnlySavesWriteTheCheckpoint
    <2>2. s = task /\ task \in prepared /\ checkpoint = task.predecessor
        BY <1>1, <2>1 DEF SaveCheckpoint, Inductive, TaskInv
    <2>3. ValidPrepared(task)
        BY <1>1, <2>2 DEF Inductive, LinksCoherent
    <2> QED BY <2>2, <2>3 DEF ValidPrepared
<1>2. Inductive /\ [Next]_vars => [Waits]_vars
    BY <1>1
<1> QED BY <1>2, InductiveInvariant, PTL DEF Spec, OverwriteInterlock

-----------------------------------------------------------------------------
(* With completion times that differ *)

Time(s) == s.state.market.observedAt

\* No two prepared sources were completed at one time, nor was one that is on its
\* way to being prepared.
TimesDiffer ==
    /\ \A s, u \in prepared : Time(s) = Time(u) => s = u
    /\ pc \in {"admitting", "preparing"} => \A s \in prepared : Time(s) # Time(task)

LEMMA TimesDifferStep ==
    ASSUME ClockMayRepeat = FALSE, Inductive, TimesDiffer, [Next]_vars
    PROVE  TimesDiffer'
<1>1. CASE PersistPrepared
    <2>1. pc = "preparing" /\ prepared' = prepared \cup {task}
          /\ pc' \notin {"admitting", "preparing"}
        BY <1>1 DEF PersistPrepared, Goto, Raise, Return
    <2> QED BY <2>1 DEF TimesDiffer
<1>2. CASE EvaluateAndPrepare
    <2>1. PICK asOf \in Times, c \in CurrentContent, stamp \in Stamps, outcome \in CommittedOutcomes :
              FreshStamp(stamp) /\ task' = Proposal(asOf, c, outcome, stamp)
        BY <1>2 DEF EvaluateAndPrepare, Advances
    <2>2. Time(task') = stamp
        BY <2>1 DEF Proposal, Prepare, Time
    <2>3. \A s \in prepared : Time(s) # stamp
        BY <2>1 DEF FreshStamp, Time
    <2>4. prepared' = prepared
        BY <1>2 DEF EvaluateAndPrepare, durable
    <2>5. \A s \in prepared' : Time(s) # Time(task')
        BY <2>2, <2>3, <2>4
    <2> QED BY <2>4, <2>5 DEF TimesDiffer, Time
<1>3. CASE Admit
    <2>1. pc = "admitting" /\ prepared' = prepared
          /\ (pc' = "idle" \/ task' = task)
        BY <1>3 DEF Admit, Goto, Raise, Return, durable
    <2> QED BY <2>1 DEF TimesDiffer, Time
<1>4. CASE ~PersistPrepared /\ ~EvaluateAndPrepare /\ ~Admit
    <2>1. prepared' = prepared
        BY <1>4 DEF Next, OwnerStep, Begin, FindUnresolved, Reconcile,
           EvaluateWithoutAdvancing, Recheck, SaveCheckpoint, PersistAccepted,
           PersistDecision, PersistPending, OverwritePlain, PreparationFails, StepFails,
           Crash, Upgrade, BeginPlain, durable, vars
    <2>2. pc' \notin {"admitting", "preparing"} \/ UNCHANGED <<pc, task>>
        BY <1>4 DEF Next, OwnerStep, Begin, FindUnresolved, Reconcile, Resolution,
           EvaluateWithoutAdvancing, Recheck, SaveCheckpoint, PersistAccepted,
           PersistDecision, PersistPending, OverwritePlain, PreparationFails, StepFails,
           Crash, Upgrade, BeginPlain, vars, Goto, Raise, Return, Finish
    <2> QED BY <2>1, <2>2 DEF TimesDiffer, Time
<1> QED BY <1>1, <1>2, <1>3, <1>4

\* Where no two observations are completed at one time, an uncoordinated one
\* included, no source loses the name of its pending record to another
\* (_filename names it by the candidate alone).
THEOREM NoNameIsLost ==
    ASSUME ClockMayRepeat = FALSE
    PROVE  Spec => []CandidateNameIsFree
<1>1. Init => TimesDiffer
    BY DEF Init, TimesDiffer
<1>2. Inductive /\ TimesDiffer /\ [Next]_vars => TimesDiffer'
    BY TimesDifferStep
<1>3. Inductive /\ TimesDiffer => CandidateNameIsFree
    <2> SUFFICES ASSUME Inductive, TimesDiffer, pc = "enqueuing",
                        NEW p \in pending, p.candidate = task.state
                 PROVE  p.source = task
        BY DEF CandidateNameIsFree
    <2>1. task \in prepared
        BY DEF Inductive, TaskInv
    <2>2. p.source \in prepared /\ p.candidate = p.source.state
        BY DEF Inductive, LinksCoherent
    <2> QED BY <2>1, <2>2 DEF TimesDiffer, Time
<1> QED BY <1>1, <1>2, <1>3, InductiveInvariant, PTL DEF Spec
=============================================================================
