------------------ MODULE RadarCandidateDeliveryRefinement ------------------
(***************************************************************************)
(* The coordinated owner implements CandidateHandoff, for every calendar,  *)
(* content, baseline and bound: its save is Replace, the record that       *)
(* resolves a source is Settle, and every other step, failure and crash    *)
(* is a stutter.                                                           *)
(***************************************************************************)
EXTENDS RadarCandidateDeliveryProofs

Owed    == {s \in Outstanding : checkpoint = Complete(s.state)}
Settled == prepared \ Outstanding
Work    == {p.source : p \in pending}

\* Both specifications speak of the same values.
LEMMA SameValues ==
    ASSUME NEW s
    PROVE  /\ Handoff!Complete(s) = Complete(s)
           /\ Handoff!Eligible(s) <=> Eligible(s)
           /\ Handoff!ValidPrepared(s) <=> ValidPrepared(s)
BY DEF Handoff!Complete, Complete, Handoff!Eligible, Eligible,
       Handoff!ValidPrepared, ValidPrepared, Handoff!PriorLight, PriorLight,
       Handoff!Classify, Classify, Handoff!Incoherent, Incoherent,
       Handoff!MarketReason, MarketReason, Handoff!HasMarket, HasMarket,
       Handoff!MarketOf, MarketOf, Handoff!ContentOf, ContentOf

\* A source that is not accepted or not decided is outstanding, and so is an
\* eligible one without pending work.
LEMMA MissingRecord ==
    ASSUME NEW s \in prepared,
           \/ \A a \in accepted : a.source # s
           \/ [source |-> s, reason |-> CandidateReason(s)] \notin decisions
           \/ Eligible(s) /\ [source |-> s, candidate |-> s.state] \notin pending
    PROVE  s \in Outstanding
BY DEF Outstanding

\* The hand-off does not move when none of its four values does.
LEMMA Stutters ==
    ASSUME UNCHANGED <<checkpoint, Owed, Settled, Work>>
    PROVE  UNCHANGED Handoff!vars
BY DEF Handoff!vars, Owed, Settled, Work

\* A step that touches no file is a stutter.
LEMMA SameFilesStutter ==
    ASSUME UNCHANGED durable
    PROVE  UNCHANGED Handoff!vars
<1>1. Outstanding' = Outstanding /\ UNCHANGED <<checkpoint, prepared, pending>>
    BY SameOutstanding DEF durable
<1> QED BY <1>1, Stutters DEF Owed, Settled, Work

\* A prepared record alone is not visible to the hand-off.
LEMMA PreparedStutters == Inductive /\ PersistPrepared => UNCHANGED Handoff!vars
<1> SUFFICES ASSUME Inductive, PersistPrepared PROVE UNCHANGED Handoff!vars
    OBVIOUS
<1>1. /\ mode # "plain" /\ Outstanding = {} /\ checkpoint = task.predecessor
      /\ ValidPrepared(task) /\ LinksCoherent
    BY DEF PersistPrepared, Inductive, CallInv, TaskInv
<1>2. /\ prepared' = prepared \cup {task}
      /\ UNCHANGED <<checkpoint, accepted, decisions, pending>>
    BY DEF PersistPrepared
<1>3. checkpoint # Complete(task.state)
    BY <1>1 DEF ValidPrepared
<1>4. Outstanding' \subseteq {task}
    BY <1>1, <1>2 DEF Outstanding
<1>5. Owed = {} /\ Owed' = {}
    BY <1>1, <1>2, <1>3, <1>4 DEF Owed
<1>6. Settled' = Settled
    <2>1. CASE task \in prepared
        <3>1. prepared' = prepared
            BY <1>2, <2>1
        <3>2. Outstanding' = {}
            BY <1>1, <1>2, <3>1, RecordsSettle
        <3> QED BY <1>1, <3>1, <3>2 DEF Settled
    <2>2. CASE task \notin prepared
        <3>1. \A a \in accepted : a.source # task
            BY <1>1, <2>2 DEF LinksCoherent
        <3>2. task \in Outstanding'
            BY <1>2, <3>1 DEF Outstanding
        <3>3. Outstanding' = {task}
            BY <1>4, <3>2
        <3> QED BY <1>1, <1>2, <2>2, <3>3 DEF Settled
    <2> QED BY <2>1, <2>2
<1> QED BY <1>2, <1>5, <1>6, Stutters DEF Work

\* The save is the moment a new observation becomes visible.
LEMMA SaveReplaces == Inductive /\ SaveCheckpoint => Handoff!Replace
<1> SUFFICES ASSUME Inductive, SaveCheckpoint PROVE Handoff!Replace
    OBVIOUS
<1>1. /\ task \in prepared /\ Outstanding \subseteq {task}
      /\ checkpoint = task.predecessor /\ LinksCoherent
    BY DEF SaveCheckpoint, Inductive, TaskInv
<1>2. /\ checkpoint' = Complete(task.state)
      /\ UNCHANGED <<prepared, accepted, decisions, pending>>
    BY DEF SaveCheckpoint
<1>3. ValidPrepared(task)
    BY <1>1 DEF LinksCoherent
<1>4. checkpoint # Complete(task.state)
    BY <1>1, <1>3 DEF ValidPrepared
<1>5. Outstanding' = Outstanding
    BY <1>2 DEF Outstanding
<1>6. Owed = {}
    BY <1>1, <1>4 DEF Owed
<1>7. Owed' = {task} \ Settled /\ task \in Owed' \cup Settled
    BY <1>1, <1>2, <1>5 DEF Owed, Settled
<1>8. UNCHANGED <<Settled, Work>>
    BY <1>2, <1>5 DEF Settled, Work
<1>9. \E s \in Owed' \cup Settled :
          /\ ValidPrepared(s)
          /\ checkpoint = s.predecessor /\ checkpoint' = Complete(s.state)
          /\ Owed' = {s} \ Settled
    BY <1>1, <1>2, <1>3, <1>7
<1> QED BY <1>6, <1>8, <1>9, SameValues DEF Handoff!Replace, Owed, Settled, Work

\* The acceptance changes nothing a reader of the hand-off sees.
LEMMA AcceptanceStutters == Inductive /\ PersistAccepted => UNCHANGED Handoff!vars
<1> SUFFICES ASSUME Inductive, PersistAccepted PROVE UNCHANGED Handoff!vars
    OBVIOUS
<1>1. task \in prepared /\ Outstanding \subseteq {task} /\ LinksCoherent
    BY DEF PersistAccepted, Inductive, TaskInv
<1> DEFINE record == [source |-> task, state |-> task.state]
<1>2. /\ accepted' = accepted \cup {record}
      /\ UNCHANGED <<checkpoint, prepared, decisions, pending>>
    BY DEF PersistAccepted
<1>3. record.source = task
    OBVIOUS
<1> HIDE DEF record
<1>4. Outstanding' \subseteq Outstanding
    BY <1>2, RecordsSettle
<1>5. \A d \in decisions : IsAccepted(d.source)
    BY <1>1 DEF LinksCoherent
<1>6. Outstanding \subseteq Outstanding'
    <2> SUFFICES ASSUME NEW s \in Outstanding, s \notin Outstanding' PROVE FALSE
        OBVIOUS
    <2> DEFINE d == [source |-> s, reason |-> CandidateReason(s)]
    <2>1. d \in decisions /\ d.source = s
        BY <1>2 DEF Outstanding
    <2>2. IsAccepted(s)
        BY <1>5, <2>1
    <2> QED BY <1>2, <2>2 DEF Outstanding, IsAccepted
<1>7. Outstanding' = Outstanding
    BY <1>4, <1>6
<1> QED BY <1>2, <1>7, Stutters DEF Owed, Settled, Work

\* A record added for the visible source either leaves it outstanding or is
\* what settles it.
LEMMA SettlesOrStutters ==
    ASSUME task \in prepared, Outstanding \subseteq {task},
           checkpoint = Complete(task.state),
           UNCHANGED <<checkpoint, prepared>>, Outstanding' \subseteq Outstanding,
           task \in Outstanding' => Work' = Work,
           task \notin Outstanding => Work' = Work,
           task \in Outstanding /\ task \notin Outstanding' =>
               Work' = IF Eligible(task) THEN Work \cup {task} ELSE Work
    PROVE  Handoff!Next \/ UNCHANGED Handoff!vars
<1>1. CASE Outstanding' = Outstanding
    <2>1. Work' = Work
        BY <1>1
    <2> QED BY <1>1, <2>1, Stutters DEF Owed, Settled
<1>2. CASE Outstanding' # Outstanding
    <2>1. Outstanding = {task} /\ Outstanding' = {}
        BY <1>2
    <2>2. task \in Owed /\ Owed' = Owed \ {task} /\ Settled' = Settled \cup {task}
        BY <2>1 DEF Owed, Settled
    <2>3. Work' = IF Eligible(task) THEN Work \cup {task} ELSE Work
        BY <2>1
    <2> QED BY <2>2, <2>3, SameValues DEF Handoff!Next, Handoff!Settle, Owed, Settled, Work
<1> QED BY <1>1, <1>2

\* A negative decision settles the source, an eligible one does not yet.
LEMMA DecisionSettlesOrStutters ==
    Inductive /\ PersistDecision => Handoff!Next \/ UNCHANGED Handoff!vars
<1> SUFFICES ASSUME Inductive, PersistDecision
             PROVE  Handoff!Next \/ UNCHANGED Handoff!vars
    OBVIOUS
<1>1. /\ task \in prepared /\ Outstanding \subseteq {task}
      /\ checkpoint = Complete(task.state) /\ LinksCoherent
    BY DEF PersistDecision, Inductive, TaskInv
<1> DEFINE record == [source |-> task, reason |-> CandidateReason(task)]
<1>2. /\ decisions' \in {decisions, decisions \cup {record}}
      /\ UNCHANGED <<checkpoint, prepared, accepted, pending>>
    BY DEF PersistDecision
<1>3. Outstanding' \subseteq Outstanding
    BY <1>2, RecordsSettle
<1>4. Work' = Work
    BY <1>2 DEF Work
<1>5. ASSUME task \in Outstanding, task \notin Outstanding', Eligible(task) PROVE FALSE
    <2> DEFINE p == [source |-> task, candidate |-> task.state]
    <2>1. /\ \E a \in accepted : a.source = task
          /\ p \in pending /\ record \notin decisions
        <3>1. /\ \E a \in accepted' : a.source = task
              /\ p \in pending'
            BY <1>1, <1>2, <1>5 DEF Outstanding
        <3> QED BY <1>1, <1>2, <1>5, <3>1 DEF Outstanding
    <2>2. record = [source |-> task, reason |-> "ELIGIBLE"]
        BY <1>5, EligibleReason
    <2>4. p.source = task
        OBVIOUS
    <2> HIDE DEF p, record
    <2>3. [source |-> p.source, reason |-> "ELIGIBLE"] \in decisions
        BY <1>1, <2>1 DEF LinksCoherent
    <2> QED BY <2>1, <2>2, <2>3, <2>4
<1> QED BY <1>1, <1>2, <1>3, <1>4, <1>5, SettlesOrStutters

\* The pending record settles the source and hands over its work at once.
LEMMA PendingSettlesOrStutters ==
    Inductive /\ PersistPending => Handoff!Next \/ UNCHANGED Handoff!vars
<1> SUFFICES ASSUME Inductive, PersistPending
             PROVE  Handoff!Next \/ UNCHANGED Handoff!vars
    OBVIOUS
<1>1. /\ task \in prepared /\ Outstanding \subseteq {task} /\ Eligible(task)
      /\ checkpoint = Complete(task.state) /\ LinksCoherent
      /\ [source |-> task, reason |-> "ELIGIBLE"] \in decisions /\ IsAccepted(task)
    BY DEF PersistPending, Inductive, TaskInv
<1> DEFINE record == [source |-> task, candidate |-> task.state]
<1>2. /\ pending' \in {pending, pending \cup {record}}
      /\ UNCHANGED <<checkpoint, prepared, accepted, decisions>>
    BY DEF PersistPending
<1>3. Outstanding' \subseteq Outstanding
    BY <1>2, RecordsSettle
<1>4. record.source = task
    OBVIOUS
<1>5. task \in Outstanding <=> record \notin pending
    BY <1>1, EligibleReason DEF Outstanding, IsAccepted
<1>6. task \in Outstanding' <=> record \notin pending'
    <2>1. [source |-> task, reason |-> CandidateReason(task)] \in decisions'
        BY <1>1, <1>2, EligibleReason
    <2>2. \E a \in accepted' : a.source = task
        BY <1>1, <1>2 DEF IsAccepted
    <2> QED BY <1>1, <1>2, <2>1, <2>2 DEF Outstanding
<1> HIDE DEF record
<1>7. pending' = pending => Work' = Work
    BY DEF Work
<1>8. pending' = pending \cup {record} => Work' = Work \cup {task}
    BY <1>4 DEF Work
<1>9. record \in pending => Work' = Work
    BY <1>2, <1>7
<1>10. record \notin pending' => Work' = Work
    BY <1>2, <1>7
<1>11. record \notin pending /\ record \in pending' => Work' = Work \cup {task}
    BY <1>2, <1>8
<1> QED BY <1>1, <1>2, <1>3, <1>5, <1>6, <1>9, <1>10, <1>11, SettlesOrStutters

\* Every step of the owner is a step of the hand-off or a stutter.
LEMMA StepHandsOff ==
    ASSUME MaxPlain = 0, Inductive, [Next]_vars
    PROVE  Handoff!Next \/ UNCHANGED Handoff!vars
<1>1. mode # "plain" /\ CallInv
    BY NoPlainCall DEF Inductive
<1>2. CASE PersistPrepared
    BY <1>2, PreparedStutters
<1>3. CASE SaveCheckpoint
    BY <1>3, SaveReplaces DEF Handoff!Next
<1>4. CASE PersistAccepted
    BY <1>4, AcceptanceStutters
<1>5. CASE PersistDecision
    BY <1>5, DecisionSettlesOrStutters
<1>6. CASE PersistPending
    BY <1>6, PendingSettlesOrStutters
<1>7. CASE OverwritePlain
    BY <1>1, <1>7 DEF OverwritePlain, CallInv
<1>8. CASE \/ Begin \/ FindUnresolved \/ Reconcile \/ EvaluateWithoutAdvancing
           \/ EvaluateAndPrepare \/ Admit \/ Recheck
    <2>1. UNCHANGED durable
        BY <1>8 DEF Begin, FindUnresolved, Reconcile, EvaluateWithoutAdvancing,
           EvaluateAndPrepare, Admit, Recheck
    <2> QED BY <2>1, SameFilesStutter
<1>9. CASE \/ PreparationFails \/ StepFails \/ Crash \/ Upgrade \/ BeginPlain
           \/ UNCHANGED vars
    <2>1. UNCHANGED durable
        BY <1>9 DEF PreparationFails, StepFails, Crash, Upgrade, BeginPlain, vars
    <2> QED BY <2>1, SameFilesStutter
<1> QED BY <1>2, <1>3, <1>4, <1>5, <1>6, <1>7, <1>8, <1>9 DEF Next, OwnerStep

\* With every call coordinated, the files of an instrument, through failures,
\* crashes and recoveries, behave like one hand-off per visible observation.
THEOREM DeliveryImplementsHandoff ==
    ASSUME MaxPlain = 0
    PROVE  Spec => ImplementsHandoff
<1>1. Init => Handoff!Init
    BY DEF Init, Handoff!Init, Outstanding
<1>2. Inductive /\ [Next]_vars => [Handoff!Next]_(Handoff!vars)
    BY StepHandsOff
<1> QED BY <1>1, <1>2, InductiveInvariant, PTL DEF Spec, ImplementsHandoff, Handoff!Spec
=============================================================================
