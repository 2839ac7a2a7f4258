------------------------- MODULE GovernedConclusions -------------------------
(***************************************************************************)
(* The three services that draw conclusions from a governed analysis: an   *)
(* interpretation of a technical occurrence, an assessment of an           *)
(* interpretation, a strategy from an assessment.  Each keeps a history of *)
(* its own behind a lock of its own, and holds the locks of every history  *)
(* its conclusion rests on (eight of GovernedEvidence, up to three here)   *)
(* from its first check to its append.                                     *)
(*                                                                         *)
(* No call trusts what was retained: before it derives anything, and again *)
(* before it appends or answers, it authenticates every retained           *)
(* occurrence it can reach, the ones it was not asked about included.  One *)
(* occurrence that no longer authenticates therefore refuses every later   *)
(* call; which of them it reaches differs between the services.            *)
(*                                                                         *)
(* The clock may fail to answer at any reading.  A conclusion is its       *)
(* source and its times; what it says DailyTechnicalDecisions derives from *)
(* the technical snapshot, which a scenario gives.  Retained objects are   *)
(* not corrupted, so the two passes over their bytes and identities, under *)
(* locks held throughout, are one.                                         *)
(***************************************************************************)
EXTENDS GovernedEvidence, DailyTechnicalDecisions

Conclusions == {"interpretation", "assessment", "strategy"}

\* The history a conclusion is drawn from, and the order of the eleven locks.
SourceOf == [interpretation |-> "technical", assessment |-> "interpretation",
             strategy |-> "assessment"]
Height(l) ==
    CASE l = "interpretation" -> 9
      [] l = "assessment"     -> 10
      [] l = "strategy"       -> 11
      [] OTHER                -> Rank[l]

\* execute, or get_result_history_as_of, of one of the services.
Requests == [kind: Conclusions, does: {"execute", "recall"}]

\* Bounds, beside those of GovernedEvidence: the conclusions a thread asks for
\* once its governed calls are made, how often the clock may fail, and the
\* snapshots an analysis may make.
ASSUME ConclusionsAssumption ==
    \A s \in Scenarios :
        /\ s.conclude \in [Threads -> Seq(Requests)] /\ s.faults \in Nat
        /\ s.snapshots \subseteq TechnicalSnapshot

VARIABLES
    kept,       \* [Conclusions -> the retained conclusions]
    pending,    \* [Conclusions -> is an occurrence staged?]
    lock,       \* [eleven histories -> Threads or NoThread], held for a conclusion
    work,       \* [Threads -> the conclusion call it executes, or how the last ended]
    asked,      \* [Threads -> conclusion calls begun]
    faults,     \* failed readings of the clock so far
    snapshot    \* the snapshot every analysis makes

conclusionVars == <<kept, pending, lock, work, asked, faults, snapshot>>
allVars == <<vars, conclusionVars>>
governed == <<hist, owner, call, made, clock, snapshot>>

Conclusion == [source: Nat \ {0}, started: Nat, completed: Nat, available: Nat]
NoConclusion == [source |-> 0, started |-> 0, completed |-> 0, available |-> 0]

\* How a call ends: published or answered, or refused with the code's reason.
Outcomes == {"none", "published", "answered", "unavailable", "history", "semantic",
             "temporal"}

\* source: the occurrence asked for, 0 if none is retained under the selector;
\* artifact, cutoff and found: what a recall asks for and is answered.
Resting == [kind |-> "interpretation", does |-> "execute", at |-> "off", waiting |-> <<>>,
            source |-> 0, started |-> 0, artifact |-> 0, cutoff |-> 0, found |-> {},
            entry |-> NoConclusion, outcome |-> "none"]

Work == [kind: Conclusions, does: {"execute", "recall"}, at: {"off", "derive", "stamp", "commit"},
         waiting: Seq(Histories \cup Conclusions), source: Nat, started: Nat, artifact: Nat,
         cutoff: Nat, found: SUBSET Nat, entry: Conclusion \cup {NoConclusion},
         outcome: Outcomes]

ConclusionsInit ==
    /\ kept = [k \in Conclusions |-> <<>>]
    /\ pending = [k \in Conclusions |-> FALSE]
    /\ lock = [l \in Histories \cup Conclusions |-> NoThread]
    /\ work = [t \in Threads |-> Resting]
    /\ asked = [t \in Threads |-> 0]
    /\ faults = 0
    /\ snapshot \in scenario.snapshots

-----------------------------------------------------------------------------
\* What the histories say.

\* The technical occurrence, and the artifact, an occurrence goes back to.
TechnicalOf(k, i) ==
    CASE k = "interpretation" -> kept[k][i].source
      [] k = "assessment"     -> kept["interpretation"][kept[k][i].source].source
      [] k = "strategy"       ->
            kept["interpretation"][kept["assessment"][kept[k][i].source].source].source
ArtifactOf(k, i) ==
    hist["qualification"][hist["bridge"][hist["technical"][TechnicalOf(k, i)].subject].subject].subject

Sources(k) == IF k = "interpretation" THEN hist["technical"] ELSE kept[SourceOf[k]]

VisibleConclusions(k, artifact, cutoff) ==
    {i \in DOMAIN kept[k] : ArtifactOf(k, i) = artifact /\ kept[k][i].available <= cutoff}

\* A technical occurrence still has the provenance it was issued with.
Authentic(i) ==
    BridgeResolvable(hist["technical"][i].subject, hist["technical"][i].detail.started)

\* What an interpretation rests on is still there, and was known when it started.
Supported(i) ==
    LET technical == kept["interpretation"][i].source IN
    /\ Authentic(technical)
    /\ hist["technical"][technical].available <= kept["interpretation"][i].started

\* The interpretation authenticates every technical occurrence, interpreted or not ...
TechnicalsAuthentic ==
    /\ \A i \in DOMAIN hist["technical"] : Authentic(i)
    /\ \A i \in DOMAIN kept["interpretation"] : Supported(i)

\* ... the other two only those some interpretation rests on ...
InterpretationsAuthentic == \A i \in DOMAIN kept["interpretation"] : Supported(i)

\* ... and the strategy every assessment against its interpretation.
AssessmentsPaired ==
    \A i \in DOMAIN kept["assessment"] :
        LET item == kept["assessment"][i] IN
        /\ item.source \in DOMAIN kept["interpretation"]
        /\ kept["interpretation"][item.source].available <= item.started
StrategiesPaired ==
    \A i \in DOMAIN kept["strategy"] : kept["strategy"][i].source \in DOMAIN kept["assessment"]

\* The assessment looks at its own staging, the strategy at that of all three;
\* the interpretation overwrites whatever is staged.
NothingStaged == \A k \in Conclusions : ~pending[k]

\* A recall of no assessment asks nobody.
Authenticates(t) ==
    CASE work[t].kind = "interpretation" -> TechnicalsAuthentic
      [] work[t].kind = "assessment"     ->
            /\ ~pending["assessment"]
            /\ work[t].does = "execute" \/ kept["assessment"] # <<>> => InterpretationsAuthentic
      [] work[t].kind = "strategy"       ->
            NothingStaged /\ InterpretationsAuthentic /\ AssessmentsPaired /\ StrategiesPaired

-----------------------------------------------------------------------------
\* Locks.

Doing(t, point) == work[t].at = point /\ work[t].waiting = <<>>

\* The eight governed locks have two holders to tell apart: owner is the governed
\* call that holds one, lock the conclusion call.
Holder(l) == IF l \in Histories /\ owner[l] # NoThread THEN owner[l] ELSE lock[l]

TakeLock(t) ==
    /\ work[t].waiting # <<>>
    /\ Holder(Head(work[t].waiting)) = NoThread
    /\ lock' = [lock EXCEPT ![Head(work[t].waiting)] = t]
    /\ work' = [work EXCEPT ![t].waiting = Tail(@)]
    /\ UNCHANGED <<governed, latest, kept, pending, asked, faults>>

\* Every lock is given back, whichever way the call ends.
GivesBack(t) == lock' = [l \in DOMAIN lock |-> IF lock[l] = t THEN NoThread ELSE lock[l]]

Ends(t, outcome) ==
    /\ work' = [work EXCEPT ![t].at = "off", ![t].outcome = outcome]
    /\ GivesBack(t)

\* Each service takes the locks of the one before it, then its own.
InterpretationLocks == AnalyseLocks \o <<"interpretation">>
AssessmentLocks == InterpretationLocks \o <<"assessment">>

\* Mutant: the strategy's own lock is taken first.
StrategyLocksOwnFirst == <<"strategy">> \o AssessmentLocks

StrategyLocks == AssessmentLocks \o <<"strategy">>
LocksFor == [interpretation |-> InterpretationLocks, assessment |-> AssessmentLocks,
             strategy |-> StrategyLocks]

-----------------------------------------------------------------------------
\* The calls.

\* The thread's next conclusion call starts, its governed calls made.  Bound: not
\* before there is a technical occurrence (a call would be refused as unavailable).
BeginConclusion(t, does) ==
    /\ call[t].at = "idle" /\ made[t] = Len(scenario.script[t])
    /\ hist["technical"] # <<>>
    /\ work[t].at = "off"
    /\ asked[t] < Len(scenario.conclude[t])
    /\ scenario.conclude[t][asked[t] + 1].does = does
    /\ asked' = [asked EXCEPT ![t] = @ + 1]
    /\ UNCHANGED <<governed, kept, pending, lock>>

Asked(t) == scenario.conclude[t][asked[t] + 1].kind

\* execute: the start is read before the first lock is asked for.
BeginExecute(t) ==
    /\ BeginConclusion(t, "execute")
    /\ \E source \in {0} \cup DOMAIN Sources(Asked(t)) :
          work' = [work EXCEPT ![t] = [Resting EXCEPT
                      !.kind = Asked(t), !.at = "derive", !.waiting = LocksFor[Asked(t)],
                      !.source = source, !.started = now]]
    /\ Read
    /\ UNCHANGED faults

\* get_result_history_as_of: the caller asks for what was known at an instant
\* it has read.
BeginRecall(t) ==
    /\ BeginConclusion(t, "recall")
    /\ \E artifact \in DOMAIN hist["construction"], cutoff \in Recent :
          work' = [work EXCEPT ![t] = [Resting EXCEPT
                      !.kind = Asked(t), !.does = "recall", !.at = "derive",
                      !.waiting = LocksFor[Asked(t)], !.artifact = artifact,
                      !.cutoff = cutoff]]
    /\ Read
    /\ UNCHANGED faults

Source(t) == Sources(work[t].kind)[work[t].source]

\* Mutant: the source need only be known by now.
SourceKnownByNow(t) ==
    work[t].source \in DOMAIN Sources(work[t].kind) /\ Source(t).available <= now

\* Mutant: a selector that selects nothing is let through.
SourceOptional(t) ==
    work[t].source \in DOMAIN Sources(work[t].kind) => Source(t).available <= work[t].started

\* The selector names a retained occurrence, known when the call started.
SourceKnown(t) ==
    work[t].source \in DOMAIN Sources(work[t].kind) /\ Source(t).available <= work[t].started

\* The conclusion is derived from the authenticated source, completed and staged.
DeriveFrom(t, kind) ==
    /\ Doing(t, "derive") /\ work[t].does = "execute" /\ work[t].kind = kind
    /\ SourceKnown(t) /\ work[t].started <= now
    /\ work' = [work EXCEPT ![t].at = "stamp",
                    ![t].entry = [source |-> work[t].source, started |-> work[t].started,
                                  completed |-> now, available |-> 0]]
    /\ pending' = [pending EXCEPT ![kind] = TRUE]
    /\ Read
    /\ UNCHANGED <<governed, kept, lock, asked, faults>>

Interpret(t) == TechnicalsAuthentic /\ DeriveFrom(t, "interpretation")

Assess(t) ==
    /\ ~pending["assessment"] /\ InterpretationsAuthentic
    /\ Assessable(snapshot)
    /\ DeriveFrom(t, "assessment")

DeriveStrategy(t) ==
    /\ NothingStaged /\ InterpretationsAuthentic /\ AssessmentsPaired /\ StrategiesPaired
    /\ Deployable(snapshot)
    /\ DeriveFrom(t, "strategy")

LastKept(k) == IF kept[k] = <<>> THEN 0 ELSE kept[k][Len(kept[k])].available

Retainable(t) ==
    /\ Availability >= work[t].entry.completed
    /\ Availability >= LastKept(work[t].kind)

\* Its availability is read.
StampConclusion(t) ==
    /\ Doing(t, "stamp")
    /\ Retainable(t)
    /\ work' = [work EXCEPT ![t].at = "commit", ![t].entry.available = Availability]
    /\ ReadAvailability
    /\ UNCHANGED <<hist, owner, call, made, kept, pending, lock, asked, faults, snapshot>>

\* It is authenticated again, unstaged and appended.
Commit(t) ==
    /\ Doing(t, "commit")
    /\ kept' = [kept EXCEPT ![work[t].kind] = Append(@, work[t].entry)]
    /\ pending' = [pending EXCEPT ![work[t].kind] = FALSE]
    /\ Ends(t, "published")
    /\ UNCHANGED <<governed, latest, asked, faults>>

\* Mutant: the cutoff is when the call is answered.
AnswersByNow(t) == latest

\* The instant a recall's answer is complete up to.
AnswersUpTo(t) == work[t].cutoff

\* The caller is given copies of what was available by its cutoff.
Answer(t, kind) ==
    /\ Doing(t, "derive") /\ work[t].does = "recall" /\ work[t].kind = kind
    /\ work' = [work EXCEPT ![t].at = "off", ![t].outcome = "answered",
                    ![t].found = VisibleConclusions(kind, work[t].artifact, AnswersUpTo(t))]
    /\ GivesBack(t)
    /\ UNCHANGED <<governed, latest, kept, pending, asked, faults>>

RecallInterpretations(t) == TechnicalsAuthentic /\ Answer(t, "interpretation")

RecallAssessments(t) ==
    /\ ~pending["assessment"]
    /\ kept["assessment"] # <<>> => InterpretationsAuthentic
    /\ Answer(t, "assessment")

RecallStrategies(t) ==
    /\ NothingStaged /\ InterpretationsAuthentic /\ AssessmentsPaired /\ StrategiesPaired
    /\ Answer(t, "strategy")

-----------------------------------------------------------------------------
\* Refusals.  The occurrence a call staged is unstaged however the call ends.

\* Mutant: only a commit unstages.
StaysStaged(t) == pending' = pending

Unstage(t) ==
    pending' = [pending EXCEPT ![work[t].kind] = @ /\ work[t].at # "stamp"]

\* The policy yields a conclusion the service accepts.
Derivable(t) ==
    CASE work[t].kind = "interpretation" -> TRUE
      [] work[t].kind = "assessment"     -> Assessable(snapshot)
      [] work[t].kind = "strategy"       -> Deployable(snapshot)

\* Why a call that holds its locks is refused.
Refusal(t) ==
    IF work[t].at = "stamp" THEN "temporal"
    ELSE IF ~Authenticates(t) THEN "history"
    ELSE IF work[t].does = "recall" THEN "none"
    ELSE IF ~SourceKnown(t) THEN "unavailable"
    ELSE IF ~Derivable(t) THEN "semantic"
    ELSE IF now < work[t].started THEN "temporal" ELSE "none"

RefuseConclusion(t) ==
    /\ \/ Doing(t, "derive") /\ Refusal(t) # "none"
       \/ Doing(t, "stamp") /\ ~Retainable(t)
    /\ Ends(t, Refusal(t))
    /\ Unstage(t)
    /\ Read
    /\ UNCHANGED <<governed, kept, asked, faults>>

\* The clock fails when the start is read.
BeginFails(t) ==
    /\ BeginConclusion(t, "execute")
    /\ faults < scenario.faults /\ faults' = faults + 1
    /\ work' = [work EXCEPT ![t] = [Resting EXCEPT !.kind = Asked(t), !.outcome = "temporal"]]
    /\ UNCHANGED latest

\* The clock fails when the completion or the availability is read.
ClockFails(t) ==
    /\ faults < scenario.faults /\ faults' = faults + 1
    /\ \/ /\ Doing(t, "derive") /\ work[t].does = "execute"
          /\ Authenticates(t) /\ SourceKnown(t) /\ Derivable(t)
       \/ Doing(t, "stamp")
    /\ Ends(t, "temporal")
    /\ Unstage(t)
    /\ UNCHANGED <<governed, latest, kept, asked>>

-----------------------------------------------------------------------------

Conclude(t) ==
    \/ BeginExecute(t) \/ BeginRecall(t) \/ TakeLock(t)
    \/ Interpret(t) \/ Assess(t) \/ DeriveStrategy(t) \/ StampConclusion(t) \/ Commit(t)
    \/ RecallInterpretations(t) \/ RecallAssessments(t) \/ RecallStrategies(t)
    \/ RefuseConclusion(t) \/ BeginFails(t) \/ ClockFails(t)

\* A step of the governed pipeline: it waits for a lock a conclusion holds.
Govern ==
    \/ Move
    \/ \E t \in Threads :
          \/ Start(t)
          \/ /\ call[t].waiting # <<>> => lock[Head(call[t].waiting)] = NoThread
             /\ Step(t)

AllResting ==
    /\ \A t \in Threads : call[t].at = "idle" /\ work[t].at = "off"
    /\ UNCHANGED allVars

ConcludingNext ==
    \/ Govern /\ UNCHANGED conclusionVars
    \/ AllResting
    \/ \E t \in Threads : Conclude(t)

ConcludingSpec == Init /\ ConclusionsInit /\ [][ConcludingNext]_allVars

-----------------------------------------------------------------------------
\* Properties.

ConclusionsTypeOK ==
    /\ TypeOK
    /\ kept \in [Conclusions -> Seq(Conclusion)]
    /\ pending \in [Conclusions -> BOOLEAN]
    /\ lock \in [Histories \cup Conclusions -> Threads \cup {NoThread}]
    /\ work \in [Threads -> Work]
    /\ asked \in [Threads -> Nat] /\ faults \in Nat
    /\ snapshot \in TechnicalSnapshot

\* Where no two readings of the clock are equal and none goes back, no service
\* is ever poisoned: whatever is validated, admitted or analysed in between,
\* whichever call failed with an occurrence staged, no later call finds a
\* history it must refuse (HISTORY_INVALID, which would refuse every later call).
HistoriesNeverRefused ==
    scenario.clock = "distinct" => \A t \in Threads : work[t].outcome # "history"

\* Nothing is staged in a service nobody is executing in, however the last
\* execution ended: the strategy refuses every call while one of the three is.
NothingLeftStaged ==
    \A k \in Conclusions : pending[k] => lock[k] # NoThread

\* The occurrences a conclusion rests on, through eleven histories.
Ancestry(k, i) ==
    LET technical == TechnicalOf(k, i)
        bridge == hist["technical"][technical].subject
        qualification == hist["bridge"][bridge].subject
    IN  {hist["technical"][technical].available, hist["bridge"][bridge].available,
         hist["qualification"][qualification].available,
         hist["construction"][hist["qualification"][qualification].subject].available}
        \cup (IF k = "interpretation" THEN {} ELSE {Sources(k)[kept[k][i].source].available})
        \cup (IF k # "strategy" THEN {}
              ELSE {kept["interpretation"][kept["assessment"][kept[k][i].source].source].available})

\* Whatever the clock does, a conclusion known at an instant is explained at
\* that instant: everything it rests on, back to the construction, was available
\* before its execution began (a replay at a cutoff can follow the lineage).
ConclusionsAreExplained ==
    \A k \in Conclusions : \A i \in DOMAIN kept[k] :
        /\ kept[k][i].started <= kept[k][i].available
        /\ \A available \in Ancestry(k, i) : available <= kept[k][i].started

\* An answer given for a cutoff is the answer for that cutoff ever after: a call
\* that waited for the locks, or committed meanwhile, adds nothing to the past.
AnswersStand ==
    scenario.clock = "distinct" =>
        \A t \in Threads : work[t].outcome = "answered" =>
            work[t].found = VisibleConclusions(work[t].kind, work[t].artifact, work[t].cutoff)

\* Every snapshot is decided: however short its history and wherever its values
\* lie on a threshold, no finding cites a comparison that was not made or did not
\* hold, and the mode has its rule.  The states and the comparisons are computed
\* apart, so a threshold that is strict in one and not in the other would refuse
\* the snapshot (SEMANTIC_FAILED) at that value only.
EverySnapshotIsDecided == Decided(snapshot)

\* A strategy is active exactly when a full and fresh history rises, or falls,
\* by every comparison of trend and momentum and no caution applies: three
\* policies, each on the output of the one before, amount to that.
ActiveExactlyWhenUnqualified == ActiveWhenUnqualified(snapshot)

\* The lock a thread waits for, if it waits.
Waiting(t) == call[t].waiting \o work[t].waiting

\* Through all eleven locks, a thread only waits for one that comes later than
\* every lock it holds, whichever of the eleven services it is in.
WaitsClimbThroughConclusions ==
    \A t, u \in Threads :
        /\ Waiting(t) # <<>> /\ Waiting(u) # <<>>
        /\ Holder(Head(Waiting(t))) = u
        => Height(Head(Waiting(t))) < Height(Head(Waiting(u)))

-----------------------------------------------------------------------------
(* The eleven histories implement AsOfArchive.  The frontier of one that   *)
(* somebody has stamped for is that stamp; of any other, what the clock    *)
(* may still return: later than all readings, the greatest of them again,  *)
(* or anything the last publication admits.                                *)

Names == Histories \cup Conclusions

Log == [n \in Names |-> IF n \in Histories THEN hist[n] ELSE kept[n]]

\* The stamps of what is about to be appended to a history.
Coming(n) ==
    IF n \in Histories
    THEN {call[t].entry.available :
             t \in {u \in Threads : call[u].at = "append" /\ call[u].writes = n}}
    ELSE {work[t].entry.available :
             t \in {u \in Threads : work[u].at = "commit" /\ work[u].kind = n}}

LastKnown(n) == IF Log[n] = <<>> THEN 0 ELSE Log[n][Len(Log[n])].available

NextReading(n) ==
    CASE scenario.clock = "distinct" -> latest + 1
      [] scenario.clock = "tied"     -> latest
      [] scenario.clock = "adjusted" -> LastKnown(n)

Frontier == [n \in Names |-> IF Coming(n) = {} THEN NextReading(n) ELSE TheOne(Coming(n))]

Archive == INSTANCE AsOfArchive WITH log <- Log, frontier <- Frontier

\* Whoever publishes beside whom, the past of a history is settled up to its
\* frontier: with distinct readings, everything up to the last reading that any
\* call has made, so a cutoff, a start or a decision rests on what stays so.
ImplementsArchive == Archive!Spec
=============================================================================
