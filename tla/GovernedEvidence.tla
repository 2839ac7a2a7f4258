--------------------------- MODULE GovernedEvidence ---------------------------
(***************************************************************************)
(* The governed daily pipeline: eight services, each with a private        *)
(* in-memory history behind a non-reentrant lock, called by several        *)
(* threads.  A construction is validated concern by concern, evaluated for *)
(* freshness, admitted, activated, qualified for one analysis time, bridged *)
(* and analysed.                                                           *)
(*                                                                         *)
(* Every occurrence is retained the same way: its completion is read from  *)
(* the clock, it is staged, its availability is read from the clock under  *)
(* the history's lock, and it is appended.  Whether something was known at *)
(* a time is decided by comparing that availability with the time, so what *)
(* the clock may return matters: Kinds says it.                            *)
(*                                                                         *)
(* Readings of the clock with no change of any history in between are one  *)
(* reading here; the code refuses when a later one of them is the smaller.  *)
(* A candidate carries a version made from its own timestamps, so every    *)
(* construction is an artifact version of its own.  The material passes    *)
(* its eight rules (they depend on the construction only) and precedes     *)
(* every analysis date; retained objects are not corrupted.                *)
(***************************************************************************)
EXTENDS Naturals, Sequences

CONSTANTS
    Threads,
    NoThread,           \* an unlocked history
    Rules,              \* mandatory validation rules, run in the profile's order
    Midnight,           \* the instant the New York date changes
    FreshDates,         \* dates (0 before Midnight, 1 after) within the recency window
    Horizon,            \* bound: how far back a qualification may ask
    Scenarios           \* bounds: the calls each thread makes, in order; what the
                        \* clock is like and how often it moves between readings

Histories == {"construction", "validation", "freshness", "admission", "validity",
              "qualification", "bridge", "technical"}

Ops == {"none", "construct", "validate", "freshness", "admit", "activate", "qualify",
        "bridge", "analyse"}

\* Availability readings are later than every reading before them; readings may
\* be equal; the clock may also be set back.
Kinds == {"distinct", "tied", "adjusted"}

ASSUME GovernedAssumption ==
    /\ NoThread \notin Threads
    /\ Rules \in Nat \ {0}
    /\ Midnight \in Nat /\ FreshDates \subseteq {0, 1}
    /\ Horizon \in Nat
    /\ \A s \in Scenarios :
          s.script \in [Threads -> Seq(Ops)] /\ s.clock \in Kinds /\ s.moves \in Nat

\* The frozen lock order, and the five histories a governed use rests on.
Rank == [construction |-> 1, validation |-> 2, freshness |-> 3, admission |-> 4,
         validity |-> 5, qualification |-> 6, bridge |-> 7, technical |-> 8]
Inputs == {"construction", "validation", "freshness", "admission", "validity"}
Basis == {"validation", "freshness"}

\* What an occurrence says besides its times.
Detail(h) ==
    CASE h = "validation"    -> [rule: 1..Rules]
      [] h = "freshness"     -> [kind: {"admission", "task"}, evaluation: Nat]
      [] h = "admission"     -> [predecessor: Nat, selected: [1..Rules -> Nat],
                                 freshness: Nat, basis: [Basis -> SUBSET Nat]]
      [] h = "validity"      -> [support: Nat, admissions: SUBSET Nat]
      [] h = "qualification" -> [cutoff: Nat, analysis: Nat, task: Nat,
                                 context: [Inputs -> SUBSET Nat]]
      [] OTHER               -> [started: Nat]

\* subject: the construction, qualification or bridge the occurrence is about.
Entry(h) == [subject: Nat, completed: Nat, available: Nat, detail: Detail(h)]

VARIABLES
    hist,       \* [Histories -> the retained occurrences]
    owner,      \* [Histories -> Threads or NoThread], who holds the lock
    call,       \* [Threads -> the call it executes]
    made,       \* [Threads -> calls begun]
    scenario,   \* the scenario that runs
    now,        \* what the clock reads
    latest,     \* the greatest reading so far
    moves       \* moves of the clock so far

vars == <<hist, owner, call, made, scenario, now, latest, moves>>
clock == <<scenario, now, moves>>

Points == {"idle", "acquiring", "lookup", "rule", "evaluate", "prerequisites",
           "predecessor", "activate", "survey", "task", "qualify", "bridge",
           "analyse", "stamp", "append"}

NoEntry == [subject |-> 0, completed |-> 0, available |-> 0, detail |-> [started |-> 0]]

\* waiting: locks still to take, in order.  writes: the history being written.
\* asked and started: start readings of the call and of its current execution.
\* knowledge: the requested cutoff, 0 if none.  entry: the staged occurrence.
Idle == [op |-> "none", at |-> "idle", waiting |-> <<>>, writes |-> "construction",
         subject |-> 0, asked |-> 0, started |-> 0, knowledge |-> 0, analysis |-> 0,
         task |-> 0, rule |-> 1, entry |-> NoEntry]

Calls == [op: Ops, at: Points, waiting: Seq(Histories), writes: Histories,
          subject: Nat, asked: Nat, started: Nat, knowledge: Nat, analysis: Nat,
          task: Nat, rule: 1..Rules,
          entry: Entry("validation") \cup Entry("freshness") \cup Entry("admission")
                 \cup Entry("validity") \cup Entry("qualification") \cup Entry("construction")]

Init ==
    /\ hist = [h \in Histories |-> <<>>]
    /\ owner = [h \in Histories |-> NoThread]
    /\ call = [t \in Threads |-> Idle]
    /\ made = [t \in Threads |-> 0]
    /\ scenario \in Scenarios
    /\ now = 1 /\ latest = 0 /\ moves = 0

-----------------------------------------------------------------------------
\* The clock.  Only the order of its readings matters, so it need not move
\* unless somebody read it.

Move ==
    /\ moves < scenario.moves /\ moves' = moves + 1
    /\ \/ now <= latest /\ now' = now + 1
       \/ scenario.clock = "adjusted" /\ now > 1 /\ now' = now - 1
    /\ UNCHANGED <<hist, owner, call, made, scenario, latest>>

Read == latest' = IF now > latest THEN now ELSE latest

\* The availability reading of a publication.
Availability == IF scenario.clock = "distinct" /\ now <= latest THEN latest + 1 ELSE now
ReadAvailability ==
    /\ now' = Availability
    /\ latest' = IF Availability > latest THEN Availability ELSE latest
    /\ UNCHANGED <<scenario, moves>>

Date(instant) == IF instant < Midnight THEN 0 ELSE 1
Fresh(instant) == Date(instant) \in FreshDates

-----------------------------------------------------------------------------
\* What the histories say.

About(h, i) == IF h = "construction" THEN i ELSE hist[h][i].subject

Visible(h, c, cutoff) ==
    {i \in DOMAIN hist[h] : About(h, i) = c /\ hist[h][i].available <= cutoff}

Snapshot(c, cutoff) == [h \in Inputs |-> Visible(h, c, cutoff)]

\* _snapshot's checks: every execution has its construction, every decision the
\* records it was made from.
Closed(s) ==
    /\ s["construction"] = {} => \A h \in Inputs : s[h] = {}
    /\ \A i \in s["admission"] : \A h \in Basis :
          hist["admission"][i].detail.basis[h] \subseteq s[h]
    /\ \A i \in s["validity"] :
          /\ hist["validity"][i].detail.support \in s["admission"]
          /\ hist["validity"][i].detail.admissions \subseteq s["admission"]

\* A record is identified by what it says: two executions of one concern that
\* complete at the same reading made the same record, as did two evaluations at
\* the same time.  So a concern has one latest record, told by its time.
Validations(rule, s, effective) ==
    {t \in {hist["validation"][i].completed :
                i \in {j \in s["validation"] : hist["validation"][j].detail.rule = rule}} :
        t <= effective}

Evaluations(kind, s, cutoff) ==
    {e \in {hist["freshness"][i].detail.evaluation :
                i \in {j \in s["freshness"] : hist["freshness"][j].detail.kind = kind}} :
        e <= cutoff}

Latest(times) == CHOOSE t \in times : \A u \in times : u <= t

\* Two admissions are the same record if they were decided at the same reading
\* on the same records and follow the same one; the first of them stands for it.
Record(i) == [subject |-> hist["admission"][i].subject,
              completed |-> hist["admission"][i].completed,
              selected |-> hist["admission"][i].detail.selected,
              freshness |-> hist["admission"][i].detail.freshness,
              predecessor |-> hist["admission"][i].detail.predecessor]
Distinct(E) == {i \in E : \A j \in E : Record(i) = Record(j) => i <= j}

\* _resolve_admission over the records in E: {} when the lineage does not
\* resolve, more than one when they conflict.  A predecessor was retained
\* earlier, so there is no cycle to look for.
Predecessor(i) == hist["admission"][i].detail.predecessor
Resolves(E) ==
    /\ \A i \in E : \/ Predecessor(i) = 0
                     \/ /\ Predecessor(i) \in E
                        /\ hist["admission"][Predecessor(i)].completed
                              <= hist["admission"][i].completed
    /\ \A i, j \in E : Predecessor(i) = Predecessor(j) /\ i # j => Predecessor(i) = 0
Unsuperseded(E) == E \ {Predecessor(i) : i \in E}
EffectiveAdmission(E) ==
    IF Resolves(Distinct(E))
    THEN {i \in Unsuperseded(Distinct(E)) : \A j \in Unsuperseded(Distinct(E)) :
             hist["admission"][j].completed <= hist["admission"][i].completed}
    ELSE {}

IsOne(S) == \E i \in S : S = {i}
TheOne(S) == CHOOSE i \in S : TRUE

\* Mutant: what became effective later counts too.
EffectiveAnytime(h, s, effective) == s[h]

EffectiveBy(h, s, effective) == {i \in s[h] : hist[h][i].completed <= effective}

\* evaluate_evidence_admission_as_of: may this construction be used at analysis?
Consumable(s, analysis, cutoff) ==
    LET adm == EffectiveAdmission(EffectiveBy("admission", s, analysis)) IN
    /\ IsOne(adm)
    /\ \A rule \in 1..Rules :
          /\ Validations(rule, s, analysis) # {}
          /\ hist["admission"][TheOne(adm)].detail.selected[rule]
                = Latest(Validations(rule, s, analysis))
    /\ EffectiveBy("validity", s, analysis) # {}
    /\ analysis \in Evaluations("task", s, cutoff)
    /\ Fresh(analysis)

-----------------------------------------------------------------------------
\* Locks, and how a call begins and ends.

At(t, point) == call[t].at = point /\ call[t].waiting = <<>>

Acquire(t) ==
    /\ call[t].waiting # <<>>
    /\ owner[Head(call[t].waiting)] = NoThread
    /\ owner' = [owner EXCEPT ![Head(call[t].waiting)] = t]
    /\ call' = [call EXCEPT ![t].waiting = Tail(call[t].waiting)]
    /\ UNCHANGED <<hist, made, clock, latest>>

Released(t) == [h \in Histories |-> IF owner[h] = t THEN NoThread ELSE owner[h]]

Return(t) == call' = [call EXCEPT ![t] = Idle] /\ owner' = Released(t)

\* The thread's next call starts.
Begin(t, op, request) ==
    /\ call[t].at = "idle"
    /\ made[t] < Len(scenario.script[t]) /\ scenario.script[t][made[t] + 1] = op
    /\ made' = [made EXCEPT ![t] = @ + 1]
    /\ call' = [call EXCEPT ![t] = request]
    /\ UNCHANGED <<hist, owner, clock>>

\* Its request: about occurrence x, at a point, with the locks taken first.
Request(op, writes, x, at, locks, started) ==
    [Idle EXCEPT !.op = op, !.writes = writes, !.subject = x, !.at = at,
        !.waiting = locks, !.asked = started, !.started = started]

\* The occurrence is complete: it is staged for the history, once locked.
Stage(t, point, detail, locks) ==
    /\ call' = [call EXCEPT ![t].at = point, ![t].waiting = locks,
                    ![t].entry = [subject |-> call[t].subject, completed |-> now,
                                  available |-> 0, detail |-> detail]]
    /\ Read
    /\ UNCHANGED <<hist, owner, made, clock>>

KnownSince(h, i, instant) == hist[h][i].available <= instant

-----------------------------------------------------------------------------
\* construction: the candidate service is awaited before anything is locked.

BeginConstruct(t) ==
    /\ Begin(t, "construct", Request("construct", "construction", 0, "acquiring", <<>>, now))
    /\ Read

Construct(t) ==
    /\ At(t, "acquiring")
    /\ now >= call[t].started
    /\ Stage(t, "stamp", [started |-> call[t].started], <<"construction">>)

\* The provider failed or the candidate was refused.
AcquisitionFails(t) ==
    /\ At(t, "acquiring")
    /\ Return(t)
    /\ UNCHANGED <<hist, made, clock, latest>>

-----------------------------------------------------------------------------
\* validation and freshness: the construction is looked up under its own lock only.

BeginValidate(t) ==
    \E c \in DOMAIN hist["construction"] :
        /\ Begin(t, "validate",
                 Request("validate", "validation", c, "lookup", <<"construction">>, 0))
        /\ UNCHANGED latest

BeginFreshness(t) ==
    /\ \E c \in DOMAIN hist["construction"] :
          Begin(t, "freshness",
                Request("freshness", "freshness", c, "lookup", <<"construction">>, now))
    /\ Read

Lookup(t) ==
    /\ At(t, "lookup")
    /\ call[t].op # "validate" =>
          KnownSince("construction", call[t].subject, call[t].started)
    /\ owner' = [owner EXCEPT !["construction"] = NoThread]
    /\ call' = [call EXCEPT ![t].at = IF call[t].op = "validate" THEN "rule" ELSE "evaluate"]
    /\ UNCHANGED <<hist, made, clock, latest>>

\* One concern at a time, each published before the next starts.
RunRule(t) ==
    /\ At(t, "rule")
    /\ KnownSince("construction", call[t].subject, now)
    /\ Stage(t, "stamp", [rule |-> call[t].rule], <<"validation">>)

\* The admission rule is evaluated at the execution, a task at its analysis time.
Evaluate(t) ==
    /\ At(t, "evaluate")
    /\ now >= call[t].started
    /\ Stage(t, "stamp",
             [kind |-> IF call[t].op = "freshness" THEN "admission" ELSE "task",
              evaluation |-> IF call[t].op = "freshness" THEN now ELSE call[t].analysis],
             <<"freshness">>)

-----------------------------------------------------------------------------
\* admission: issued under the locks of everything it is decided from.

BeginAdmit(t) ==
    /\ \E c \in DOMAIN hist["construction"] :
          Begin(t, "admit",
                Request("admit", "admission", c, "prerequisites",
                        <<"construction", "validation", "freshness">>, 0))
    /\ UNCHANGED latest

Admissible(s) ==
    /\ s["construction"] # {}
    /\ \A rule \in 1..Rules : Validations(rule, s, now) # {}
    /\ Evaluations("admission", s, now) # {}
    /\ LET evaluation == Latest(Evaluations("admission", s, now)) IN
       Fresh(evaluation) /\ Date(evaluation) = Date(now)

ResolvePrerequisites(t) ==
    LET s == Snapshot(call[t].subject, now) IN
    /\ At(t, "prerequisites")
    /\ Admissible(s)
    /\ Stage(t, "predecessor",
             [predecessor |-> 0,
              selected |-> [rule \in 1..Rules |-> Latest(Validations(rule, s, now))],
              freshness |-> Latest(Evaluations("admission", s, now)),
              basis |-> [h \in Basis |->
                            IF h = "validation" THEN s[h]
                            ELSE {i \in s[h] : hist[h][i].detail.kind = "admission"}]],
             <<"admission">>)

\* Mutant: an admission published at this very reading is missed.
AdmissionsBefore(t) ==
    Visible("admission", call[t].subject, call[t].entry.completed)
        \ {i \in DOMAIN hist["admission"] :
              hist["admission"][i].available = call[t].entry.completed}

\* The admission this one follows; none is fine, an unresolvable lineage is not.
AdmissionsAt(t) == Visible("admission", call[t].subject, call[t].entry.completed)
Follows(t) == IF AdmissionsAt(t) = {} THEN 0 ELSE TheOne(EffectiveAdmission(AdmissionsAt(t)))

ReadPredecessor(t) ==
    /\ At(t, "predecessor")
    /\ AdmissionsAt(t) = {} \/ IsOne(EffectiveAdmission(AdmissionsAt(t)))
    /\ call' = [call EXCEPT ![t].at = "stamp", ![t].waiting = <<"admission">>,
                    ![t].entry.detail.predecessor = Follows(t)]
    /\ owner' = [owner EXCEPT !["admission"] = NoThread]
    /\ UNCHANGED <<hist, made, clock, latest>>

-----------------------------------------------------------------------------
\* validity: the first and only activation of a version.

BeginActivate(t) ==
    /\ \E c \in DOMAIN hist["construction"] :
          Begin(t, "activate",
                Request("activate", "validity", c, "activate",
                        <<"construction", "admission", "validity">>, 0))
    /\ UNCHANGED latest

IssueActive(t) ==
    LET visible == Visible("admission", call[t].subject, now) IN
    /\ At(t, "activate")
    /\ KnownSince("construction", call[t].subject, now)
    /\ IsOne(EffectiveAdmission(visible))
    /\ \A i \in DOMAIN hist["validity"] : hist["validity"][i].subject # call[t].subject
    /\ Stage(t, "stamp", [support |-> TheOne(EffectiveAdmission(visible)),
                          admissions |-> visible], <<>>)

-----------------------------------------------------------------------------
\* qualification: two looks under all five locks, a task evaluation in between.

InputLocks == <<"construction", "validation", "freshness", "admission", "validity">>
QualifyLocks == <<"construction", "validation", "freshness", "admission", "validity",
                  "qualification">>
BridgeLocks == <<"construction", "validation", "freshness", "admission", "validity",
                 "qualification", "bridge">>
AnalyseLocks == <<"construction", "validation", "freshness", "admission", "validity",
                  "qualification", "bridge", "technical">>

Recent == {instant \in 1..now : now <= instant + Horizon}

BeginQualify(t) ==
    /\ \E c \in DOMAIN hist["construction"], knowledge \in {0} \cup Recent, analysis \in Recent :
          Begin(t, "qualify",
                [Request("qualify", "qualification", c, "survey", InputLocks, now)
                    EXCEPT !.knowledge = knowledge, !.analysis = analysis])
    /\ Read

Cutoff(t, otherwise) == IF call[t].knowledge = 0 THEN otherwise ELSE call[t].knowledge

Tasks(s, analysis) ==
    {i \in s["freshness"] : hist["freshness"][i].detail =
                                [kind |-> "task", evaluation |-> analysis]}

\* A replay reuses the last task evaluation it can see; otherwise one is executed.
Survey(t) ==
    LET s == Snapshot(call[t].subject, Cutoff(t, call[t].asked))
        tasks == Tasks(s, call[t].analysis)
    IN
    /\ At(t, "survey")
    /\ Closed(s) /\ s["construction"] # {}
    /\ owner' = Released(t)
    /\ IF call[t].knowledge # 0 /\ tasks # {}
       THEN call' = [call EXCEPT ![t].at = "qualify",
                         ![t].waiting = QualifyLocks,
                         ![t].task = Latest(tasks)]
       ELSE call' = [call EXCEPT ![t].at = "task"]
    /\ UNCHANGED <<hist, made, clock, latest>>

StartTask(t) ==
    /\ At(t, "task")
    /\ call' = [call EXCEPT ![t].at = "lookup", ![t].waiting = <<"construction">>,
                    ![t].writes = "freshness", ![t].started = now]
    /\ Read
    /\ UNCHANGED <<hist, owner, made, clock>>

Qualifies(t, s, cutoff) ==
    /\ call[t].asked <= now /\ call[t].analysis <= cutoff
    /\ Closed(s) /\ s["construction"] # {}
    /\ call[t].task \in s["freshness"]
    /\ Consumable(s, call[t].analysis, cutoff)

Qualify(t) ==
    LET cutoff == Cutoff(t, now)
        s == Snapshot(call[t].subject, cutoff)
    IN
    /\ At(t, "qualify")
    /\ Qualifies(t, s, cutoff)
    /\ Stage(t, "stamp", [cutoff |-> cutoff, analysis |-> call[t].analysis,
                          task |-> call[t].task, context |-> s], <<>>)

-----------------------------------------------------------------------------
\* bridge and technical: a retained use is resolved again at its own cutoff.

\* _resolve of the bridge: the qualification, read at an instant, still sees the
\* histories it was qualified on.
Resolvable(q, instant) ==
    LET use == hist["qualification"][q]
        s == Snapshot(use.subject, use.detail.cutoff)
    IN
    /\ use.detail.cutoff <= use.completed /\ use.available <= instant
    /\ Closed(s)
    /\ s = use.detail.context

\* _resolve of the technical service, at the bridge's own start.
BridgeResolvable(b, instant) ==
    /\ KnownSince("bridge", b, instant)
    /\ Resolvable(hist["bridge"][b].subject, hist["bridge"][b].detail.started)

BeginBridge(t) ==
    /\ \E q \in DOMAIN hist["qualification"] :
          Begin(t, "bridge",
                Request("bridge", "bridge", q, "bridge", BridgeLocks, now))
    /\ Read

Bridge(t) ==
    /\ At(t, "bridge")
    /\ Resolvable(call[t].subject, call[t].started) /\ call[t].started <= now
    /\ Stage(t, "stamp", [started |-> call[t].started], <<>>)

BeginAnalyse(t) ==
    /\ \E b \in DOMAIN hist["bridge"] :
          Begin(t, "analyse",
                Request("analyse", "technical", b, "analyse", AnalyseLocks, now))
    /\ Read

Analyse(t) ==
    /\ At(t, "analyse")
    /\ BridgeResolvable(call[t].subject, call[t].started) /\ call[t].started <= now
    /\ Stage(t, "stamp", [started |-> call[t].started], <<>>)

-----------------------------------------------------------------------------
\* Publication, the same in every history: availability is read and the
\* occurrence appended while the lock is held.

LastAvailable(h) == IF hist[h] = <<>> THEN 0 ELSE hist[h][Len(hist[h])].available

\* Mutant: the completion may be later than the availability.
PublishableBackwards(t) ==
    /\ Availability >= LastAvailable(call[t].writes)
    /\ call[t].op = "admit" => call[t].entry.detail.predecessor = Follows(t)

Publishable(t) ==
    /\ Availability >= call[t].entry.completed
    /\ Availability >= LastAvailable(call[t].writes)
    /\ call[t].op = "admit" =>
          call[t].entry.detail.predecessor = Follows(t)

\* Mutant: the availability is the reading taken before the lock.
StampsCompletion(t) ==
    /\ At(t, "stamp")
    /\ Publishable(t)
    /\ call' = [call EXCEPT ![t].at = "append", ![t].entry.available = call[t].entry.completed]
    /\ ReadAvailability
    /\ UNCHANGED <<hist, owner, made>>

Stamp(t) ==
    /\ At(t, "stamp")
    /\ Publishable(t)
    /\ call' = [call EXCEPT ![t].at = "append", ![t].entry.available = Availability]
    /\ ReadAvailability
    /\ UNCHANGED <<hist, owner, made>>

\* Mutant: one concern too many.
ProfileOverruns(t) == call[t].op = "validate" /\ call[t].rule <= Rules

ProfileContinues(t) == call[t].op = "validate" /\ call[t].rule < Rules

\* The task evaluation of a qualification, and not an earlier one than it asked for.
SecondLook(t) ==
    /\ call[t].op = "qualify" /\ call[t].writes = "freshness"
    /\ call[t].started >= call[t].asked

\* A profile goes on to its next concern, a qualification to its second look.
Publish(t) ==
    /\ At(t, "append")
    /\ hist' = [hist EXCEPT ![call[t].writes] = Append(@, call[t].entry)]
    /\ owner' = Released(t)
    /\ \/ /\ ProfileContinues(t)
          /\ call' = [call EXCEPT ![t].at = "rule", ![t].rule = @ + 1]
       \/ /\ SecondLook(t)
          /\ call' = [call EXCEPT ![t].at = "qualify", ![t].writes = "qualification",
                          ![t].waiting = QualifyLocks, ![t].task = Len(hist["freshness"]) + 1]
       \/ /\ ~ProfileContinues(t) /\ ~SecondLook(t)
          /\ call' = [call EXCEPT ![t] = Idle]
    /\ UNCHANGED <<made, clock, latest>>

-----------------------------------------------------------------------------
\* Every check that fails ends the call; what it retained before stays retained.

Refused(t) ==
    LET c == call[t].subject  started == call[t].started IN
    \/ At(t, "acquiring") /\ now < started
    \/ /\ At(t, "lookup") /\ call[t].op # "validate"
       /\ ~KnownSince("construction", c, started)
    \/ At(t, "rule") /\ ~KnownSince("construction", c, now)
    \/ At(t, "evaluate") /\ now < started
    \/ At(t, "prerequisites") /\ ~Admissible(Snapshot(c, now))
    \/ /\ At(t, "predecessor")
       /\ AdmissionsAt(t) # {} /\ ~IsOne(EffectiveAdmission(AdmissionsAt(t)))
    \/ /\ At(t, "activate")
       /\ \/ ~KnownSince("construction", c, now)
          \/ ~IsOne(EffectiveAdmission(Visible("admission", c, now)))
          \/ \E i \in DOMAIN hist["validity"] : hist["validity"][i].subject = c
    \/ /\ At(t, "survey")
       /\ LET s == Snapshot(c, Cutoff(t, call[t].asked)) IN
          ~Closed(s) \/ s["construction"] = {}
    \/ At(t, "qualify") /\ ~Qualifies(t, Snapshot(c, Cutoff(t, now)), Cutoff(t, now))
    \/ At(t, "bridge") /\ (~Resolvable(c, started) \/ now < started)
    \/ At(t, "analyse") /\ (~BridgeResolvable(c, started) \/ now < started)
    \/ At(t, "stamp") /\ ~Publishable(t)

Refuse(t) ==
    /\ Refused(t)
    /\ Return(t)
    /\ Read
    /\ UNCHANGED <<hist, made, clock>>

-----------------------------------------------------------------------------

Start(t) ==
    \/ BeginConstruct(t) \/ BeginValidate(t) \/ BeginFreshness(t) \/ BeginAdmit(t)
    \/ BeginActivate(t) \/ BeginQualify(t) \/ BeginBridge(t) \/ BeginAnalyse(t)

Step(t) ==
    \/ Acquire(t) \/ Construct(t) \/ AcquisitionFails(t) \/ Lookup(t)
    \/ RunRule(t) \/ Evaluate(t) \/ ResolvePrerequisites(t) \/ ReadPredecessor(t) \/ IssueActive(t)
    \/ Survey(t) \/ StartTask(t) \/ Qualify(t) \/ Bridge(t) \/ Analyse(t)
    \/ Stamp(t) \/ Publish(t) \/ Refuse(t)

\* Every call has returned.
AllIdle ==
    /\ \A t \in Threads : call[t].at = "idle"
    /\ UNCHANGED vars

Next ==
    \/ Move \/ AllIdle
    \/ \E t \in Threads : Start(t) \/ Step(t)

Spec == Init /\ [][Next]_vars

-----------------------------------------------------------------------------
\* Properties.

TypeOK ==
    /\ \A h \in Histories : hist[h] \in Seq(Entry(h))
    /\ DOMAIN hist = Histories
    /\ owner \in [Histories -> Threads \cup {NoThread}]
    /\ call \in [Threads -> Calls]
    /\ \A t \in Threads : call[t].at \in {"predecessor", "stamp", "append"} =>
          call[t].entry \in Entry(call[t].writes)
    /\ made \in [Threads -> Nat]
    /\ scenario \in Scenarios /\ now \in Nat /\ latest \in Nat /\ moves \in Nat

\* What a retained qualification knew at its cutoff never changes, whatever is
\* published afterwards, so its bridge and its analyses stay resolvable
\* (PolygonCompletedDailyProductionBridgeApplicationService._resolve refuses a
\* use whose histories read differently from how they did): a prior use is not
\* erased by what is issued later (ADR 0039, line 621).
UsesStayResolvable ==
    /\ \A q \in DOMAIN hist["qualification"] :
          Resolvable(q, hist["qualification"][q].available)
    /\ \A i \in DOMAIN hist["technical"] :
          BridgeResolvable(hist["technical"][i].subject, hist["technical"][i].detail.started)

\* The same where no two readings of the clock are equal and none goes back.
DistinctReadingsKeepUses == scenario.clock = "distinct" => UsesStayResolvable

\* Whatever the clock does, at every cutoff the snapshot of a version is closed:
\* no record becomes known before the records it was decided from (_snapshot
\* would refuse every qualification of the version at that cutoff).
EverySnapshotIsClosed ==
    \A c \in DOMAIN hist["construction"], cutoff \in 0..latest :
        Closed(Snapshot(c, cutoff))

\* The admissions of a version form one chain in the order they were retained,
\* though the predecessor is resolved by time and in a lock region of its own;
\* a fork would make every later reading of the lineage fail.  A clock set back
\* can fork it.
AdmissionsFormOneChain ==
    scenario.clock # "adjusted" =>
        \A i \in DOMAIN hist["admission"] :
            LET earlier == {j \in 1..(i - 1) : hist["admission"][j].subject
                                                   = hist["admission"][i].subject} IN
            \/ earlier = {} /\ Predecessor(i) = 0
            \/ Predecessor(i) \in earlier /\ \A j \in earlier : j <= Predecessor(i)

\* A qualified use rests on an activation that rests on an admission that rests
\* on validations, each known before the next was issued and all of them by
\* the analysis time, whoever issued what in between and whatever the clock did.
GovernancePrecedesUse ==
    \A q \in DOMAIN hist["qualification"] :
        LET use == hist["qualification"][q]
            s == use.detail.context
        IN
        /\ hist["freshness"][use.detail.task].available <= use.detail.cutoff
        /\ \E i \in s["validity"] :
              LET active == hist["validity"][i]
                  support == hist["admission"][active.detail.support]
              IN
              /\ active.completed <= use.detail.analysis
              /\ support.available <= active.completed
              /\ \A rule \in 1..Rules : \E j \in s["validation"] :
                    /\ hist["validation"][j].detail.rule = rule
                    /\ hist["validation"][j].completed = support.detail.selected[rule]
                    /\ hist["validation"][j].available <= support.completed
        /\ \E i \in s["admission"] :
              /\ hist["admission"][i].completed <= use.detail.analysis
              /\ \A j \in s["validation"] :
                    hist["validation"][j].completed <= use.detail.analysis =>
                        hist["validation"][j].completed <=
                            hist["admission"][i].detail.selected[hist["validation"][j].detail.rule]

\* A thread only ever waits for a lock that comes later in the frozen order
\* than every lock it holds, so no calls wait for one another in a circle and
\* none waits for itself: the locks are not reentrant (ADR 0040, Lock ordering).
WaitsClimb ==
    \A t, u \in Threads :
        /\ call[t].waiting # <<>> /\ call[u].waiting # <<>>
        /\ owner[Head(call[t].waiting)] = u
        => Rank[Head(call[t].waiting)] < Rank[Head(call[u].waiting)]
=============================================================================
