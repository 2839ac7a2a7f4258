------------------------ MODULE GovernedEvidenceProofs ------------------------
(***************************************************************************)
(* The governed pipeline with any number of threads, rules and calls.      *)
(***************************************************************************)
EXTENDS GovernedEvidence, WellFoundedInduction, SequenceTheorems, TLAPS

-----------------------------------------------------------------------------
(* Latest *)

Less == {p \in Nat \X Nat : p[1] < p[2]}

LEMMA LessIsWellFounded == IsWellFoundedOn(Less, Nat)
BY NatLessThanWellFounded DEF OpToRel, Less

\* A non-empty set of numbers with an upper bound has a greatest element, and
\* that is what Latest returns.
LEMMA LatestIsGreatest ==
    ASSUME NEW times \in SUBSET Nat, times # {}, NEW bound \in Nat,
           \A t \in times : t <= bound
    PROVE  Latest(times) \in times /\ \A t \in times : t <= Latest(times)
<1> DEFINE Bounds == {b \in Nat : \A t \in times : t <= b}
<1>1. PICK least \in Bounds : \A b \in Bounds : ~ (<<b, least>> \in Less)
    <2>1. bound \in Bounds
        OBVIOUS
    <2>2. Bounds \subseteq Nat /\ Bounds # {}
        BY <2>1
    <2> HIDE DEF Bounds
    <2> QED BY <2>2, LessIsWellFounded, WFMin
<1>2. \A b \in Bounds : ~ (b < least)
    BY <1>1 DEF Less
<1>3. least \in times
    <2> SUFFICES ASSUME least \notin times PROVE FALSE
        OBVIOUS
    <2>1. PICK t \in times : TRUE
        OBVIOUS
    <2>2. t <= least /\ t # least /\ t \in Nat /\ least \in Nat
        BY <2>1
    <2>3. least - 1 \in Bounds
        BY <2>2
    <2> QED BY <1>2, <2>2, <2>3
<1>4. \E t \in times : \A u \in times : u <= t
    BY <1>3
<1> QED BY <1>4 DEF Latest

-----------------------------------------------------------------------------
(* Occurrences and calls *)

Entries == Entry("validation") \cup Entry("freshness") \cup Entry("admission")
           \cup Entry("validity") \cup Entry("qualification") \cup Entry("construction")

\* What each history retains.
LEMMA EntryFields ==
    ASSUME NEW h \in Histories, NEW e \in Entry(h)
    PROVE  /\ e.subject \in Nat /\ e.completed \in Nat /\ e.available \in Nat
           /\ e.detail \in Detail(h)
           /\ e = [subject |-> e.subject, completed |-> e.completed,
                   available |-> e.available, detail |-> e.detail]
BY DEF Entry

LEMMA EntriesCover ==
    /\ \A h \in Histories : Entry(h) \subseteq Entries
    /\ NoEntry \in Entries
<1>1. /\ Entry("bridge") = Entry("construction")
      /\ Entry("technical") = Entry("construction")
    BY DEF Entry, Detail
<1>2. NoEntry \in Entry("construction")
    BY DEF NoEntry, Entry, Detail
<1> HIDE DEF Entry
<1> QED BY <1>1, <1>2 DEF Entries, Histories

LEMMA CallsAre ==
    Calls = [op: Ops, at: Points, waiting: Seq(Histories), writes: Histories,
             subject: Nat, asked: Nat, started: Nat, knowledge: Nat, analysis: Nat,
             task: Nat, rule: 1..Rules, entry: Entries]
BY DEF Calls, Entries

LEMMA IdleIsACall == Idle \in Calls
<1>1. NoEntry \in Entries
    BY EntriesCover
<1>2. 1 \in 1..Rules
    BY GovernedAssumption
<1>3. <<>> \in Seq(Histories)
    OBVIOUS
<1> QED BY <1>1, <1>2, <1>3, CallsAre DEF Idle, Ops, Points, Histories

\* Which history a call writes at each of its points.
Leg(op, at, writes) ==
    /\ at = "acquiring" => op = "construct" /\ writes = "construction"
    /\ at = "lookup" => \/ op = "validate" /\ writes = "validation"
                        \/ op \in {"freshness", "qualify"} /\ writes = "freshness"
    /\ at = "rule" => op = "validate" /\ writes = "validation"
    /\ at = "evaluate" => op \in {"freshness", "qualify"} /\ writes = "freshness"
    /\ at \in {"prerequisites", "predecessor"} => op = "admit" /\ writes = "admission"
    /\ at = "activate" => op = "activate" /\ writes = "validity"
    /\ at \in {"survey", "task", "qualify"} => op = "qualify" /\ writes = "qualification"
    /\ at = "bridge" => op = "bridge" /\ writes = "bridge"
    /\ at = "analyse" => op = "analyse" /\ writes = "technical"
    /\ at \in {"stamp", "append"} =>
          /\ op = "validate" => writes = "validation"
          /\ op = "admit" <=> writes = "admission"
          /\ op = "qualify" => writes \in {"freshness", "qualification"}
          /\ writes = "freshness" => op \in {"freshness", "qualify"}
          /\ writes = "qualification" => op = "qualify"

\* The staged occurrence is one of the history the call writes.
StagedOf(c) == c.at \in {"predecessor", "stamp", "append"} => c.entry \in Entry(c.writes)

GoodCall(c) == c \in Calls /\ Leg(c.op, c.at, c.writes) /\ StagedOf(c)

TypeInv ==
    /\ TypeOK
    /\ \A t \in Threads : Leg(call[t].op, call[t].at, call[t].writes)

LEMMA TypeInvIs ==
    TypeInv <=>
        /\ \A h \in Histories : hist[h] \in Seq(Entry(h))
        /\ DOMAIN hist = Histories
        /\ owner \in [Histories -> Threads \cup {NoThread}]
        /\ call \in [Threads -> Calls]
        /\ \A t \in Threads : GoodCall(call[t])
        /\ made \in [Threads -> Nat]
        /\ scenario \in Scenarios /\ now \in Nat /\ latest \in Nat /\ moves \in Nat
BY DEF TypeInv, TypeOK, GoodCall, StagedOf

\* What a step must show when it changes one call and no history.
LEMMA OneCall ==
    ASSUME TypeInv, NEW t \in Threads, NEW c, GoodCall(c),
           call' = [call EXCEPT ![t] = c],
           UNCHANGED hist,
           owner' \in [Histories -> Threads \cup {NoThread}],
           made' \in [Threads -> Nat],
           scenario' \in Scenarios, now' \in Nat, latest' \in Nat, moves' \in Nat
    PROVE  TypeInv'
<1>1. call' \in [Threads -> Calls] /\ \A u \in Threads : GoodCall(call'[u])
    BY TypeInvIs DEF GoodCall
<1>2. \A h \in Histories : hist'[h] \in Seq(Entry(h)) /\ DOMAIN hist' = Histories
    BY TypeInvIs
<1> HIDE DEF TypeInv
<1>3. TypeInv' <=>
        /\ \A h \in Histories : hist'[h] \in Seq(Entry(h))
        /\ DOMAIN hist' = Histories
        /\ owner' \in [Histories -> Threads \cup {NoThread}]
        /\ call' \in [Threads -> Calls]
        /\ \A u \in Threads : GoodCall(call'[u])
        /\ made' \in [Threads -> Nat]
        /\ scenario' \in Scenarios /\ now' \in Nat /\ latest' \in Nat /\ moves' \in Nat
    BY DEF TypeInv, TypeOK, GoodCall, StagedOf
<1> QED BY <1>1, <1>2, <1>3 DEF Histories

LEMMA ReadingIsANumber ==
    ASSUME now \in Nat, latest \in Nat, Read
    PROVE  latest' \in Nat
BY DEF Read

\* Staging an occurrence whose detail is of the history written.
LEMMA StageKeepsTypes ==
    ASSUME TypeInv, NEW t \in Threads, NEW point \in {"predecessor", "stamp"},
           NEW detail, detail \in Detail(call[t].writes),
           NEW locks \in Seq(Histories),
           Stage(t, point, detail, locks),
           Leg(call[t].op, point, call[t].writes)
    PROVE  TypeInv'
<1> DEFINE e == [subject |-> call[t].subject, completed |-> now,
                 available |-> 0, detail |-> detail]
           c == [call[t] EXCEPT !.at = point, !.waiting = locks, !.entry = e]
<1>1. call[t] \in Calls /\ call \in [Threads -> Calls] /\ now \in Nat /\ latest \in Nat
    BY TypeInvIs
<1>2. call[t].subject \in Nat /\ call[t].writes \in Histories
    BY <1>1, CallsAre
<1>3. e \in Entry(call[t].writes)
    BY <1>1, <1>2 DEF Entry
<1>4. e \in Entries
    BY <1>2, <1>3, EntriesCover
<1>5. call' = [call EXCEPT ![t] = c]
    BY <1>1 DEF Stage
<1>6. c \in Calls /\ c.at = point /\ c.entry = e /\ c.writes = call[t].writes /\ c.op = call[t].op
    <2> HIDE DEF e
    <2> QED BY <1>1, <1>4, CallsAre DEF Points
<1> HIDE DEF c, e
<1>7. GoodCall(c)
    BY <1>3, <1>6 DEF GoodCall, StagedOf
<1>8. /\ UNCHANGED hist /\ latest' \in Nat
      /\ owner' \in [Histories -> Threads \cup {NoThread}] /\ made' \in [Threads -> Nat]
      /\ scenario' \in Scenarios /\ now' \in Nat /\ moves' \in Nat
    BY TypeInvIs, ReadingIsANumber DEF Stage, clock
<1> QED BY <1>5, <1>7, <1>8, OneCall

\* A call may begin at this point, with nothing staged yet.
Opens(op, at, writes) ==
    /\ op \in Ops /\ at \in Points \ {"predecessor", "stamp", "append"}
    /\ writes \in Histories /\ Leg(op, at, writes)

LEMMA RequestIsGood ==
    ASSUME NEW op, NEW at, NEW writes, Opens(op, at, writes),
           NEW x \in Nat, NEW locks \in Seq(Histories), NEW started \in Nat
    PROVE  /\ GoodCall(Request(op, writes, x, at, locks, started))
           /\ Request(op, writes, x, at, locks, started).at = at
           /\ Request(op, writes, x, at, locks, started).waiting = locks
           /\ Request(op, writes, x, at, locks, started).writes = writes
           /\ Request(op, writes, x, at, locks, started).op = op
           /\ Request(op, writes, x, at, locks, started).subject = x
<1> DEFINE r == Request(op, writes, x, at, locks, started)
<1>1. /\ r \in Calls /\ r.op = op /\ r.at = at /\ r.writes = writes /\ r.waiting = locks
      /\ r.subject = x
    BY IdleIsACall, CallsAre DEF Request, Opens
<1> HIDE DEF r
<1>2. GoodCall(r)
    BY <1>1 DEF GoodCall, StagedOf, Opens
<1> QED BY <1>1, <1>2 DEF r

LEMMA CallsOpen ==
    /\ Opens("construct", "acquiring", "construction") /\ Opens("validate", "lookup", "validation")
    /\ Opens("freshness", "lookup", "freshness") /\ Opens("admit", "prerequisites", "admission")
    /\ Opens("activate", "activate", "validity") /\ Opens("qualify", "survey", "qualification")
    /\ Opens("bridge", "bridge", "bridge") /\ Opens("analyse", "analyse", "technical")
BY DEF Opens, Leg, Ops, Points, Histories

LEMMA BeginKeepsTypes ==
    ASSUME TypeInv, NEW t \in Threads, NEW op, NEW request,
           Begin(t, op, request), GoodCall(request), latest' \in Nat
    PROVE  TypeInv'
<1>1. /\ call' = [call EXCEPT ![t] = request] /\ UNCHANGED hist
      /\ owner' \in [Histories -> Threads \cup {NoThread}] /\ made' \in [Threads -> Nat]
      /\ scenario' \in Scenarios /\ now' \in Nat /\ moves' \in Nat
    BY TypeInvIs DEF Begin, clock
<1> QED BY <1>1, OneCall

LEMMA ReturnKeepsTypes ==
    ASSUME TypeInv, NEW t \in Threads, Return(t), UNCHANGED <<hist, made, clock>>,
           latest' \in Nat
    PROVE  TypeInv'
<1>1. GoodCall(Idle)
    BY IdleIsACall DEF GoodCall, StagedOf, Leg, Idle
<1>2. /\ call' = [call EXCEPT ![t] = Idle] /\ UNCHANGED hist
      /\ owner' \in [Histories -> Threads \cup {NoThread}] /\ made' \in [Threads -> Nat]
      /\ scenario' \in Scenarios /\ now' \in Nat /\ moves' \in Nat
    BY TypeInvIs DEF Return, Released, clock
<1> QED BY <1>1, <1>2, OneCall

LEMMA LockTuples ==
    /\ InputLocks \in Seq(Histories) /\ QualifyLocks \in Seq(Histories)
    /\ BridgeLocks \in Seq(Histories) /\ AnalyseLocks \in Seq(Histories)
    /\ <<>> \in Seq(Histories)
    /\ \A h \in Histories : <<h>> \in Seq(Histories)
    /\ <<"construction">> \in Seq(Histories)
    /\ <<"construction", "validation", "freshness">> \in Seq(Histories)
    /\ <<"construction", "admission", "validity">> \in Seq(Histories)
BY DEF InputLocks, QualifyLocks, BridgeLocks, AnalyseLocks, Histories

LEMMA IndicesAreNumbers ==
    ASSUME TypeInv, NEW h \in Histories
    PROVE  /\ DOMAIN hist[h] \subseteq Nat
           /\ DOMAIN hist[h] = 1..Len(hist[h]) /\ Len(hist[h]) \in Nat
           /\ \A i \in DOMAIN hist[h] : hist[h][i] \in Entry(h)
<1>1. hist[h] \in Seq(Entry(h))
    BY TypeInvIs
<1> QED BY <1>1

LEMMA StartKeepsTypes ==
    ASSUME TypeInv, NEW t \in Threads, Start(t)
    PROVE  TypeInv'
<1>1. now \in Nat /\ latest \in Nat
    BY TypeInvIs
<1>2. /\ DOMAIN hist["construction"] \subseteq Nat /\ DOMAIN hist["qualification"] \subseteq Nat
      /\ DOMAIN hist["bridge"] \subseteq Nat
    BY IndicesAreNumbers DEF Histories
<1>3. CASE BeginConstruct(t)
    <2>1. GoodCall(Request("construct", "construction", 0, "acquiring", <<>>, now))
        BY <1>1, RequestIsGood, LockTuples, CallsOpen
    <2> QED BY <1>1, <1>3, <2>1, BeginKeepsTypes, ReadingIsANumber DEF BeginConstruct
<1>4. CASE BeginValidate(t)
    <2>1. PICK c \in DOMAIN hist["construction"] :
              /\ Begin(t, "validate",
                       Request("validate", "validation", c, "lookup", <<"construction">>, 0))
              /\ UNCHANGED latest
        BY <1>4 DEF BeginValidate
    <2>2. GoodCall(Request("validate", "validation", c, "lookup", <<"construction">>, 0))
        BY <1>2, RequestIsGood, LockTuples, CallsOpen
    <2> QED BY <1>1, <2>1, <2>2, BeginKeepsTypes
<1>5. CASE BeginFreshness(t)
    <2>1. PICK c \in DOMAIN hist["construction"] :
              Begin(t, "freshness",
                    Request("freshness", "freshness", c, "lookup", <<"construction">>, now))
        BY <1>5 DEF BeginFreshness
    <2>2. GoodCall(Request("freshness", "freshness", c, "lookup", <<"construction">>, now))
        BY <1>1, <1>2, RequestIsGood, LockTuples, CallsOpen
    <2> QED BY <1>1, <1>5, <2>1, <2>2, BeginKeepsTypes, ReadingIsANumber DEF BeginFreshness
<1>6. CASE BeginAdmit(t)
    <2> DEFINE r(c) == Request("admit", "admission", c, "prerequisites",
                               <<"construction", "validation", "freshness">>, 0)
    <2>1. PICK c \in DOMAIN hist["construction"] : Begin(t, "admit", r(c)) /\ UNCHANGED latest
        BY <1>6 DEF BeginAdmit
    <2>2. GoodCall(r(c))
        BY <1>2, RequestIsGood, LockTuples, CallsOpen
    <2> QED BY <1>1, <2>1, <2>2, BeginKeepsTypes
<1>7. CASE BeginActivate(t)
    <2> DEFINE r(c) == Request("activate", "validity", c, "activate",
                               <<"construction", "admission", "validity">>, 0)
    <2>1. PICK c \in DOMAIN hist["construction"] : Begin(t, "activate", r(c)) /\ UNCHANGED latest
        BY <1>7 DEF BeginActivate
    <2>2. GoodCall(r(c))
        BY <1>2, RequestIsGood, LockTuples, CallsOpen
    <2> QED BY <1>1, <2>1, <2>2, BeginKeepsTypes
<1>8. CASE BeginQualify(t)
    <2> DEFINE r(c) == Request("qualify", "qualification", c, "survey", InputLocks, now)
               q(c, k, a) == [r(c) EXCEPT !.knowledge = k, !.analysis = a]
    <2>1. PICK c \in DOMAIN hist["construction"], k \in {0} \cup Recent, a \in Recent :
              Begin(t, "qualify", q(c, k, a))
        BY <1>8 DEF BeginQualify
    <2>2. GoodCall(r(c))
        BY <1>1, <1>2, RequestIsGood, LockTuples, CallsOpen
    <2>5. r(c).at = "survey"
        BY IdleIsACall, CallsAre DEF Request
    <2>3. k \in Nat /\ a \in Nat
        BY <1>1 DEF Recent
    <2> HIDE DEF r
    <2>4. GoodCall(q(c, k, a))
        BY <2>2, <2>3, <2>5, CallsAre DEF GoodCall, StagedOf
    <2> QED BY <1>1, <1>8, <2>1, <2>4, BeginKeepsTypes, ReadingIsANumber DEF BeginQualify
<1>9. CASE BeginBridge(t)
    <2>1. PICK q \in DOMAIN hist["qualification"] :
              Begin(t, "bridge", Request("bridge", "bridge", q, "bridge", BridgeLocks, now))
        BY <1>9 DEF BeginBridge
    <2>2. GoodCall(Request("bridge", "bridge", q, "bridge", BridgeLocks, now))
        BY <1>1, <1>2, RequestIsGood, LockTuples, CallsOpen
    <2> QED BY <1>1, <1>9, <2>1, <2>2, BeginKeepsTypes, ReadingIsANumber DEF BeginBridge
<1>10. CASE BeginAnalyse(t)
    <2>1. PICK b \in DOMAIN hist["bridge"] :
              Begin(t, "analyse", Request("analyse", "technical", b, "analyse", AnalyseLocks, now))
        BY <1>10 DEF BeginAnalyse
    <2>2. GoodCall(Request("analyse", "technical", b, "analyse", AnalyseLocks, now))
        BY <1>1, <1>2, RequestIsGood, LockTuples, CallsOpen
    <2> QED BY <1>1, <1>10, <2>1, <2>2, BeginKeepsTypes, ReadingIsANumber DEF BeginAnalyse
<1> QED BY <1>3, <1>4, <1>5, <1>6, <1>7, <1>8, <1>9, <1>10 DEF Start

-----------------------------------------------------------------------------
(* What the histories say *)

LEMMA DetailIs ==
    /\ Detail("validation") = [rule: 1..Rules]
    /\ Detail("freshness") = [kind: {"admission", "task"}, evaluation: Nat]
    /\ Detail("admission") = [predecessor: Nat, selected: [1..Rules -> Nat],
                              freshness: Nat, basis: [Basis -> SUBSET Nat]]
    /\ Detail("validity") = [support: Nat, admissions: SUBSET Nat]
    /\ Detail("qualification") = [cutoff: Nat, analysis: Nat, task: Nat,
                                  context: [Inputs -> SUBSET Nat]]
    /\ Detail("construction") = [started: Nat]
    /\ Detail("bridge") = [started: Nat]
    /\ Detail("technical") = [started: Nat]
BY DEF Detail

LEMMA SnapshotIndices ==
    ASSUME TypeInv, NEW c, NEW cutoff
    PROVE  /\ \A h \in Inputs : /\ Snapshot(c, cutoff)[h] = Visible(h, c, cutoff)
                                 /\ Snapshot(c, cutoff)[h] \subseteq DOMAIN hist[h]
                                 /\ Snapshot(c, cutoff)[h] \subseteq Nat
           /\ Snapshot(c, cutoff) \in [Inputs -> SUBSET Nat]
<1>1. \A h \in Inputs : DOMAIN hist[h] \subseteq Nat
    BY IndicesAreNumbers DEF Histories, Inputs
<1>2. \A h \in Inputs : Visible(h, c, cutoff) \subseteq DOMAIN hist[h]
    BY DEF Visible
<1>3. \A h \in Inputs : Visible(h, c, cutoff) \in SUBSET Nat
    BY <1>1, <1>2
<1>4. \A h \in Inputs : Snapshot(c, cutoff)[h] = Visible(h, c, cutoff)
    BY DEF Snapshot
<1>5. Snapshot(c, cutoff) \in [Inputs -> SUBSET Nat]
    BY <1>3 DEF Snapshot
<1> QED BY <1>2, <1>3, <1>4, <1>5

LEMMA TimesAreNumbers ==
    ASSUME TypeInv, NEW c, NEW cutoff, NEW bound \in Nat
    PROVE  /\ \A rule \in 1..Rules :
                /\ Validations(rule, Snapshot(c, cutoff), bound) \subseteq Nat
                /\ \A u \in Validations(rule, Snapshot(c, cutoff), bound) : u <= bound
           /\ \A kind \in {"admission", "task"} :
                /\ Evaluations(kind, Snapshot(c, cutoff), bound) \subseteq Nat
                /\ \A u \in Evaluations(kind, Snapshot(c, cutoff), bound) : u <= bound
<1>1. /\ \A i \in Snapshot(c, cutoff)["validation"] : hist["validation"][i].completed \in Nat
      /\ \A i \in Snapshot(c, cutoff)["freshness"] :
            hist["freshness"][i].detail.evaluation \in Nat
    <2>1. /\ Snapshot(c, cutoff)["validation"] \subseteq DOMAIN hist["validation"]
          /\ Snapshot(c, cutoff)["freshness"] \subseteq DOMAIN hist["freshness"]
        BY SnapshotIndices DEF Inputs
    <2>2. /\ \A i \in DOMAIN hist["validation"] : hist["validation"][i] \in Entry("validation")
          /\ \A i \in DOMAIN hist["freshness"] : hist["freshness"][i] \in Entry("freshness")
        BY IndicesAreNumbers DEF Histories
    <2>3. \A e \in Entry("freshness") : e.detail.evaluation \in Nat
        <3>1. \A e \in Entry("freshness") : e.detail \in Detail("freshness")
            BY DEF Entry
        <3>2. \A d \in Detail("freshness") : d.evaluation \in Nat
            <4>1. Detail("freshness") = [kind: {"admission", "task"}, evaluation: Nat]
                BY DetailIs
            <4> QED BY <4>1
        <3> QED BY <3>1, <3>2
    <2>4. \A e \in Entry("validation") : e.completed \in Nat
        BY DEF Entry
    <2> QED BY <2>1, <2>2, <2>3, <2>4
<1> QED BY <1>1 DEF Validations, Evaluations

LEMMA EffectiveIsOneOfThem ==
    ASSUME NEW E, IsOne(EffectiveAdmission(E))
    PROVE  TheOne(EffectiveAdmission(E)) \in E
<1>1. EffectiveAdmission(E) \subseteq E
    BY DEF EffectiveAdmission, Unsuperseded, Distinct
<1> QED BY <1>1 DEF IsOne, TheOne

LEMMA AdmissionIndices ==
    ASSUME TypeInv, NEW c, NEW cutoff
    PROVE  /\ Visible("admission", c, cutoff) \subseteq DOMAIN hist["admission"]
           /\ Visible("admission", c, cutoff) \subseteq Nat
<1>1. DOMAIN hist["admission"] \subseteq Nat
    BY IndicesAreNumbers DEF Histories
<1> QED BY <1>1 DEF Visible

-----------------------------------------------------------------------------
(* Types *)

LEMMA DecisionKeepsTypes ==
    ASSUME TypeInv, NEW t \in Threads,
           \/ RunRule(t) \/ Evaluate(t) \/ ResolvePrerequisites(t) \/ IssueActive(t)
    PROVE  TypeInv'
<1>1. /\ now \in Nat /\ call[t].op \in Ops /\ call[t].rule \in 1..Rules /\ call[t].analysis \in Nat
      /\ Leg(call[t].op, call[t].at, call[t].writes)
    BY TypeInvIs, CallsAre DEF GoodCall
<1>2. CASE RunRule(t)
    <2>1. call[t].at = "rule" /\ call[t].writes = "validation" /\ call[t].op = "validate"
        BY <1>1, <1>2 DEF RunRule, At, Leg
    <2>2. [rule |-> call[t].rule] \in Detail(call[t].writes)
        BY <1>1, <2>1, DetailIs
    <2>3. Leg(call[t].op, "stamp", call[t].writes)
        BY <2>1 DEF Leg
    <2> QED BY <1>2, <2>1, <2>2, <2>3, LockTuples, StageKeepsTypes DEF RunRule, Histories
<1>3. CASE Evaluate(t)
    <2> DEFINE d == [kind |-> IF call[t].op = "freshness" THEN "admission" ELSE "task",
                     evaluation |-> IF call[t].op = "freshness" THEN now ELSE call[t].analysis]
    <2>1. call[t].writes = "freshness" /\ call[t].op \in {"freshness", "qualify"}
        BY <1>1, <1>3 DEF Evaluate, At, Leg
    <2>2. d \in Detail(call[t].writes)
        BY <1>1, <2>1, DetailIs
    <2>3. Leg(call[t].op, "stamp", call[t].writes)
        BY <2>1 DEF Leg
    <2>4. Stage(t, "stamp", d, <<"freshness">>)
        BY <1>3 DEF Evaluate
    <2>5. <<"freshness">> \in Seq(Histories)
        BY LockTuples DEF Histories
    <2> HIDE DEF d
    <2> QED BY <2>2, <2>3, <2>4, <2>5, StageKeepsTypes
<1>4. CASE ResolvePrerequisites(t)
    <2> DEFINE s == Snapshot(call[t].subject, now)
               selected == [rule \in 1..Rules |-> Latest(Validations(rule, s, now))]
               freshness == Latest(Evaluations("admission", s, now))
               basis == [h \in Basis |->
                            IF h = "validation" THEN s[h]
                            ELSE {i \in s[h] : hist[h][i].detail.kind = "admission"}]
               d == [predecessor |-> 0, selected |-> selected, freshness |-> freshness,
                     basis |-> basis]
    <2>1. /\ call[t].writes = "admission" /\ call[t].op = "admit"
          /\ Admissible(s) /\ Stage(t, "predecessor", d, <<"admission">>)
        BY <1>1, <1>4 DEF ResolvePrerequisites, At, Leg
    <2>2. selected \in [1..Rules -> Nat]
        <3>1. \A rule \in 1..Rules :
                 /\ Validations(rule, s, now) # {} /\ Validations(rule, s, now) \subseteq Nat
                 /\ \A u \in Validations(rule, s, now) : u <= now
            BY <1>1, <2>1, TimesAreNumbers DEF Admissible
        <3>2. \A rule \in 1..Rules : Latest(Validations(rule, s, now)) \in Nat
            BY <1>1, <3>1, LatestIsGreatest
        <3> QED BY <3>2
    <2>3. freshness \in Nat
        <3>1. /\ Evaluations("admission", s, now) # {}
              /\ Evaluations("admission", s, now) \subseteq Nat
              /\ \A u \in Evaluations("admission", s, now) : u <= now
            BY <1>1, <2>1, TimesAreNumbers DEF Admissible
        <3> QED BY <1>1, <3>1, LatestIsGreatest
    <2>4. basis \in [Basis -> SUBSET Nat]
        <3>1. s["validation"] \subseteq Nat /\ s["freshness"] \subseteq Nat
            BY SnapshotIndices DEF Inputs
        <3> QED BY <3>1 DEF Basis
    <2>5. d \in Detail(call[t].writes)
        <3> HIDE DEF selected, freshness, basis
        <3> QED BY <2>1, <2>2, <2>3, <2>4, DetailIs
    <2>6. Leg(call[t].op, "predecessor", call[t].writes) /\ <<"admission">> \in Seq(Histories)
        BY <2>1, LockTuples DEF Leg, Histories
    <2> HIDE DEF d
    <2> QED BY <2>1, <2>5, <2>6, StageKeepsTypes
<1>5. CASE IssueActive(t)
    <2> DEFINE E == Visible("admission", call[t].subject, now)
               d == [support |-> TheOne(EffectiveAdmission(E)), admissions |-> E]
    <2>1. /\ call[t].writes = "validity" /\ call[t].op = "activate"
          /\ IsOne(EffectiveAdmission(E)) /\ Stage(t, "stamp", d, <<>>)
        BY <1>1, <1>5 DEF IssueActive, At, Leg
    <2>2. d \in Detail(call[t].writes)
        <3>1. E \subseteq Nat
            BY AdmissionIndices
        <3>2. TheOne(EffectiveAdmission(E)) \in Nat
            BY <2>1, <3>1, EffectiveIsOneOfThem
        <3> QED BY <2>1, <3>1, <3>2, DetailIs
    <2>3. Leg(call[t].op, "stamp", call[t].writes) /\ <<>> \in Seq(Histories)
        BY <2>1 DEF Leg
    <2> HIDE DEF d
    <2> QED BY <2>1, <2>2, <2>3, StageKeepsTypes
<1> QED BY <1>2, <1>3, <1>4, <1>5

\* Only the clock, the locks and where the calls are.
LEMMA AdvanceKeepsTypes ==
    ASSUME TypeInv, NEW t \in Threads,
           \/ Acquire(t) \/ AcquisitionFails(t) \/ Lookup(t) \/ Survey(t) \/ StartTask(t)
           \/ Refuse(t)
    PROVE  TypeInv'
<1>1. /\ now \in Nat /\ latest \in Nat /\ call \in [Threads -> Calls] /\ call[t] \in Calls
      /\ Leg(call[t].op, call[t].at, call[t].writes) /\ StagedOf(call[t])
      /\ owner \in [Histories -> Threads \cup {NoThread}]
    BY TypeInvIs DEF GoodCall
<1>2. Released(t) \in [Histories -> Threads \cup {NoThread}]
    BY <1>1 DEF Released
<1>3. CASE Acquire(t)
    <2> DEFINE c == [call[t] EXCEPT !.waiting = Tail(call[t].waiting)]
    <2>1. call[t].waiting \in Seq(Histories) /\ call[t].waiting # <<>>
        BY <1>1, <1>3, CallsAre DEF Acquire
    <2>2. Tail(call[t].waiting) \in Seq(Histories)
        BY <2>1
    <2>3. GoodCall(c)
        BY <1>1, <2>2, CallsAre DEF GoodCall, StagedOf
    <2>4. call' = [call EXCEPT ![t] = c] /\ owner' \in [Histories -> Threads \cup {NoThread}]
        BY <1>1, <1>3 DEF Acquire
    <2>5. /\ UNCHANGED hist /\ made' \in [Threads -> Nat]
          /\ scenario' \in Scenarios /\ now' \in Nat /\ latest' \in Nat /\ moves' \in Nat
        BY <1>3, TypeInvIs DEF Acquire, clock
    <2> HIDE DEF c
    <2> QED BY <2>3, <2>4, <2>5, OneCall
<1>4. CASE AcquisitionFails(t)
    BY <1>1, <1>4, ReturnKeepsTypes DEF AcquisitionFails
<1>5. CASE Lookup(t)
    <2> DEFINE to == IF call[t].op = "validate" THEN "rule" ELSE "evaluate"
               c == [call[t] EXCEPT !.at = to]
    <2>1. /\ call[t].at = "lookup" /\ call' = [call EXCEPT ![t] = c]
          /\ owner' \in [Histories -> Threads \cup {NoThread}]
        BY <1>1, <1>5 DEF Lookup, At
    <2>2. Leg(call[t].op, to, call[t].writes) /\ to \in Points
        BY <1>1, <2>1 DEF Leg, Points
    <2>3. to \notin {"predecessor", "stamp", "append"}
        OBVIOUS
    <2> HIDE DEF to
    <2>4. GoodCall(c)
        BY <1>1, <2>2, <2>3, CallsAre DEF GoodCall, StagedOf
    <2>5. /\ UNCHANGED hist /\ made' \in [Threads -> Nat]
          /\ scenario' \in Scenarios /\ now' \in Nat /\ latest' \in Nat /\ moves' \in Nat
        BY <1>5, TypeInvIs DEF Lookup, clock
    <2> HIDE DEF c
    <2> QED BY <2>1, <2>4, <2>5, OneCall
<1>6. CASE Survey(t)
    <2> DEFINE s == Snapshot(call[t].subject, Cutoff(t, call[t].asked))
               tasks == Tasks(s, call[t].analysis)
               again == [call[t] EXCEPT !.at = "qualify", !.waiting = QualifyLocks,
                                        !.task = Latest(tasks)]
               execute == [call[t] EXCEPT !.at = "task"]
    <2>1. call[t].at = "survey" /\ call[t].op = "qualify" /\ call[t].writes = "qualification"
        BY <1>1, <1>6 DEF Survey, At, Leg
    <2>2. tasks # {} => Latest(tasks) \in Nat
        <3>1. tasks \subseteq 1..Len(hist["freshness"])
            BY SnapshotIndices, IndicesAreNumbers DEF Tasks, Inputs, Histories
        <3>2. Len(hist["freshness"]) \in Nat
            BY IndicesAreNumbers DEF Histories
        <3> HIDE DEF tasks
        <3>3. tasks \subseteq Nat /\ \A i \in tasks : i <= Len(hist["freshness"])
            BY <3>1, <3>2
        <3> QED BY <3>2, <3>3, LatestIsGreatest
    <2>3. \/ tasks # {} /\ call' = [call EXCEPT ![t] = again]
          \/ call' = [call EXCEPT ![t] = execute]
        BY <1>1, <1>6 DEF Survey
    <2>4. tasks # {} => GoodCall(again)
        <3>1. Leg("qualify", "qualify", "qualification")
            BY DEF Leg
        <3>2. ASSUME Latest(tasks) \in Nat PROVE GoodCall(again)
            <4> HIDE DEF tasks
            <4> QED BY <1>1, <2>1, <3>1, <3>2, LockTuples, CallsAre DEF GoodCall, StagedOf, Points
        <3> QED BY <2>2, <3>2
    <2>5. GoodCall(execute)
        <3>1. Leg("qualify", "task", "qualification")
            BY DEF Leg
        <3> QED BY <1>1, <2>1, <3>1, CallsAre DEF GoodCall, StagedOf, Points
    <2>6. /\ UNCHANGED hist /\ made' \in [Threads -> Nat]
          /\ owner' \in [Histories -> Threads \cup {NoThread}]
          /\ scenario' \in Scenarios /\ now' \in Nat /\ latest' \in Nat /\ moves' \in Nat
        BY <1>2, <1>6, TypeInvIs DEF Survey, clock
    <2> HIDE DEF again, execute, tasks
    <2> QED BY <2>3, <2>4, <2>5, <2>6, OneCall
<1>7. CASE StartTask(t)
    <2> DEFINE c == [call[t] EXCEPT !.at = "lookup", !.waiting = <<"construction">>,
                                    !.writes = "freshness", !.started = now]
    <2>1. call[t].op = "qualify" /\ call' = [call EXCEPT ![t] = c]
        BY <1>1, <1>7 DEF StartTask, At, Leg
    <2>2. Leg("qualify", "lookup", "freshness")
        BY DEF Leg
    <2>3. GoodCall(c)
        BY <1>1, <2>1, <2>2, LockTuples, CallsAre DEF GoodCall, StagedOf, Points, Histories
    <2>4. /\ UNCHANGED hist /\ made' \in [Threads -> Nat]
          /\ owner' \in [Histories -> Threads \cup {NoThread}]
          /\ scenario' \in Scenarios /\ now' \in Nat /\ latest' \in Nat /\ moves' \in Nat
        BY <1>7, TypeInvIs, ReadingIsANumber DEF StartTask, clock
    <2> HIDE DEF c
    <2> QED BY <2>1, <2>3, <2>4, OneCall
<1>8. CASE Refuse(t)
    BY <1>1, <1>8, ReturnKeepsTypes, ReadingIsANumber DEF Refuse
<1> QED BY <1>3, <1>4, <1>5, <1>6, <1>7, <1>8

LEMMA UseKeepsTypes ==
    ASSUME TypeInv, NEW t \in Threads,
           \/ Construct(t) \/ Qualify(t) \/ Bridge(t) \/ Analyse(t)
    PROVE  TypeInv'
<1>1. /\ now \in Nat /\ call[t] \in Calls /\ Leg(call[t].op, call[t].at, call[t].writes)
      /\ call[t].started \in Nat /\ call[t].analysis \in Nat /\ call[t].task \in Nat
      /\ call[t].knowledge \in Nat
    BY TypeInvIs, CallsAre DEF GoodCall
<1>2. CASE Construct(t)
    <2> DEFINE d == [started |-> call[t].started]
    <2>1. call[t].op = "construct" /\ call[t].writes = "construction"
        BY <1>1, <1>2 DEF Construct, At, Leg
    <2>2. d \in Detail(call[t].writes) /\ Stage(t, "stamp", d, <<"construction">>)
        BY <1>1, <1>2, <2>1, DetailIs DEF Construct
    <2>3. Leg(call[t].op, "stamp", call[t].writes) /\ <<"construction">> \in Seq(Histories)
        BY <2>1, LockTuples DEF Leg
    <2> HIDE DEF d
    <2> QED BY <2>2, <2>3, StageKeepsTypes
<1>3. CASE Qualify(t)
    <2> DEFINE cutoff == Cutoff(t, now)
               s == Snapshot(call[t].subject, cutoff)
               d == [cutoff |-> cutoff, analysis |-> call[t].analysis,
                     task |-> call[t].task, context |-> s]
    <2>1. call[t].op = "qualify" /\ call[t].writes = "qualification" /\ Stage(t, "stamp", d, <<>>)
        BY <1>1, <1>3 DEF Qualify, At, Leg
    <2>2. cutoff \in Nat /\ s \in [Inputs -> SUBSET Nat]
        BY <1>1, SnapshotIndices DEF Cutoff
    <2>3. d \in Detail(call[t].writes)
        <3> HIDE DEF cutoff, s
        <3> QED BY <1>1, <2>1, <2>2, DetailIs
    <2>4. Leg(call[t].op, "stamp", call[t].writes) /\ <<>> \in Seq(Histories)
        BY <2>1 DEF Leg
    <2> HIDE DEF d
    <2> QED BY <2>1, <2>3, <2>4, StageKeepsTypes
<1>4. CASE Bridge(t) \/ Analyse(t)
    <2> DEFINE d == [started |-> call[t].started]
    <2>1. /\ \/ call[t].op = "bridge" /\ call[t].writes = "bridge"
             \/ call[t].op = "analyse" /\ call[t].writes = "technical"
          /\ Stage(t, "stamp", d, <<>>)
        BY <1>1, <1>4 DEF Bridge, Analyse, At, Leg
    <2>2. d \in Detail(call[t].writes) /\ <<>> \in Seq(Histories)
        <3>1. Detail(call[t].writes) = [started: Nat]
            BY <2>1, DetailIs
        <3> QED BY <1>1, <3>1
    <2>3. Leg(call[t].op, "stamp", call[t].writes)
        BY <2>1 DEF Leg
    <2> HIDE DEF d
    <2> QED BY <2>1, <2>2, <2>3, StageKeepsTypes
<1> QED BY <1>2, <1>3, <1>4

\* Reading the predecessor changes that part of the staged admission only.
LEMMA PredecessorOnly ==
    ASSUME NEW x \in Entry("admission"), NEW f
    PROVE  [x EXCEPT !.detail.predecessor = f] = [x EXCEPT !.detail = [x.detail EXCEPT !.predecessor = f]]
<1>1. x.detail \in Detail("admission") /\ x = [subject |-> x.subject, completed |-> x.completed,
                                               available |-> x.available, detail |-> x.detail]
    BY DEF Entry
<1> QED BY <1>1, DetailIs

LEMMA ReadingThePredecessor ==
    ASSUME NEW t \in Threads, ReadPredecessor(t), call \in [Threads -> Calls],
           call[t].entry \in Entry("admission")
    PROVE  call' = [call EXCEPT ![t] =
                       [call[t] EXCEPT !.at = "stamp", !.waiting = <<"admission">>,
                           !.entry = [call[t].entry EXCEPT
                               !.detail = [call[t].entry.detail EXCEPT !.predecessor = Follows(t)]]]]
<1> DEFINE g == [call[t].entry EXCEPT !.detail.predecessor = Follows(t)]
           e == [call[t].entry EXCEPT
                    !.detail = [call[t].entry.detail EXCEPT !.predecessor = Follows(t)]]
<1>1. call[t] \in Calls
    OBVIOUS
<1>2. call' = [call EXCEPT ![t] = [call[t] EXCEPT !.at = "stamp", !.waiting = <<"admission">>,
                                                  !.entry = g]]
    BY <1>1 DEF ReadPredecessor
<1>3. g = e
    BY PredecessorOnly
<1> HIDE DEF g
<1> QED BY <1>2, <1>3

LEMMA PredecessorKeepsTypes ==
    ASSUME TypeInv, NEW t \in Threads, ReadPredecessor(t)
    PROVE  TypeInv'
<1> DEFINE f == Follows(t)
           d == [call[t].entry.detail EXCEPT !.predecessor = f]
           e == [call[t].entry EXCEPT !.detail = d]
           c == [call[t] EXCEPT !.at = "stamp", !.waiting = <<"admission">>, !.entry = e]
<1>1. /\ call \in [Threads -> Calls] /\ call[t] \in Calls /\ call[t].op \in Ops
      /\ Leg(call[t].op, call[t].at, call[t].writes) /\ StagedOf(call[t])
      /\ owner \in [Histories -> Threads \cup {NoThread}]
    BY TypeInvIs, CallsAre DEF GoodCall
<1>2. /\ call[t].at = "predecessor" /\ call[t].op = "admit" /\ call[t].writes = "admission"
      /\ call[t].entry \in Entry("admission")
    BY <1>1 DEF ReadPredecessor, At, Leg, StagedOf
<1>3. f \in Nat
    <2>1. AdmissionsAt(t) \subseteq Nat
        BY AdmissionIndices DEF AdmissionsAt
    <2>2. CASE AdmissionsAt(t) = {}
        BY <2>2 DEF Follows
    <2>3. CASE AdmissionsAt(t) # {}
        <3>1. TheOne(EffectiveAdmission(AdmissionsAt(t))) \in Nat
            BY <2>1, <2>3, EffectiveIsOneOfThem DEF ReadPredecessor
        <3> QED BY <2>3, <3>1 DEF Follows
    <2> QED BY <2>2, <2>3
<1>4. call' = [call EXCEPT ![t] = c]
    BY <1>1, <1>2, ReadingThePredecessor
<1> HIDE DEF f
<1>5. d \in Detail("admission")
    <2>1. call[t].entry.detail \in Detail("admission")
        BY <1>2 DEF Entry
    <2>2. Detail("admission") = [predecessor: Nat, selected: [1..Rules -> Nat],
                                 freshness: Nat, basis: [Basis -> SUBSET Nat]]
        BY DetailIs
    <2>3. ASSUME NEW A, NEW B, NEW x \in [predecessor: Nat, selected: A, freshness: Nat, basis: B]
          PROVE  [x EXCEPT !.predecessor = f]
                    \in [predecessor: Nat, selected: A, freshness: Nat, basis: B]
        BY <1>3
    <2> QED BY <2>1, <2>2, <2>3
<1> HIDE DEF d
<1>6. e \in Entry("admission")
    BY <1>2, <1>5 DEF Entry
<1>7. e \in Entries
    BY <1>6, EntriesCover DEF Histories
<1> HIDE DEF e
<1>8. GoodCall(c)
    <2>1. Leg("admit", "stamp", "admission") /\ <<"admission">> \in Seq(Histories)
        BY LockTuples DEF Leg, Histories
    <2> QED BY <1>1, <1>2, <1>6, <1>7, <2>1, CallsAre DEF GoodCall, StagedOf, Points
<1>9. /\ UNCHANGED hist /\ made' \in [Threads -> Nat]
      /\ owner' \in [Histories -> Threads \cup {NoThread}]
      /\ scenario' \in Scenarios /\ now' \in Nat /\ latest' \in Nat /\ moves' \in Nat
    BY <1>1, TypeInvIs DEF ReadPredecessor, clock
<1> HIDE DEF c
<1> QED BY <1>4, <1>8, <1>9, OneCall

LEMMA StampKeepsTypes ==
    ASSUME TypeInv, NEW t \in Threads, Stamp(t)
    PROVE  TypeInv'
<1> DEFINE e == [call[t].entry EXCEPT !.available = Availability]
           c == [call[t] EXCEPT !.at = "append", !.entry = e]
<1>1. /\ call \in [Threads -> Calls] /\ call[t] \in Calls /\ call[t].writes \in Histories
      /\ Leg(call[t].op, call[t].at, call[t].writes) /\ StagedOf(call[t])
      /\ now \in Nat /\ latest \in Nat
    BY TypeInvIs, CallsAre DEF GoodCall
<1>2. /\ call[t].at = "stamp" /\ call[t].entry \in Entry(call[t].writes)
    BY <1>1 DEF Stamp, At, StagedOf
<1>3. Availability \in Nat
    BY <1>1 DEF Availability
<1>4. call' = [call EXCEPT ![t] = c]
    BY <1>1 DEF Stamp
<1>5. /\ UNCHANGED hist /\ made' \in [Threads -> Nat]
      /\ owner' \in [Histories -> Threads \cup {NoThread}]
      /\ scenario' \in Scenarios /\ now' \in Nat /\ latest' \in Nat /\ moves' \in Nat
    BY <1>1, <1>3, TypeInvIs DEF Stamp, ReadAvailability
<1>6. e \in Entry(call[t].writes)
    <2> HIDE DEF Availability
    <2> QED BY <1>2, <1>3 DEF Entry
<1>7. e \in Entries
    BY <1>1, <1>6, EntriesCover
<1> HIDE DEF e
<1>8. Leg(call[t].op, "append", call[t].writes)
    BY <1>1, <1>2 DEF Leg
<1>9. GoodCall(c)
    BY <1>1, <1>2, <1>6, <1>7, <1>8, CallsAre DEF GoodCall, StagedOf, Points
<1> HIDE DEF c
<1> QED BY <1>4, <1>5, <1>9, OneCall

LEMMA PublishKeepsTypes ==
    ASSUME TypeInv, NEW t \in Threads, Publish(t)
    PROVE  TypeInv'
<1> DEFINE w == call[t].writes
           next == [call[t] EXCEPT !.at = "rule", !.rule = @ + 1]
           task == Len(hist["freshness"]) + 1
           second == [call[t] EXCEPT !.at = "qualify", !.writes = "qualification",
                                     !.waiting = QualifyLocks, !.task = task]
<1>1. /\ call \in [Threads -> Calls] /\ call[t] \in Calls /\ w \in Histories
      /\ call[t].rule \in 1..Rules /\ Rules \in Nat
      /\ Leg(call[t].op, call[t].at, w) /\ StagedOf(call[t])
      /\ owner \in [Histories -> Threads \cup {NoThread}]
      /\ Len(hist["freshness"]) \in Nat
    BY TypeInvIs, CallsAre, GovernedAssumption, IndicesAreNumbers DEF GoodCall, Histories
<1>2. call[t].at = "append" /\ call[t].entry \in Entry(w)
    BY <1>1 DEF Publish, At, StagedOf
<1>3. hist' = [hist EXCEPT ![w] = Append(@, call[t].entry)]
    BY DEF Publish
<1> HIDE DEF w
<1>4. DOMAIN hist' = Histories /\ \A h \in Histories : hist'[h] \in Seq(Entry(h))
    <2>1. DOMAIN hist = Histories /\ \A h \in Histories : hist[h] \in Seq(Entry(h))
        BY TypeInvIs
    <2>2. Append(hist[w], call[t].entry) \in Seq(Entry(w))
        BY <1>1, <1>2, <2>1
    <2> QED BY <1>1, <1>3, <2>1, <2>2
<1>5. \E c : call' = [call EXCEPT ![t] = c] /\ GoodCall(c)
    <2>1. CASE ProfileContinues(t)
        <3>1. call' = [call EXCEPT ![t] = next]
            BY <1>1, <2>1 DEF Publish, ProfileContinues, SecondLook
        <3>2. call[t].op = "validate" /\ w = "validation" /\ call[t].rule + 1 \in 1..Rules
            BY <1>1, <1>2, <2>1 DEF ProfileContinues, Leg
        <3>3. Leg("validate", "rule", "validation")
            BY DEF Leg
        <3>4. GoodCall(next)
            BY <1>1, <3>2, <3>3, CallsAre DEF GoodCall, StagedOf, Points, w
        <3> QED BY <3>1, <3>4
    <2>2. CASE SecondLook(t)
        <3>1. call' = [call EXCEPT ![t] = second]
            BY <1>1, <2>2 DEF Publish, ProfileContinues, SecondLook
        <3>2. Leg("qualify", "qualify", "qualification") /\ "qualification" \in Histories
            BY DEF Leg, Histories
        <3>3. second \in Calls
            <4>1. QualifyLocks \in Seq(Histories) /\ "qualify" \in Points
                BY LockTuples DEF Points
            <4>2. task \in Nat
                BY <1>1
            <4> HIDE DEF task
            <4> QED BY <1>1, <3>2, <4>1, <4>2, CallsAre
        <3>4. second.op = "qualify" /\ second.at = "qualify" /\ second.writes = "qualification"
            BY <1>1, <2>2, CallsAre DEF SecondLook
        <3> HIDE DEF second
        <3>5. GoodCall(second)
            BY <3>2, <3>3, <3>4 DEF GoodCall, StagedOf
        <3> QED BY <3>1, <3>5
    <2>3. CASE ~ProfileContinues(t) /\ ~SecondLook(t)
        <3>1. call' = [call EXCEPT ![t] = Idle]
            BY <2>3 DEF Publish
        <3>2. GoodCall(Idle)
            BY IdleIsACall DEF GoodCall, StagedOf, Leg, Idle
        <3> QED BY <3>1, <3>2
    <2> QED BY <2>1, <2>2, <2>3
<1>6. call' \in [Threads -> Calls] /\ \A u \in Threads : GoodCall(call'[u])
    BY <1>1, <1>5, TypeInvIs DEF GoodCall
<1>7. owner' = Released(t)
    BY DEF Publish
<1>8. owner' \in [Histories -> Threads \cup {NoThread}]
    BY <1>1, <1>7 DEF Released
<1>9. /\ made' \in [Threads -> Nat] /\ scenario' \in Scenarios
      /\ now' \in Nat /\ latest' \in Nat /\ moves' \in Nat
    BY TypeInvIs DEF Publish, clock
<1> QED BY <1>4, <1>6, <1>8, <1>9 DEF TypeInv, TypeOK, GoodCall, StagedOf

LEMMA InitIsTyped == Init => TypeInv
<1> SUFFICES ASSUME Init PROVE TypeInv
    OBVIOUS
<1>1. GoodCall(Idle)
    BY IdleIsACall DEF GoodCall, StagedOf, Leg, Idle
<1>2. \A h \in Histories : <<>> \in Seq(Entry(h))
    OBVIOUS
<1>3. call = [t \in Threads |-> Idle] /\ Idle \in Calls
    BY IdleIsACall DEF Init
<1> QED BY <1>1, <1>2, <1>3, TypeInvIs DEF Init

LEMMA TypesStep == TypeInv /\ [Next]_vars => TypeInv'
<1> SUFFICES ASSUME TypeInv, [Next]_vars PROVE TypeInv'
    OBVIOUS
<1>1. CASE UNCHANGED vars
    BY <1>1 DEF vars, TypeInv, TypeOK
<1>2. CASE Move
    BY <1>2, TypeInvIs DEF Move, TypeInv, TypeOK
<1>3. ASSUME NEW t \in Threads, Start(t) PROVE TypeInv'
    BY <1>3, StartKeepsTypes
<1>4. ASSUME NEW t \in Threads, Step(t) PROVE TypeInv'
    BY <1>4, DecisionKeepsTypes, AdvanceKeepsTypes, UseKeepsTypes, PredecessorKeepsTypes,
       StampKeepsTypes, PublishKeepsTypes DEF Step
<1> QED BY <1>1, <1>2, <1>3, <1>4 DEF Next, AllIdle

LEMMA TypesInductive == Spec => []TypeInv
BY InitIsTyped, TypesStep, PTL DEF Spec

\* Every history keeps occurrences of its own shape, every staged occurrence is
\* of the history its call writes, and a chosen latest record or evaluation is
\* one, for any number of threads and rules and any clock.
THEOREM TypeCorrect == Spec => []TypeOK
<1>1. TypeInv => TypeOK
    BY DEF TypeInv
<1> QED BY <1>1, TypesInductive, PTL

-----------------------------------------------------------------------------
(* Locks *)

\* The locks of one publication, by the history it writes.
Regions == [construction |-> {"construction"},
            validation |-> {"validation"},
            freshness |-> {"freshness"},
            admission |-> {"construction", "validation", "freshness", "admission"},
            validity |-> {"construction", "admission", "validity"},
            qualification |-> Inputs \cup {"qualification"},
            bridge |-> Inputs \cup {"qualification", "bridge"},
            technical |-> Histories]

\* The locks a call holds or waits for at a point.
Region(at, writes) ==
    IF at \in {"idle", "acquiring", "rule", "evaluate", "task"} THEN {}
    ELSE IF at = "lookup" THEN {"construction"}
    ELSE IF at = "prerequisites" THEN {"construction", "validation", "freshness"}
    ELSE IF at = "survey" THEN Inputs
    ELSE Regions[writes]

Held(t) == {h \in Histories : owner[h] = t}
Awaited(t) == {call[t].waiting[i] : i \in 1..Len(call[t].waiting)}

\* What a call holds and waits for is its region; it waits in the frozen order
\* and for nothing below what it holds.
Orderly(t) ==
    /\ Held(t) \cup Awaited(t) = Region(call[t].at, call[t].writes)
    /\ \A i, j \in 1..Len(call[t].waiting) :
          i < j => Rank[call[t].waiting[i]] < Rank[call[t].waiting[j]]
    /\ \A h \in Held(t), i \in 1..Len(call[t].waiting) : Rank[h] < Rank[call[t].waiting[i]]

LockInv == TypeInv /\ \A t \in Threads : Orderly(t)

LEMMA RanksAreNumbers == \A h \in Histories : Rank[h] \in Nat
BY DEF Rank, Histories

\* The frozen order lists the locks by rank.
Climbs(locks) == \A i, j \in 1..Len(locks) : i < j => Rank[locks[i]] < Rank[locks[j]]

LEMMA LocksClimb ==
    /\ Climbs(InputLocks) /\ Climbs(QualifyLocks) /\ Climbs(BridgeLocks) /\ Climbs(AnalyseLocks)
    /\ Climbs(<<"construction", "validation", "freshness">>)
    /\ Climbs(<<"construction", "admission", "validity">>)
    /\ \A h \in Histories : Climbs(<<h>>)
    /\ Climbs(<<>>)
BY DEF Climbs, InputLocks, QualifyLocks, BridgeLocks, AnalyseLocks, Rank

ElementsOf(locks) == {locks[i] : i \in 1..Len(locks)}

LEMMA LockElements ==
    /\ ElementsOf(InputLocks) = Inputs
    /\ ElementsOf(QualifyLocks) = Regions["qualification"]
    /\ ElementsOf(BridgeLocks) = Regions["bridge"]
    /\ ElementsOf(AnalyseLocks) = Regions["technical"]
    /\ ElementsOf(<<"construction", "validation", "freshness">>)
          = {"construction", "validation", "freshness"}
    /\ ElementsOf(<<"construction", "admission", "validity">>)
          = {"construction", "admission", "validity"}
    /\ \A h \in Histories : ElementsOf(<<h>>) = {h}
    /\ ElementsOf(<<>>) = {}
<1>1. ElementsOf(InputLocks) = Inputs
    BY DEF ElementsOf, InputLocks, Inputs
<1>2. ElementsOf(QualifyLocks) = Regions["qualification"]
    BY DEF ElementsOf, QualifyLocks, Inputs, Regions
<1>3. ElementsOf(BridgeLocks) = Regions["bridge"]
    BY DEF ElementsOf, BridgeLocks, Inputs, Regions
<1>4. ElementsOf(AnalyseLocks) = Regions["technical"]
    BY DEF ElementsOf, AnalyseLocks, Regions, Histories
<1>5. /\ ElementsOf(<<"construction", "validation", "freshness">>)
             = {"construction", "validation", "freshness"}
      /\ ElementsOf(<<"construction", "admission", "validity">>)
             = {"construction", "admission", "validity"}
    BY DEF ElementsOf
<1>6. /\ \A h \in Histories : ElementsOf(<<h>>) = {h}
      /\ ElementsOf(<<>>) = {}
    BY DEF ElementsOf
<1> QED BY <1>1, <1>2, <1>3, <1>4, <1>5, <1>6

\* A step that leaves t holding H and the others what they held.
Leaves(t, H) ==
    \A h \in Histories :
        /\ owner'[h] = t <=> h \in H
        /\ owner'[h] # owner[h] => owner[h] \in {t, NoThread} /\ owner'[h] \in {t, NoThread}

\* With H held, these are the next locks to take at this point.
Continues(H, locks, at, writes) ==
    /\ Climbs(locks)
    /\ H \cup ElementsOf(locks) = Region(at, writes)
    /\ \A h \in H, l \in ElementsOf(locks) : Rank[h] < Rank[l]

LEMMA Reorder ==
    ASSUME LockInv, TypeInv', NEW t \in Threads, NEW c, call' = [call EXCEPT ![t] = c],
           NEW H \in SUBSET Histories,
           Leaves(t, H), Continues(H, c.waiting, c.at, c.writes)
    PROVE  LockInv'
<1>1. call \in [Threads -> Calls] /\ NoThread \notin Threads
    BY TypeInvIs, GovernedAssumption DEF LockInv
<1>2. call'[t] = c /\ \A u \in Threads : u # t => call'[u] = call[u]
    BY <1>1
<1>3. ASSUME NEW u \in Threads, u # t PROVE Orderly(u)'
    <2>1. Held(u)' = Held(u)
        BY <1>1, <1>3 DEF Held, Leaves
    <2>2. Awaited(u)' = Awaited(u) /\ call'[u] = call[u]
        BY <1>2, <1>3 DEF Awaited
    <2>3. Orderly(u)
        BY DEF LockInv
    <2> QED BY <2>1, <2>2, <2>3 DEF Orderly
<1>4. Orderly(t)'
    <2>1. Held(t)' = H
        BY DEF Held, Leaves
    <2>2. Awaited(t)' = ElementsOf(c.waiting)
        BY <1>2 DEF Awaited, ElementsOf
    <2>3. \A i \in 1..Len(c.waiting) : c.waiting[i] \in ElementsOf(c.waiting)
        BY DEF ElementsOf
    <2> QED BY <1>2, <2>1, <2>2, <2>3 DEF Orderly, Climbs, Continues
<1> QED BY <1>3, <1>4 DEF LockInv

\* A call that waits for nothing holds its region.
LEMMA HoldsRegion ==
    ASSUME LockInv, NEW t \in Threads, call[t].waiting = <<>>
    PROVE  Held(t) = Region(call[t].at, call[t].writes)
<1>1. Awaited(t) = {}
    BY DEF Awaited
<1> QED BY <1>1 DEF LockInv, Orderly

\* The history whose turn it is joins what is held.
LEMMA AcquireKeepsOrder ==
    ASSUME LockInv, TypeInv', NEW t \in Threads, Acquire(t)
    PROVE  LockInv'
<1> DEFINE w == call[t].waiting
           c == [call[t] EXCEPT !.waiting = Tail(w)]
           H == Held(t) \cup {Head(w)}
<1>1. /\ call \in [Threads -> Calls] /\ call[t] \in Calls /\ NoThread \notin Threads
      /\ owner \in [Histories -> Threads \cup {NoThread}]
    BY TypeInvIs, GovernedAssumption DEF LockInv
<1>2. w \in Seq(Histories) /\ w # <<>>
    BY <1>1, CallsAre DEF Acquire
<1>3. /\ Head(w) \in Histories /\ Head(w) = w[1] /\ Len(w) \in Nat /\ Len(w) > 0
      /\ Tail(w) \in Seq(Histories) /\ Len(Tail(w)) = Len(w) - 1
      /\ \A i \in 1..Len(Tail(w)) : Tail(w)[i] = w[i + 1]
    BY <1>2
<1>4. call' = [call EXCEPT ![t] = c]
    BY <1>1 DEF Acquire
<1>5. /\ c.waiting = Tail(w) /\ c.at = call[t].at /\ c.writes = call[t].writes
    BY <1>1, CallsAre
<1>6. Leaves(t, H)
    BY <1>1, <1>3 DEF Acquire, Held, Leaves
<1>7. Orderly(t)
    BY DEF LockInv
<1> HIDE DEF w, c
<1>8. Climbs(Tail(w))
    <2>1. \A i, j \in 1..Len(w) : i < j => Rank[w[i]] < Rank[w[j]]
        BY <1>7 DEF Orderly, w
    <2> QED BY <1>3, <2>1 DEF Climbs
<1>9. H \cup ElementsOf(Tail(w)) = Region(call[t].at, call[t].writes)
    <2>1. Awaited(t) = {Head(w)} \cup ElementsOf(Tail(w))
        <3>1. ASSUME NEW i \in 1..Len(w), i # 1
              PROVE  (i - 1) \in 1..Len(Tail(w)) /\ Tail(w)[i - 1] = w[i]
            <4>1. (i - 1) \in 1..Len(Tail(w)) /\ (i - 1) + 1 = i
                BY <1>3, <3>1
            <4> QED BY <1>3, <4>1
        <3>2. \A i \in 1..Len(Tail(w)) : i + 1 \in 1..Len(w)
            BY <1>3
        <3>3. 1 \in 1..Len(w)
            BY <1>3
        <3> QED BY <1>3, <3>1, <3>2, <3>3 DEF Awaited, ElementsOf, w
    <2> QED BY <1>7, <2>1 DEF Orderly
<1>10. \A h \in H, l \in ElementsOf(Tail(w)) : Rank[h] < Rank[l]
    <2>1. \A i, j \in 1..Len(w) : i < j => Rank[w[i]] < Rank[w[j]]
        BY <1>7 DEF Orderly, w
    <2>2. \A h \in Held(t), i \in 1..Len(w) : Rank[h] < Rank[w[i]]
        BY <1>7 DEF Orderly, w
    <2>3. \A i \in 1..Len(Tail(w)) : /\ i + 1 \in 1..Len(w) /\ 1 \in 1..Len(w) /\ 1 < i + 1
                                     /\ Tail(w)[i] = w[i + 1]
        BY <1>3
    <2> QED BY <1>3, <2>1, <2>2, <2>3 DEF ElementsOf
<1>11. H \in SUBSET Histories
    BY <1>3 DEF Held
<1> HIDE DEF H
<1>12. Continues(H, c.waiting, c.at, c.writes)
    BY <1>5, <1>8, <1>9, <1>10 DEF Continues
<1> QED BY <1>4, <1>6, <1>11, <1>12, Reorder

\* A call begins with nothing held.
LEMMA BeginKeepsOrder ==
    ASSUME LockInv, TypeInv', NEW t \in Threads, NEW op, NEW request, Begin(t, op, request),
           Climbs(request.waiting),
           ElementsOf(request.waiting) = Region(request.at, request.writes)
    PROVE  LockInv'
<1>1. /\ call' = [call EXCEPT ![t] = request] /\ owner' = owner
      /\ owner \in [Histories -> Threads \cup {NoThread}]
    BY TypeInvIs DEF Begin, LockInv
<1>2. Held(t) = {}
    BY DEF Begin, LockInv, Orderly, Region
<1>3. Leaves(t, {})
    BY <1>1, <1>2 DEF Held, Leaves
<1>4. Continues({}, request.waiting, request.at, request.writes)
    BY DEF Continues
<1> QED BY <1>1, <1>3, <1>4, Reorder

\* A step after which the call holds nothing.
LEMMA ReleaseKeepsOrder ==
    ASSUME LockInv, TypeInv', NEW t \in Threads, NEW c, call' = [call EXCEPT ![t] = c],
           owner' = Released(t), Climbs(c.waiting),
           ElementsOf(c.waiting) = Region(c.at, c.writes)
    PROVE  LockInv'
<1>1. NoThread # t
    BY GovernedAssumption
<1>2. Leaves(t, {})
    BY <1>1 DEF Released, Leaves
<1>3. Continues({}, c.waiting, c.at, c.writes)
    BY DEF Continues
<1> QED BY <1>2, <1>3, Reorder

\* Staging with more locks to take, all of them above those held.
LEMMA StageKeepsOrder ==
    ASSUME LockInv, TypeInv', NEW t \in Threads, NEW point, NEW detail, NEW locks,
           Stage(t, point, detail, locks), Continues(Held(t), locks, point, call[t].writes)
    PROVE  LockInv'
<1> DEFINE e == [subject |-> call[t].subject, completed |-> now,
                 available |-> 0, detail |-> detail]
           c == [call[t] EXCEPT !.at = point, !.waiting = locks, !.entry = e]
<1>1. call[t] \in Calls /\ call \in [Threads -> Calls]
    BY TypeInvIs DEF LockInv
<1>2. call' = [call EXCEPT ![t] = c] /\ owner' = owner
    BY <1>1 DEF Stage
<1>3. c.at = point /\ c.waiting = locks /\ c.writes = call[t].writes
    BY <1>1, CallsAre
<1>4. Leaves(t, Held(t)) /\ Held(t) \in SUBSET Histories
    BY <1>2 DEF Held, Leaves
<1> HIDE DEF c
<1> QED BY <1>2, <1>3, <1>4, Reorder

LEMMA RegionsAre ==
    /\ Regions["construction"] = {"construction"} /\ Regions["validation"] = {"validation"}
    /\ Regions["freshness"] = {"freshness"}
    /\ Regions["admission"] = {"construction", "validation", "freshness", "admission"}
    /\ Regions["validity"] = {"construction", "admission", "validity"}
BY DEF Regions

LEMMA StartKeepsOrder ==
    ASSUME LockInv, TypeInv', NEW t \in Threads, Start(t)
    PROVE  LockInv'
<1>1. ASSUME NEW op, NEW at, NEW writes, Opens(op, at, writes),
             NEW x \in Nat, NEW started \in Nat, NEW locks \in Seq(Histories), Climbs(locks),
             ElementsOf(locks) = Region(at, writes), NEW request,
             request.waiting = Request(op, writes, x, at, locks, started).waiting,
             request.at = Request(op, writes, x, at, locks, started).at,
             request.writes = Request(op, writes, x, at, locks, started).writes,
             Begin(t, op, request)
      PROVE  LockInv'
    <2>1. request.waiting = locks /\ request.at = at /\ request.writes = writes
        BY <1>1, RequestIsGood
    <2> QED BY <1>1, <2>1, BeginKeepsOrder
<1>2. /\ now \in Nat
      /\ DOMAIN hist["construction"] \subseteq Nat /\ DOMAIN hist["qualification"] \subseteq Nat
      /\ DOMAIN hist["bridge"] \subseteq Nat
    BY TypeInvIs, IndicesAreNumbers DEF LockInv, Histories
<1>3. /\ Region("acquiring", "construction") = {}
      /\ Region("lookup", "validation") = {"construction"}
      /\ Region("lookup", "freshness") = {"construction"}
      /\ Region("prerequisites", "admission") = {"construction", "validation", "freshness"}
      /\ Region("activate", "validity") = {"construction", "admission", "validity"}
      /\ Region("survey", "qualification") = Inputs
      /\ Region("bridge", "bridge") = Regions["bridge"]
      /\ Region("analyse", "technical") = Regions["technical"]
    BY RegionsAre DEF Region
<1>4. /\ <<"construction">> \in Seq(Histories) /\ Climbs(<<"construction">>)
      /\ ElementsOf(<<"construction">>) = {"construction"}
    BY LockTuples, LocksClimb, LockElements DEF Histories
<1>5. CASE BeginConstruct(t)
    <2>1. Begin(t, "construct", Request("construct", "construction", 0, "acquiring", <<>>, now))
        BY <1>5 DEF BeginConstruct
    <2> QED BY <1>1, <1>2, <1>3, <2>1, CallsOpen, LockTuples, LocksClimb, LockElements
<1>6. CASE BeginValidate(t)
    <2>1. PICK c \in DOMAIN hist["construction"] :
              Begin(t, "validate",
                    Request("validate", "validation", c, "lookup", <<"construction">>, 0))
        BY <1>6 DEF BeginValidate
    <2> QED BY <1>1, <1>2, <1>3, <1>4, <2>1, CallsOpen
<1>7. CASE BeginFreshness(t)
    <2>1. PICK c \in DOMAIN hist["construction"] :
              Begin(t, "freshness",
                    Request("freshness", "freshness", c, "lookup", <<"construction">>, now))
        BY <1>7 DEF BeginFreshness
    <2> QED BY <1>1, <1>2, <1>3, <1>4, <2>1, CallsOpen
<1>8. CASE BeginAdmit(t)
    <2> DEFINE locks == <<"construction", "validation", "freshness">>
    <2>1. PICK c \in DOMAIN hist["construction"] :
              Begin(t, "admit", Request("admit", "admission", c, "prerequisites", locks, 0))
        BY <1>8 DEF BeginAdmit
    <2>2. /\ locks \in Seq(Histories) /\ Climbs(locks)
          /\ ElementsOf(locks) = {"construction", "validation", "freshness"}
        BY LockTuples, LocksClimb, LockElements
    <2> HIDE DEF locks
    <2> QED BY <1>1, <1>2, <1>3, <2>1, <2>2, CallsOpen
<1>9. CASE BeginActivate(t)
    <2> DEFINE locks == <<"construction", "admission", "validity">>
    <2>1. PICK c \in DOMAIN hist["construction"] :
              Begin(t, "activate", Request("activate", "validity", c, "activate", locks, 0))
        BY <1>9 DEF BeginActivate
    <2>2. /\ locks \in Seq(Histories) /\ Climbs(locks)
          /\ ElementsOf(locks) = {"construction", "admission", "validity"}
        BY LockTuples, LocksClimb, LockElements
    <2> HIDE DEF locks
    <2> QED BY <1>1, <1>2, <1>3, <2>1, <2>2, CallsOpen
<1>10. CASE BeginQualify(t)
    <2> DEFINE r(c) == Request("qualify", "qualification", c, "survey", InputLocks, now)
               q(c, k, a) == [r(c) EXCEPT !.knowledge = k, !.analysis = a]
    <2>1. PICK c \in DOMAIN hist["construction"], k \in {0} \cup Recent, a \in Recent :
              Begin(t, "qualify", q(c, k, a))
        BY <1>10 DEF BeginQualify
    <2>2. r(c) \in Calls
        <3>1. GoodCall(r(c))
            BY <1>2, RequestIsGood, LockTuples, CallsOpen
        <3> HIDE DEF r
        <3> QED BY <3>1 DEF GoodCall
    <2>3. /\ q(c, k, a).waiting = r(c).waiting /\ q(c, k, a).at = r(c).at
          /\ q(c, k, a).writes = r(c).writes
        BY <2>2, CallsAre
    <2>4. r(c).waiting = InputLocks /\ r(c).at = "survey" /\ r(c).writes = "qualification"
        BY IdleIsACall, CallsAre DEF Request
    <2> HIDE DEF q, r
    <2> QED BY <1>3, <2>1, <2>3, <2>4, LocksClimb, LockElements, BeginKeepsOrder
<1>11. CASE BeginBridge(t)
    <2>1. PICK q \in DOMAIN hist["qualification"] :
              Begin(t, "bridge", Request("bridge", "bridge", q, "bridge", BridgeLocks, now))
        BY <1>11 DEF BeginBridge
    <2> QED BY <1>1, <1>2, <1>3, <2>1, CallsOpen, LockTuples, LocksClimb, LockElements
<1>12. CASE BeginAnalyse(t)
    <2>1. PICK b \in DOMAIN hist["bridge"] :
              Begin(t, "analyse", Request("analyse", "technical", b, "analyse", AnalyseLocks, now))
        BY <1>12 DEF BeginAnalyse
    <2> QED BY <1>1, <1>2, <1>3, <2>1, CallsOpen, LockTuples, LocksClimb, LockElements
<1> QED BY <1>5, <1>6, <1>7, <1>8, <1>9, <1>10, <1>11, <1>12 DEF Start

\* Occurrences are staged with their history's lock held, or the next to take.
LEMMA StagingKeepsOrder ==
    ASSUME LockInv, TypeInv', NEW t \in Threads,
           \/ Construct(t) \/ RunRule(t) \/ Evaluate(t) \/ ResolvePrerequisites(t)
           \/ IssueActive(t) \/ Qualify(t) \/ Bridge(t) \/ Analyse(t)
    PROVE  LockInv'
<1>1. /\ Leg(call[t].op, call[t].at, call[t].writes)
      /\ call[t].waiting = <<>>
    BY TypeInvIs DEF LockInv, GoodCall, Construct, RunRule, Evaluate, ResolvePrerequisites,
       IssueActive, Qualify, Bridge, Analyse, At
<1>2. Held(t) = Region(call[t].at, call[t].writes)
    BY <1>1, HoldsRegion
<1>3. ASSUME NEW h \in Histories
      PROVE  Climbs(<<h>>) /\ ElementsOf(<<h>>) = {h}
    BY LocksClimb, LockElements
<1>4. ASSUME Construct(t) \/ RunRule(t) \/ Evaluate(t), NEW detail, NEW h \in Histories,
             Stage(t, "stamp", detail, <<h>>), h = call[t].writes
      PROVE  LockInv'
    <2>1. h \in {"construction", "validation", "freshness"} /\ Held(t) = {}
        BY <1>1, <1>2, <1>4 DEF Construct, RunRule, Evaluate, At, Leg, Region
    <2>2. Region("stamp", call[t].writes) = {h}
        BY <1>4, <2>1, RegionsAre DEF Region
    <2>3. Continues(Held(t), <<h>>, "stamp", call[t].writes)
        BY <1>3, <2>1, <2>2 DEF Continues
    <2> QED BY <1>4, <2>3, StageKeepsOrder
<1>5. ASSUME IssueActive(t) \/ Qualify(t) \/ Bridge(t) \/ Analyse(t), NEW detail,
             Stage(t, "stamp", detail, <<>>)
      PROVE  LockInv'
    <2>1. Held(t) = Region("stamp", call[t].writes)
        BY <1>2, <1>5 DEF IssueActive, Qualify, Bridge, Analyse, At, Region
    <2>2. Continues(Held(t), <<>>, "stamp", call[t].writes)
        BY <2>1, LocksClimb, LockElements DEF Continues
    <2> QED BY <1>5, <2>2, StageKeepsOrder
<1>6. CASE Construct(t)
    <2>1. call[t].writes = "construction" /\ "construction" \in Histories
        BY <1>1, <1>6 DEF Construct, At, Leg, Histories
    <2> QED BY <1>4, <1>6, <2>1 DEF Construct
<1>7. CASE RunRule(t)
    <2>1. call[t].writes = "validation" /\ "validation" \in Histories
        BY <1>1, <1>7 DEF RunRule, At, Leg, Histories
    <2> QED BY <1>4, <1>7, <2>1 DEF RunRule
<1>8. CASE Evaluate(t)
    <2>1. call[t].writes = "freshness" /\ "freshness" \in Histories
        BY <1>1, <1>8 DEF Evaluate, At, Leg, Histories
    <2> QED BY <1>4, <1>8, <2>1 DEF Evaluate
<1>9. CASE ResolvePrerequisites(t)
    <2>1. PICK detail : Stage(t, "predecessor", detail, <<"admission">>)
        BY <1>9 DEF ResolvePrerequisites
    <2>2. call[t].writes = "admission" /\ Held(t) = {"construction", "validation", "freshness"}
        BY <1>1, <1>2, <1>9 DEF ResolvePrerequisites, At, Leg, Region
    <2>3. Climbs(<<"admission">>) /\ ElementsOf(<<"admission">>) = {"admission"}
        BY LocksClimb, LockElements DEF Histories
    <2>4. Region("predecessor", "admission")
             = {"construction", "validation", "freshness", "admission"}
        BY RegionsAre DEF Region
    <2>5. \A h \in Held(t) : Rank[h] < Rank["admission"]
        BY <2>2 DEF Rank
    <2>6. Continues(Held(t), <<"admission">>, "predecessor", call[t].writes)
        BY <2>2, <2>3, <2>4, <2>5 DEF Continues
    <2> QED BY <2>1, <2>6, StageKeepsOrder
<1>10. CASE IssueActive(t)
    BY <1>5, <1>10 DEF IssueActive
<1>11. CASE Qualify(t)
    BY <1>5, <1>11 DEF Qualify
<1>12. CASE Bridge(t)
    BY <1>5, <1>12 DEF Bridge
<1>13. CASE Analyse(t)
    BY <1>5, <1>13 DEF Analyse
<1> QED BY <1>6, <1>7, <1>8, <1>9, <1>10, <1>11, <1>12, <1>13

LEMMA AdvanceKeepsOrder ==
    ASSUME LockInv, TypeInv', NEW t \in Threads,
           \/ AcquisitionFails(t) \/ Lookup(t) \/ ReadPredecessor(t) \/ Survey(t)
           \/ StartTask(t) \/ Stamp(t) \/ Publish(t) \/ Refuse(t)
    PROVE  LockInv'
<1>1. /\ call \in [Threads -> Calls] /\ call[t] \in Calls /\ NoThread \notin Threads
      /\ Leg(call[t].op, call[t].at, call[t].writes)
      /\ owner \in [Histories -> Threads \cup {NoThread}]
    BY TypeInvIs, GovernedAssumption DEF LockInv, GoodCall
<1>2. /\ Climbs(<<>>) /\ ElementsOf(<<>>) = {}
      /\ Climbs(QualifyLocks) /\ ElementsOf(QualifyLocks) = Regions["qualification"]
    BY LocksClimb, LockElements
<1>3. ASSUME call' = [call EXCEPT ![t] = Idle], owner' = Released(t)
      PROVE  LockInv'
    <2>1. Idle.waiting = <<>> /\ Region(Idle.at, Idle.writes) = {}
        BY DEF Idle, Region
    <2> QED BY <1>2, <1>3, <2>1, ReleaseKeepsOrder
<1>4. CASE AcquisitionFails(t) \/ Refuse(t)
    BY <1>3, <1>4 DEF AcquisitionFails, Refuse, Return
<1>5. CASE Lookup(t)
    <2> DEFINE to == IF call[t].op = "validate" THEN "rule" ELSE "evaluate"
               c == [call[t] EXCEPT !.at = to]
    <2>1. /\ call' = [call EXCEPT ![t] = c] /\ c.waiting = <<>> /\ c.at = to
          /\ c.writes = call[t].writes
        BY <1>1, <1>5, CallsAre DEF Lookup, At
    <2>2. Held(t) = {"construction"}
        BY <1>5, HoldsRegion DEF Lookup, At, Region
    <2>3. Leaves(t, {})
        BY <1>1, <1>5, <2>2 DEF Lookup, Leaves, Held, Histories
    <2>4. Region(to, call[t].writes) = {}
        BY DEF Region
    <2>5. Continues({}, c.waiting, c.at, c.writes)
        BY <1>2, <2>1, <2>4 DEF Continues
    <2> HIDE DEF c
    <2> QED BY <2>1, <2>3, <2>5, Reorder
<1>6. CASE ReadPredecessor(t)
    <2> DEFINE H == {"construction", "validation", "freshness"}
               e == [call[t].entry EXCEPT
                        !.detail = [call[t].entry.detail EXCEPT !.predecessor = Follows(t)]]
               c == [call[t] EXCEPT !.at = "stamp", !.waiting = <<"admission">>, !.entry = e]
    <2>1. call' = [call EXCEPT ![t] = c]
        <3>1. call[t].entry \in Entry("admission")
            BY <1>1, <1>6, TypeInvIs DEF ReadPredecessor, At, Leg, StagedOf, GoodCall, LockInv
        <3> QED BY <1>1, <1>6, <3>1, ReadingThePredecessor
    <2> HIDE DEF e
    <2>2. c.waiting = <<"admission">> /\ c.at = "stamp" /\ c.writes = "admission"
        BY <1>1, <1>6, CallsAre DEF ReadPredecessor, At, Leg
    <2>3. Held(t) = H \cup {"admission"}
        BY <1>1, <1>6, HoldsRegion, RegionsAre DEF ReadPredecessor, At, Region, Leg
    <2>4. Leaves(t, H)
        BY <1>1, <1>6, <2>3 DEF ReadPredecessor, Leaves, Held, Histories
    <2>5. Region("stamp", "admission") = H \cup {"admission"}
        BY RegionsAre DEF Region
    <2>6. Climbs(<<"admission">>) /\ ElementsOf(<<"admission">>) = {"admission"}
        BY LocksClimb, LockElements DEF Histories
    <2>7. \A h \in H : Rank[h] < Rank["admission"]
        BY DEF Rank
    <2>8. Continues(H, c.waiting, c.at, c.writes)
        BY <2>2, <2>5, <2>6, <2>7 DEF Continues
    <2>9. H \in SUBSET Histories
        BY DEF Histories
    <2> HIDE DEF c, H
    <2> QED BY <2>1, <2>4, <2>8, <2>9, Reorder
<1>7. CASE Survey(t)
    <2> DEFINE tasks == Tasks(Snapshot(call[t].subject, Cutoff(t, call[t].asked)), call[t].analysis)
               again == [call[t] EXCEPT !.at = "qualify", !.waiting = QualifyLocks,
                                        !.task = Latest(tasks)]
               execute == [call[t] EXCEPT !.at = "task"]
    <2>1. /\ owner' = Released(t) /\ call[t].waiting = <<>> /\ call[t].writes = "qualification"
          /\ call' = [call EXCEPT ![t] = again] \/ call' = [call EXCEPT ![t] = execute]
        BY <1>1, <1>7 DEF Survey, At, Leg
    <2>2. /\ Region("qualify", "qualification") = Regions["qualification"]
          /\ Region("task", "qualification") = {}
        BY DEF Region
    <2>3. again.waiting = QualifyLocks /\ again.at = "qualify" /\ again.writes = "qualification"
        BY <1>1, <2>1, CallsAre
    <2>4. execute.waiting = <<>> /\ execute.at = "task" /\ execute.writes = "qualification"
        BY <1>1, <2>1, CallsAre
    <2> HIDE DEF again, execute
    <2>5. CASE call' = [call EXCEPT ![t] = again]
        BY <1>2, <2>1, <2>2, <2>3, <2>5, ReleaseKeepsOrder
    <2>6. CASE call' = [call EXCEPT ![t] = execute]
        BY <1>2, <2>1, <2>2, <2>4, <2>6, ReleaseKeepsOrder
    <2> QED BY <2>1, <2>5, <2>6
<1>8. CASE StartTask(t)
    <2> DEFINE c == [call[t] EXCEPT !.at = "lookup", !.waiting = <<"construction">>,
                                    !.writes = "freshness", !.started = now]
    <2>1. call' = [call EXCEPT ![t] = c] /\ owner' = owner
        BY <1>1, <1>8 DEF StartTask
    <2>2. c.waiting = <<"construction">> /\ c.at = "lookup" /\ c.writes = "freshness"
        BY <1>1, CallsAre
    <2>3. Held(t) = {}
        BY <1>8, HoldsRegion DEF StartTask, At, Region
    <2>4. Leaves(t, {})
        BY <2>1, <2>3 DEF Leaves, Held
    <2>5. Climbs(<<"construction">>) /\ ElementsOf(<<"construction">>) = {"construction"}
        BY LocksClimb, LockElements DEF Histories
    <2>6. Region("lookup", "freshness") = {"construction"}
        BY DEF Region
    <2>7. Continues({}, c.waiting, c.at, c.writes)
        BY <2>2, <2>5, <2>6 DEF Continues
    <2> HIDE DEF c
    <2> QED BY <2>1, <2>4, <2>7, Reorder
<1>9. CASE Stamp(t)
    <2> DEFINE e == [call[t].entry EXCEPT !.available = Availability]
               c == [call[t] EXCEPT !.at = "append", !.entry = e]
    <2>1. call' = [call EXCEPT ![t] = c] /\ owner' = owner
        BY <1>1, <1>9 DEF Stamp
    <2> HIDE DEF e
    <2>2. c.waiting = <<>> /\ c.at = "append" /\ c.writes = call[t].writes
        BY <1>1, <1>9, CallsAre DEF Stamp, At
    <2>3. Held(t) = Region("stamp", call[t].writes)
        BY <1>9, HoldsRegion DEF Stamp, At
    <2>4. Region("append", call[t].writes) = Region("stamp", call[t].writes)
        BY DEF Region
    <2>5. Leaves(t, Held(t)) /\ Held(t) \in SUBSET Histories
        BY <2>1 DEF Leaves, Held
    <2>6. Continues(Held(t), c.waiting, c.at, c.writes)
        BY <1>2, <2>2, <2>3, <2>4 DEF Continues
    <2> HIDE DEF c
    <2> QED BY <2>1, <2>5, <2>6, Reorder
<1>10. CASE Publish(t)
    <2> DEFINE next == [call[t] EXCEPT !.at = "rule", !.rule = @ + 1]
               second == [call[t] EXCEPT !.at = "qualify", !.writes = "qualification",
                                         !.waiting = QualifyLocks,
                                         !.task = Len(hist["freshness"]) + 1]
    <2>1. /\ owner' = Released(t) /\ call[t].waiting = <<>>
          /\ \/ call' = [call EXCEPT ![t] = next]
             \/ call' = [call EXCEPT ![t] = second]
             \/ call' = [call EXCEPT ![t] = Idle]
        BY <1>1, <1>10 DEF Publish, At
    <2>2. next.waiting = <<>> /\ next.at = "rule"
        BY <1>1, <2>1, CallsAre
    <2>3. second.waiting = QualifyLocks /\ second.at = "qualify" /\ second.writes = "qualification"
        BY <1>1, CallsAre
    <2>4. Region("qualify", "qualification") = Regions["qualification"]
        BY DEF Region
    <2>5. \A writes : Region("rule", writes) = {}
        BY DEF Region
    <2> HIDE DEF next, second
    <2>6. CASE call' = [call EXCEPT ![t] = next]
        <3>1. Region(next.at, next.writes) = {}
            BY <2>2, <2>5
        <3> QED BY <1>2, <2>1, <2>2, <2>6, <3>1, ReleaseKeepsOrder
    <2>7. CASE call' = [call EXCEPT ![t] = second]
        BY <1>2, <2>1, <2>3, <2>4, <2>7, ReleaseKeepsOrder
    <2>8. CASE call' = [call EXCEPT ![t] = Idle]
        BY <1>3, <2>1, <2>8
    <2> QED BY <2>1, <2>6, <2>7, <2>8
<1> QED BY <1>4, <1>5, <1>6, <1>7, <1>8, <1>9, <1>10

LEMMA LocksInit == Init => LockInv
<1> SUFFICES ASSUME Init PROVE LockInv
    OBVIOUS
<1>1. TypeInv
    BY InitIsTyped
<1>2. ASSUME NEW t \in Threads PROVE Orderly(t)
    <2>1. call[t] = Idle /\ Held(t) = {}
        BY GovernedAssumption DEF Init, Held
    <2>2. Idle.waiting = <<>> /\ Idle.at = "idle" /\ Region("idle", Idle.writes) = {}
        BY DEF Idle, Region
    <2> QED BY <2>1, <2>2 DEF Orderly, Awaited
<1> QED BY <1>1, <1>2 DEF LockInv

LEMMA LocksStep == TypeInv' /\ LockInv /\ [Next]_vars => LockInv'
<1> SUFFICES ASSUME LockInv, TypeInv', [Next]_vars PROVE LockInv'
    OBVIOUS
<1>1. ASSUME UNCHANGED <<call, owner>> PROVE LockInv'
    BY <1>1 DEF LockInv, Orderly, Held, Awaited
<1>2. CASE UNCHANGED vars
    BY <1>1, <1>2 DEF vars
<1>3. CASE Move
    BY <1>1, <1>3 DEF Move
<1>4. ASSUME NEW t \in Threads, Start(t) PROVE LockInv'
    BY <1>4, StartKeepsOrder
<1>5. ASSUME NEW t \in Threads, Step(t) PROVE LockInv'
    BY <1>5, AcquireKeepsOrder, StagingKeepsOrder, AdvanceKeepsOrder DEF Step
<1> QED BY <1>2, <1>3, <1>4, <1>5 DEF Next, AllIdle

LEMMA LocksInductive == Spec => []LockInv
BY LocksInit, LocksStep, TypesInductive, PTL DEF Spec

LEMMA OrderedWaitsClimb == LockInv => WaitsClimb
<1> SUFFICES ASSUME LockInv, NEW t \in Threads, NEW u \in Threads,
                    call[t].waiting # <<>>, call[u].waiting # <<>>,
                    owner[Head(call[t].waiting)] = u
             PROVE  Rank[Head(call[t].waiting)] < Rank[Head(call[u].waiting)]
    BY DEF WaitsClimb
<1>1. call[t].waiting \in Seq(Histories) /\ call[u].waiting \in Seq(Histories)
    BY TypeInvIs, CallsAre DEF LockInv
<1>2. Head(call[t].waiting) \in Held(u)
    BY <1>1 DEF Held
<1>3. 1 \in 1..Len(call[u].waiting) /\ Head(call[u].waiting) = call[u].waiting[1]
    BY <1>1
<1> QED BY <1>2, <1>3 DEF LockInv, Orderly

\* Whatever calls run together, a thread waits only for a lock that comes later
\* in the frozen order than every lock it holds: no circle of waiting calls can
\* form with any number of threads, and none waits for a lock of its own.
THEOREM LocksAreTakenInOrder == Spec => []WaitsClimb
BY OrderedWaitsClimb, LocksInductive, PTL
=============================================================================
