-------------------- MODULE GovernedEvidenceHistoryProofs --------------------
(***************************************************************************)
(* What the histories of the governed pipeline say stays consistent, with  *)
(* any clock: whatever an occurrence was decided from was known before it. *)
(***************************************************************************)
EXTENDS GovernedEvidenceProofs

-----------------------------------------------------------------------------
(* The inductive invariant *)

\* The histories whose occurrences are about a construction and in a snapshot.
Governing == {"validation", "freshness", "admission", "validity"}

\* An occurrence of h that was known, and was about c, at an instant.
KnownAbout(h, i, c, instant) ==
    /\ i \in DOMAIN hist[h]
    /\ hist[h][i].subject = c
    /\ hist[h][i].available <= instant

ConstructedBy(c, instant) ==
    /\ c \in DOMAIN hist["construction"]
    /\ hist["construction"][c].available <= instant

\* What an occurrence was decided from was known when it was completed.
Grounded(h, e) ==
    /\ h \in Governing => ConstructedBy(e.subject, e.completed)
    /\ h = "admission" =>
          \A b \in Basis : \A k \in e.detail.basis[b] : KnownAbout(b, k, e.subject, e.completed)
    /\ h = "validity" =>
          /\ KnownAbout("admission", e.detail.support, e.subject, e.completed)
          /\ \A k \in e.detail.admissions : KnownAbout("admission", k, e.subject, e.completed)

\* The same of a call: of its subject, and of what it has staged.
CallGrounded(c) ==
    /\ c.writes \in Governing \cup {"qualification"} => c.subject \in DOMAIN hist["construction"]
    /\ c.at = "evaluate" => ConstructedBy(c.subject, c.started)
    /\ c.at \in {"predecessor", "stamp", "append"} => Grounded(c.writes, c.entry)
    /\ c.at = "append" => c.entry.completed <= c.entry.available

GroundInv ==
    /\ TypeInv
    /\ \A h \in Histories : \A i \in DOMAIN hist[h] :
          Grounded(h, hist[h][i]) /\ hist[h][i].completed <= hist[h][i].available
    /\ \A t \in Threads : CallGrounded(call[t])

\* Histories only grow.
Grows ==
    \A h \in Histories : /\ DOMAIN hist[h] \subseteq DOMAIN hist'[h]
                         /\ \A i \in DOMAIN hist[h] : hist'[h][i] = hist[h][i]

LEMMA GroundedStays ==
    ASSUME Grows, NEW h, NEW e, Grounded(h, e)
    PROVE  Grounded(h, e)'
<1>1. ASSUME NEW g \in Histories, NEW i, NEW c, NEW instant, KnownAbout(g, i, c, instant)
      PROVE  KnownAbout(g, i, c, instant)'
    BY <1>1 DEF Grows, KnownAbout
<1>2. ASSUME NEW c, NEW instant, ConstructedBy(c, instant)
      PROVE  ConstructedBy(c, instant)'
    BY <1>2 DEF Grows, ConstructedBy, Histories
<1>3. "admission" \in Histories /\ Basis \subseteq Histories
    BY DEF Histories, Basis
<1> QED BY <1>1, <1>2, <1>3 DEF Grounded

LEMMA CallGroundedStays ==
    ASSUME Grows, NEW c, CallGrounded(c)
    PROVE  CallGrounded(c)'
<1>1. DOMAIN hist["construction"] \subseteq DOMAIN hist'["construction"]
    BY DEF Grows, Histories
<1>2. ConstructedBy(c.subject, c.started) => ConstructedBy(c.subject, c.started)'
    BY DEF Grows, ConstructedBy, Histories
<1> QED BY <1>1, <1>2, GroundedStays DEF CallGrounded

\* A step of one call that changes no history.
LEMMA OneCallGrounded ==
    ASSUME GroundInv, TypeInv', NEW t \in Threads, NEW c, call' = [call EXCEPT ![t] = c],
           CallGrounded(c), UNCHANGED hist
    PROVE  GroundInv'
<1>1. Grows
    BY DEF Grows
<1>2. call \in [Threads -> Calls]
    BY TypeInvIs DEF GroundInv
<1>3. ASSUME NEW u \in Threads PROVE CallGrounded(call[u])'
    <2>1. PICK d : d = call'[u]
        OBVIOUS
    <2>2. CallGrounded(d)
        BY <1>2, <2>1 DEF GroundInv
    <2>3. CallGrounded(d)'
        BY <1>1, <2>2, CallGroundedStays
    <2> QED BY <2>1, <2>3 DEF CallGrounded
<1>4. \A h \in Histories : \A i \in DOMAIN hist[h] : Grounded(h, hist[h][i])'
    <2> SUFFICES ASSUME NEW h \in Histories, NEW i \in DOMAIN hist[h]
                 PROVE  Grounded(h, hist[h][i])'
        OBVIOUS
    <2>1. PICK e : e = hist[h][i]
        OBVIOUS
    <2>2. Grounded(h, e)'
        BY <1>1, <2>1, GroundedStays DEF GroundInv
    <2> QED BY <2>1, <2>2 DEF Grounded
<1> QED BY <1>3, <1>4 DEF GroundInv

-----------------------------------------------------------------------------
(* Calls that change no history *)

Staged(c, detail, instant) ==
    [subject |-> c.subject, completed |-> instant, available |-> 0, detail |-> detail]

LEMMA StageKeepsGround ==
    ASSUME GroundInv, TypeInv', NEW t \in Threads, NEW point \in {"predecessor", "stamp"},
           NEW detail, NEW locks, Stage(t, point, detail, locks),
           Grounded(call[t].writes, Staged(call[t], detail, now))
    PROVE  GroundInv'
<1> DEFINE e == Staged(call[t], detail, now)
           c == [call[t] EXCEPT !.at = point, !.waiting = locks, !.entry = e]
<1>1. call[t] \in Calls /\ call \in [Threads -> Calls]
    BY TypeInvIs DEF GroundInv
<1>2. call' = [call EXCEPT ![t] = c] /\ UNCHANGED hist
    BY <1>1 DEF Stage, Staged
<1> HIDE DEF e
<1>3. /\ c.at = point /\ c.entry = e /\ c.writes = call[t].writes
      /\ c.subject = call[t].subject
    BY <1>1, CallsAre
<1>4. CallGrounded(call[t]) /\ Grounded(call[t].writes, e)
    BY DEF GroundInv, e
<1> HIDE DEF c
<1>5. CallGrounded(c)
    BY <1>3, <1>4 DEF CallGrounded
<1> QED BY <1>2, <1>5, OneCallGrounded

LEMMA ReturnKeepsGround ==
    ASSUME GroundInv, TypeInv', NEW t \in Threads, call' = [call EXCEPT ![t] = Idle], UNCHANGED hist
    PROVE  GroundInv'
<1>1. CallGrounded(Idle)
    BY DEF CallGrounded, Idle, Governing
<1> QED BY <1>1, OneCallGrounded

\* What a look at the histories finds was known then.
LEMMA SeenIsKnown ==
    ASSUME GroundInv, NEW c, NEW instant, NEW h \in Inputs \ {"construction"},
           NEW k \in Snapshot(c, instant)[h]
    PROVE  KnownAbout(h, k, c, instant)
<1>1. k \in Visible(h, c, instant)
    BY SnapshotIndices DEF GroundInv
<1> QED BY <1>1 DEF Visible, About, KnownAbout

LEMMA DecisionKeepsGround ==
    ASSUME GroundInv, TypeInv', NEW t \in Threads,
           \/ Construct(t) \/ RunRule(t) \/ Evaluate(t) \/ ResolvePrerequisites(t)
           \/ IssueActive(t) \/ Qualify(t) \/ Bridge(t) \/ Analyse(t)
    PROVE  GroundInv'
<1> DEFINE x == call[t].subject
<1>1. /\ Leg(call[t].op, call[t].at, call[t].writes) /\ CallGrounded(call[t])
      /\ now \in Nat /\ call[t].started \in Nat
    BY TypeInvIs, CallsAre DEF GroundInv, GoodCall
<1>2. \A detail : /\ Staged(call[t], detail, now).subject = x
                  /\ Staged(call[t], detail, now).completed = now
                  /\ Staged(call[t], detail, now).detail = detail
    BY DEF Staged
<1>3. ASSUME NEW detail, call[t].writes \in {"construction", "qualification", "bridge", "technical"}
      PROVE  Grounded(call[t].writes, Staged(call[t], detail, now))
    BY <1>3 DEF Grounded, Governing
<1>4. ASSUME NEW detail, call[t].writes \in {"validation", "freshness"}, ConstructedBy(x, now)
      PROVE  Grounded(call[t].writes, Staged(call[t], detail, now))
    BY <1>2, <1>4 DEF Grounded
<1>5. CASE Construct(t)
    <2>1. /\ call[t].writes = "construction"
          /\ \E d : Stage(t, "stamp", d, <<"construction">>)
        BY <1>1, <1>5 DEF Construct, At, Leg
    <2> QED BY <1>3, <2>1, StageKeepsGround
<1>6. CASE RunRule(t)
    <2>1. /\ call[t].writes = "validation"
          /\ \E d : Stage(t, "stamp", d, <<"validation">>)
        BY <1>1, <1>6 DEF RunRule, At, Leg
    <2>2. ConstructedBy(x, now)
        BY <1>1, <1>6, <2>1 DEF RunRule, KnownSince, ConstructedBy, CallGrounded, Governing
    <2> QED BY <1>4, <2>1, <2>2, StageKeepsGround
<1>7. CASE Evaluate(t)
    <2>1. /\ call[t].writes = "freshness"
          /\ \E d : Stage(t, "stamp", d, <<"freshness">>)
        BY <1>1, <1>7 DEF Evaluate, At, Leg
    <2>2. ConstructedBy(x, now)
        <3>1. ConstructedBy(x, call[t].started) /\ call[t].started <= now
            BY <1>1, <1>7 DEF Evaluate, At, CallGrounded
        <3>2. x \in DOMAIN hist["construction"] /\ hist["construction"][x].available \in Nat
            BY <3>1, IndicesAreNumbers DEF ConstructedBy, Histories, Entry, GroundInv
        <3> QED BY <1>1, <3>1, <3>2 DEF ConstructedBy
    <2> QED BY <1>4, <2>1, <2>2, StageKeepsGround
<1>8. CASE ResolvePrerequisites(t)
    <2> DEFINE s == Snapshot(x, now)
    <2>1. /\ call[t].writes = "admission" /\ Admissible(s)
          /\ \E d : /\ Stage(t, "predecessor", d, <<"admission">>)
                    /\ \A b \in Basis : d.basis[b] \subseteq s[b]
        BY <1>1, <1>8 DEF ResolvePrerequisites, At, Leg, Basis
    <2>2. PICK d : /\ Stage(t, "predecessor", d, <<"admission">>)
                   /\ \A b \in Basis : d.basis[b] \subseteq s[b]
        BY <2>1
    <2>3. ConstructedBy(x, now)
        <3>1. PICK i : i \in Visible("construction", x, now)
            BY <2>1, SnapshotIndices DEF Admissible, Inputs, GroundInv
        <3> QED BY <3>1 DEF Visible, About, ConstructedBy
    <2>4. \A b \in Basis : \A k \in d.basis[b] : KnownAbout(b, k, x, now)
        BY <2>2, SeenIsKnown DEF Basis, Inputs
    <2>5. Grounded(call[t].writes, Staged(call[t], d, now))
        BY <1>2, <2>1, <2>3, <2>4 DEF Grounded
    <2> QED BY <2>2, <2>5, StageKeepsGround
<1>9. CASE IssueActive(t)
    <2> DEFINE E == Visible("admission", x, now)
               d == [support |-> TheOne(EffectiveAdmission(E)), admissions |-> E]
    <2>1. /\ call[t].writes = "validity" /\ Stage(t, "stamp", d, <<>>)
          /\ IsOne(EffectiveAdmission(E))
        BY <1>1, <1>9 DEF IssueActive, At, Leg
    <2>2. ConstructedBy(x, now)
        BY <1>1, <1>9, <2>1 DEF IssueActive, KnownSince, ConstructedBy, CallGrounded, Governing
    <2>3. \A k \in E : KnownAbout("admission", k, x, now)
        BY DEF Visible, About, KnownAbout
    <2>4. d.support \in E /\ d.admissions = E
        BY <2>1, EffectiveIsOneOfThem
    <2> HIDE DEF E, d
    <2>5. Grounded(call[t].writes, Staged(call[t], d, now))
        BY <1>2, <2>1, <2>2, <2>3, <2>4 DEF Grounded
    <2> QED BY <2>1, <2>5, StageKeepsGround
<1>10. CASE Qualify(t)
    <2>1. call[t].writes = "qualification" /\ \E d : Stage(t, "stamp", d, <<>>)
        BY <1>1, <1>10 DEF Qualify, At, Leg
    <2> QED BY <1>3, <2>1, StageKeepsGround
<1>11. CASE Bridge(t) \/ Analyse(t)
    <2>1. call[t].writes \in {"bridge", "technical"} /\ \E d : Stage(t, "stamp", d, <<>>)
        BY <1>1, <1>11 DEF Bridge, Analyse, At, Leg
    <2> QED BY <1>3, <2>1, StageKeepsGround
<1> QED BY <1>5, <1>6, <1>7, <1>8, <1>9, <1>10, <1>11

LEMMA StartKeepsGround ==
    ASSUME GroundInv, TypeInv', NEW t \in Threads, Start(t)
    PROVE  GroundInv'
<1>1. ASSUME NEW op, NEW request, Begin(t, op, request), CallGrounded(request)
      PROVE  GroundInv'
    BY <1>1, OneCallGrounded DEF Begin
<1>2. ASSUME NEW op, NEW at, NEW writes, Opens(op, at, writes), at # "evaluate",
             NEW x \in Nat, NEW started \in Nat, NEW locks \in Seq(Histories),
             writes \in Governing \cup {"qualification"} => x \in DOMAIN hist["construction"],
             NEW request,
             request.at = Request(op, writes, x, at, locks, started).at,
             request.writes = Request(op, writes, x, at, locks, started).writes,
             request.subject = Request(op, writes, x, at, locks, started).subject
      PROVE  CallGrounded(request)
    <2>1. request.at = at /\ request.writes = writes /\ request.subject = x
        <3> DEFINE r == Request(op, writes, x, at, locks, started)
        <3>1. r.at = at /\ r.writes = writes /\ r.subject = x
            BY Opens(op, at, writes), RequestIsGood
        <3> HIDE DEF r
        <3> QED BY <1>2, <3>1 DEF r
    <2>2. at \notin {"predecessor", "stamp", "append"}
        BY <1>2 DEF Opens
    <2> QED BY <1>2, <2>1, <2>2 DEF CallGrounded
<1>3. /\ now \in Nat
      /\ DOMAIN hist["construction"] \subseteq Nat /\ DOMAIN hist["qualification"] \subseteq Nat
      /\ DOMAIN hist["bridge"] \subseteq Nat
    BY TypeInvIs, IndicesAreNumbers DEF GroundInv, Histories
<1>4. \A w \in {"construction", "bridge", "technical"} : w \notin Governing \cup {"qualification"}
    BY DEF Governing
<1>5. CASE BeginConstruct(t)
    <2>1. Begin(t, "construct", Request("construct", "construction", 0, "acquiring", <<>>, now))
        BY <1>5 DEF BeginConstruct
    <2>2. CallGrounded(Request("construct", "construction", 0, "acquiring", <<>>, now))
        BY <1>2, <1>3, <1>4, CallsOpen, LockTuples
    <2> QED BY <1>1, <2>1, <2>2
<1>6. CASE BeginValidate(t)
    <2> DEFINE r(c) == Request("validate", "validation", c, "lookup", <<"construction">>, 0)
    <2>1. PICK c \in DOMAIN hist["construction"] : Begin(t, "validate", r(c))
        BY <1>6 DEF BeginValidate
    <2>2. CallGrounded(r(c))
        BY <1>2, <1>3, CallsOpen, LockTuples
    <2> QED BY <1>1, <2>1, <2>2
<1>7. CASE BeginFreshness(t)
    <2> DEFINE r(c) == Request("freshness", "freshness", c, "lookup", <<"construction">>, now)
    <2>1. PICK c \in DOMAIN hist["construction"] : Begin(t, "freshness", r(c))
        BY <1>7 DEF BeginFreshness
    <2>2. CallGrounded(r(c))
        BY <1>2, <1>3, CallsOpen, LockTuples
    <2> QED BY <1>1, <2>1, <2>2
<1>8. CASE BeginAdmit(t)
    <2> DEFINE r(c) == Request("admit", "admission", c, "prerequisites",
                               <<"construction", "validation", "freshness">>, 0)
    <2>1. PICK c \in DOMAIN hist["construction"] : Begin(t, "admit", r(c))
        BY <1>8 DEF BeginAdmit
    <2>2. CallGrounded(r(c))
        BY <1>2, <1>3, CallsOpen, LockTuples
    <2> QED BY <1>1, <2>1, <2>2
<1>9. CASE BeginActivate(t)
    <2> DEFINE r(c) == Request("activate", "validity", c, "activate",
                               <<"construction", "admission", "validity">>, 0)
    <2>1. PICK c \in DOMAIN hist["construction"] : Begin(t, "activate", r(c))
        BY <1>9 DEF BeginActivate
    <2>2. CallGrounded(r(c))
        BY <1>2, <1>3, CallsOpen, LockTuples
    <2> QED BY <1>1, <2>1, <2>2
<1>10. CASE BeginQualify(t)
    <2> DEFINE r(c) == Request("qualify", "qualification", c, "survey", InputLocks, now)
               q(c, k, a) == [r(c) EXCEPT !.knowledge = k, !.analysis = a]
    <2>1. PICK c \in DOMAIN hist["construction"], k \in {0} \cup Recent, a \in Recent :
              Begin(t, "qualify", q(c, k, a))
        BY <1>10 DEF BeginQualify
    <2>2. r(c).at = "survey" /\ r(c).writes = "qualification" /\ r(c).subject = c /\ r(c) \in Calls
        <3>1. c \in Nat /\ InputLocks \in Seq(Histories)
            BY <1>3, LockTuples
        <3> QED BY <1>3, <3>1, IdleIsACall, CallsAre DEF Request, Ops, Points, Histories
    <2> HIDE DEF r
    <2>3. /\ q(c, k, a).at = "survey" /\ q(c, k, a).writes = "qualification"
          /\ q(c, k, a).subject = c
        BY <2>2, CallsAre
    <2> HIDE DEF q
    <2>4. CallGrounded(q(c, k, a))
        BY <2>3 DEF CallGrounded
    <2> QED BY <1>1, <2>1, <2>4
<1>11. CASE BeginBridge(t)
    <2> DEFINE r(c) == Request("bridge", "bridge", c, "bridge", BridgeLocks, now)
    <2>1. PICK q \in DOMAIN hist["qualification"] : Begin(t, "bridge", r(q))
        BY <1>11 DEF BeginBridge
    <2>2. CallGrounded(r(q))
        BY <1>2, <1>3, <1>4, CallsOpen, LockTuples
    <2> QED BY <1>1, <2>1, <2>2
<1>12. CASE BeginAnalyse(t)
    <2> DEFINE r(c) == Request("analyse", "technical", c, "analyse", AnalyseLocks, now)
    <2>1. PICK b \in DOMAIN hist["bridge"] : Begin(t, "analyse", r(b))
        BY <1>12 DEF BeginAnalyse
    <2>2. CallGrounded(r(b))
        BY <1>2, <1>3, <1>4, CallsOpen, LockTuples
    <2> QED BY <1>1, <2>1, <2>2
<1> QED BY <1>5, <1>6, <1>7, <1>8, <1>9, <1>10, <1>11, <1>12 DEF Start

LEMMA AdvanceKeepsGround ==
    ASSUME GroundInv, TypeInv', NEW t \in Threads,
           \/ Acquire(t) \/ AcquisitionFails(t) \/ Lookup(t) \/ Survey(t) \/ StartTask(t)
           \/ Refuse(t)
    PROVE  GroundInv'
<1>1. /\ call \in [Threads -> Calls] /\ call[t] \in Calls
      /\ Leg(call[t].op, call[t].at, call[t].writes) /\ CallGrounded(call[t])
    BY TypeInvIs DEF GroundInv, GoodCall
<1>2. CASE Acquire(t)
    <2> DEFINE c == [call[t] EXCEPT !.waiting = Tail(call[t].waiting)]
    <2>1. call' = [call EXCEPT ![t] = c] /\ UNCHANGED hist
        BY <1>1, <1>2 DEF Acquire
    <2>2. /\ c.at = call[t].at /\ c.writes = call[t].writes /\ c.subject = call[t].subject
          /\ c.entry = call[t].entry /\ c.started = call[t].started
        BY <1>1, CallsAre
    <2> HIDE DEF c
    <2>3. CallGrounded(c)
        BY <1>1, <2>2 DEF CallGrounded
    <2> QED BY <2>1, <2>3, OneCallGrounded
<1>3. CASE AcquisitionFails(t) \/ Refuse(t)
    BY <1>3, ReturnKeepsGround DEF AcquisitionFails, Refuse, Return
<1>4. CASE Lookup(t)
    <2> DEFINE to == IF call[t].op = "validate" THEN "rule" ELSE "evaluate"
               c == [call[t] EXCEPT !.at = to]
    <2>1. call' = [call EXCEPT ![t] = c] /\ UNCHANGED hist /\ call[t].writes \in Governing
        BY <1>1, <1>4 DEF Lookup, At, Leg, Governing
    <2>2. /\ c.at = to /\ c.writes = call[t].writes /\ c.subject = call[t].subject
          /\ c.started = call[t].started
        BY <1>1, CallsAre
    <2>3. call[t].op # "validate" => ConstructedBy(call[t].subject, call[t].started)
        BY <1>1, <1>4, <2>1 DEF Lookup, KnownSince, ConstructedBy, CallGrounded
    <2> HIDE DEF c
    <2>4. CallGrounded(c)
        BY <1>1, <2>2, <2>3 DEF CallGrounded
    <2> QED BY <2>1, <2>4, OneCallGrounded
<1>5. CASE Survey(t)
    <2> DEFINE tasks == Tasks(Snapshot(call[t].subject, Cutoff(t, call[t].asked)), call[t].analysis)
               again == [call[t] EXCEPT !.at = "qualify", !.waiting = QualifyLocks,
                                        !.task = Latest(tasks)]
               execute == [call[t] EXCEPT !.at = "task"]
    <2>1. /\ UNCHANGED hist
          /\ call' = [call EXCEPT ![t] = again] \/ call' = [call EXCEPT ![t] = execute]
        BY <1>1, <1>5 DEF Survey
    <2>2. again.at = "qualify" /\ again.writes = call[t].writes /\ again.subject = call[t].subject
        BY <1>1, CallsAre
    <2>3. execute.at = "task" /\ execute.writes = call[t].writes /\ execute.subject = call[t].subject
        BY <1>1, CallsAre
    <2> HIDE DEF again, execute
    <2>4. CallGrounded(again) /\ CallGrounded(execute)
        BY <1>1, <2>2, <2>3 DEF CallGrounded
    <2> QED BY <2>1, <2>4, OneCallGrounded
<1>6. CASE StartTask(t)
    <2> DEFINE c == [call[t] EXCEPT !.at = "lookup", !.waiting = <<"construction">>,
                                    !.writes = "freshness", !.started = now]
    <2>1. /\ call' = [call EXCEPT ![t] = c] /\ UNCHANGED hist
          /\ call[t].writes = "qualification"
        BY <1>1, <1>6 DEF StartTask, At, Leg
    <2>2. c.at = "lookup" /\ c.subject = call[t].subject
        BY <1>1, CallsAre
    <2> HIDE DEF c
    <2>3. CallGrounded(c)
        BY <1>1, <2>1, <2>2 DEF CallGrounded
    <2> QED BY <2>1, <2>3, OneCallGrounded
<1> QED BY <1>2, <1>3, <1>4, <1>5, <1>6

\* The predecessor is read after the admission was decided; what it was decided
\* from stays as it was.
LEMMA PredecessorKeepsGround ==
    ASSUME GroundInv, TypeInv', NEW t \in Threads, ReadPredecessor(t)
    PROVE  GroundInv'
<1> DEFINE f == Follows(t)
           d == [call[t].entry.detail EXCEPT !.predecessor = f]
           e == [call[t].entry EXCEPT !.detail = d]
           c == [call[t] EXCEPT !.at = "stamp", !.waiting = <<"admission">>, !.entry = e]
<1>1. /\ call \in [Threads -> Calls] /\ call[t] \in Calls /\ CallGrounded(call[t])
      /\ call[t].at = "predecessor" /\ call[t].writes = "admission"
      /\ call[t].entry \in Entry("admission")
    BY TypeInvIs DEF GroundInv, GoodCall, StagedOf, ReadPredecessor, At, Leg
<1>2. call' = [call EXCEPT ![t] = c] /\ UNCHANGED hist
    BY <1>1, ReadingThePredecessor DEF ReadPredecessor
<1> HIDE DEF f
<1>3. d.basis = call[t].entry.detail.basis
    <2>1. call[t].entry.detail \in Detail("admission")
        BY <1>1 DEF Entry
    <2>2. Detail("admission") = [predecessor: Nat, selected: [1..Rules -> Nat],
                                 freshness: Nat, basis: [Basis -> SUBSET Nat]]
        BY DetailIs
    <2>3. ASSUME NEW A, NEW B, NEW x \in [predecessor: Nat, selected: A, freshness: Nat, basis: B]
          PROVE  [x EXCEPT !.predecessor = f].basis = x.basis
        OBVIOUS
    <2> QED BY <2>1, <2>2, <2>3
<1> HIDE DEF d
<1>4. e.subject = call[t].entry.subject /\ e.completed = call[t].entry.completed /\ e.detail = d
    BY <1>1 DEF Entry
<1> HIDE DEF e
<1>5. /\ c.at = "stamp" /\ c.entry = e /\ c.writes = "admission"
      /\ c.subject = call[t].subject
    BY <1>1, CallsAre
<1> HIDE DEF c
<1>6. Grounded("admission", call[t].entry)
    BY <1>1 DEF CallGrounded
<1>7. Grounded("admission", e)
    BY <1>3, <1>4, <1>6 DEF Grounded
<1>8. CallGrounded(c)
    BY <1>1, <1>5, <1>7 DEF CallGrounded
<1> QED BY <1>2, <1>8, OneCallGrounded

LEMMA StampKeepsGround ==
    ASSUME GroundInv, TypeInv', NEW t \in Threads, Stamp(t)
    PROVE  GroundInv'
<1> DEFINE e == [call[t].entry EXCEPT !.available = Availability]
           c == [call[t] EXCEPT !.at = "append", !.entry = e]
<1>1. /\ call \in [Threads -> Calls] /\ call[t] \in Calls /\ CallGrounded(call[t])
      /\ call[t].writes \in Histories
      /\ call[t].at = "stamp" /\ call[t].entry \in Entry(call[t].writes)
    BY TypeInvIs, CallsAre DEF GroundInv, GoodCall, StagedOf, Stamp, At
<1>2. call' = [call EXCEPT ![t] = c] /\ UNCHANGED hist
    BY <1>1 DEF Stamp
<1>3. call[t].entry.completed <= Availability
    <2>1. Availability >= call[t].entry.completed
        BY DEF Stamp, Publishable
    <2>2. Availability \in Nat
        BY TypeInvIs DEF Availability, GroundInv
    <2>3. call[t].entry.completed \in Nat
        BY <1>1 DEF Entry
    <2> HIDE DEF Availability
    <2> QED BY <2>1, <2>2, <2>3
<1>4. /\ e.subject = call[t].entry.subject /\ e.completed = call[t].entry.completed
      /\ e.detail = call[t].entry.detail /\ e.available = Availability
    <2> HIDE DEF Availability
    <2> QED BY <1>1 DEF Entry
<1> HIDE DEF e
<1>5. /\ c.at = "append" /\ c.entry = e /\ c.writes = call[t].writes
      /\ c.subject = call[t].subject
    BY <1>1, CallsAre
<1> HIDE DEF c
<1>6. Grounded(call[t].writes, call[t].entry)
    BY <1>1 DEF CallGrounded
<1>7. Grounded(call[t].writes, e)
    BY <1>4, <1>6 DEF Grounded
<1>8. CallGrounded(c)
    BY <1>1, <1>3, <1>4, <1>5, <1>7 DEF CallGrounded
<1> QED BY <1>2, <1>8, OneCallGrounded

-----------------------------------------------------------------------------
(* Publication *)

\* A publication appends one occurrence to one history.
LEMMA PublishAppends ==
    ASSUME TypeInv, NEW t \in Threads, Publish(t)
    PROVE  /\ Grows
           /\ \A h \in Histories : \A i \in DOMAIN hist'[h] :
                 \/ i \in DOMAIN hist[h] /\ hist'[h][i] = hist[h][i]
                 \/ h = call[t].writes /\ i = Len(hist[h]) + 1 /\ hist'[h][i] = call[t].entry
<1> DEFINE w == call[t].writes
<1>1. w \in Histories /\ call[t].entry \in Entry(w)
    BY TypeInvIs, CallsAre DEF Publish, At, GoodCall, StagedOf
<1>2. /\ DOMAIN hist = Histories /\ hist' = [hist EXCEPT ![w] = Append(@, call[t].entry)]
      /\ hist[w] \in Seq(Entry(w))
    BY <1>1, TypeInvIs DEF Publish
<1>3. hist'[w] = Append(hist[w], call[t].entry) /\ \A h \in Histories : h # w => hist'[h] = hist[h]
    BY <1>1, <1>2
<1>4. /\ DOMAIN hist'[w] = 1..(Len(hist[w]) + 1) /\ DOMAIN hist[w] = 1..Len(hist[w])
      /\ Len(hist[w]) \in Nat
      /\ \A i \in 1..Len(hist[w]) : hist'[w][i] = hist[w][i]
      /\ hist'[w][Len(hist[w]) + 1] = call[t].entry
    BY <1>1, <1>2, <1>3, AppendProperties
<1> HIDE DEF w
<1>5. DOMAIN hist[w] \subseteq DOMAIN hist'[w]
    BY <1>4
<1>6. \A i \in DOMAIN hist'[w] : i \in DOMAIN hist[w] \/ i = Len(hist[w]) + 1
    BY <1>4
<1>7. Grows
    BY <1>3, <1>4, <1>5 DEF Grows
<1>8. ASSUME NEW h \in Histories, NEW i \in DOMAIN hist'[h]
      PROVE  \/ i \in DOMAIN hist[h] /\ hist'[h][i] = hist[h][i]
             \/ h = w /\ i = Len(hist[h]) + 1 /\ hist'[h][i] = call[t].entry
    BY <1>3, <1>4, <1>6, <1>8
<1> QED BY <1>7, <1>8 DEF w

LEMMA PublishKeepsGround ==
    ASSUME GroundInv, TypeInv', NEW t \in Threads, Publish(t)
    PROVE  GroundInv'
<1> DEFINE next == [call[t] EXCEPT !.at = "rule", !.rule = @ + 1]
           second == [call[t] EXCEPT !.at = "qualify", !.writes = "qualification",
                                     !.waiting = QualifyLocks,
                                     !.task = Len(hist["freshness"]) + 1]
<1>1. /\ call \in [Threads -> Calls] /\ call[t] \in Calls /\ CallGrounded(call[t])
      /\ call[t].at = "append"
      /\ Leg(call[t].op, call[t].at, call[t].writes)
    BY TypeInvIs DEF GroundInv, GoodCall, Publish, At
<1>2. Grows /\ TypeInv
    BY PublishAppends DEF GroundInv
<1>3. Grounded(call[t].writes, call[t].entry) /\ call[t].entry.completed <= call[t].entry.available
    BY <1>1 DEF CallGrounded
<1>4. \A h \in Histories : \A i \in DOMAIN hist'[h] :
         \/ i \in DOMAIN hist[h] /\ hist'[h][i] = hist[h][i]
         \/ h = call[t].writes /\ hist'[h][i] = call[t].entry
    BY <1>2, PublishAppends
<1>5. ASSUME NEW h \in Histories, NEW i, i \in DOMAIN hist'[h]
      PROVE  /\ \E e : e = hist'[h][i] /\ Grounded(h, e)'
             /\ hist'[h][i].completed <= hist'[h][i].available
    <2>1. CASE i \in DOMAIN hist[h] /\ hist'[h][i] = hist[h][i]
        <3>1. Grounded(h, hist[h][i]) /\ hist[h][i].completed <= hist[h][i].available
            BY <2>1 DEF GroundInv
        <3>2. PICK e : e = hist[h][i]
            OBVIOUS
        <3>3. Grounded(h, e)'
            BY <1>2, <3>1, <3>2, GroundedStays
        <3> QED BY <2>1, <3>1, <3>2, <3>3
    <2>2. CASE h = call[t].writes /\ hist'[h][i] = call[t].entry
        <3>1. PICK e : e = call[t].entry
            OBVIOUS
        <3>2. Grounded(h, e)'
            BY <1>2, <1>3, <2>2, <3>1, GroundedStays
        <3> QED BY <1>3, <2>2, <3>1, <3>2
    <2> QED BY <1>4, <1>5, <2>1, <2>2
<1>6. ASSUME NEW h \in Histories, NEW i, i \in DOMAIN hist'[h]
      PROVE  Grounded(h, hist[h][i])'
    <2>1. PICK e : e = hist'[h][i] /\ Grounded(h, e)'
        BY <1>5, <1>6
    <2> QED BY <2>1 DEF Grounded
<1>7. \E c : call' = [call EXCEPT ![t] = c] /\ CallGrounded(c)
    <2>1. CASE call' = [call EXCEPT ![t] = next]
        <3>1. /\ next.at = "rule" /\ next.writes = call[t].writes
              /\ next.subject = call[t].subject
            BY <1>1, CallsAre
        <3> HIDE DEF next
        <3>2. CallGrounded(next)
            BY <1>1, <3>1 DEF CallGrounded
        <3> QED BY <2>1, <3>2
    <2>2. CASE SecondLook(t) /\ call' = [call EXCEPT ![t] = second]
        <3>1. second.at = "qualify" /\ second.subject = call[t].subject
            BY <1>1, CallsAre
        <3>2. call[t].writes = "freshness"
            BY <2>2 DEF SecondLook
        <3> HIDE DEF second
        <3>3. CallGrounded(second)
            BY <1>1, <3>1, <3>2 DEF CallGrounded, Governing
        <3> QED BY <2>2, <3>3
    <2>3. CASE call' = [call EXCEPT ![t] = Idle]
        <3>1. CallGrounded(Idle)
            BY DEF CallGrounded, Idle, Governing
        <3> QED BY <2>3, <3>1
    <2>4. \/ call' = [call EXCEPT ![t] = next]
          \/ SecondLook(t) /\ call' = [call EXCEPT ![t] = second]
          \/ call' = [call EXCEPT ![t] = Idle]
        BY <1>1 DEF Publish
    <2> QED BY <2>1, <2>2, <2>3, <2>4
<1>8. ASSUME NEW u \in Threads PROVE CallGrounded(call[u])'
    <2>1. PICK d : d = call'[u]
        OBVIOUS
    <2>2. CallGrounded(d)
        BY <1>1, <1>7, <2>1 DEF GroundInv
    <2>3. CallGrounded(d)'
        BY <1>2, <2>2, CallGroundedStays
    <2> QED BY <2>1, <2>3 DEF CallGrounded
<1>9. \A h \in Histories : \A i \in DOMAIN hist'[h] :
         hist'[h][i].completed <= hist'[h][i].available
    BY <1>5
<1> QED BY <1>6, <1>8, <1>9 DEF GroundInv

-----------------------------------------------------------------------------
(* Closed snapshots *)

LEMMA GroundInit == Init => GroundInv
<1> SUFFICES ASSUME Init PROVE GroundInv
    OBVIOUS
<1>1. \A h \in Histories : DOMAIN hist[h] = {}
    BY DEF Init
<1>2. \A t \in Threads : call[t] = Idle
    BY DEF Init
<1>3. CallGrounded(Idle)
    BY DEF CallGrounded, Idle, Governing
<1> QED BY <1>1, <1>2, <1>3, InitIsTyped DEF GroundInv

\* Only what is called and retained matters.
LEMMA GroundUndisturbed ==
    ASSUME GroundInv, TypeInv', UNCHANGED <<call, hist>>
    PROVE  GroundInv'
<1>1. ASSUME NEW h, NEW e PROVE Grounded(h, e)' <=> Grounded(h, e)
    BY DEF Grounded, ConstructedBy, KnownAbout
<1>2. ASSUME NEW h \in Histories, NEW i \in DOMAIN hist[h]
      PROVE  Grounded(h, hist[h][i])'
    <2>1. PICK e : e = hist[h][i]
        OBVIOUS
    <2>2. Grounded(h, e)'
        BY <1>1, <2>1 DEF GroundInv
    <2> QED BY <2>1, <2>2 DEF Grounded
<1>3. ASSUME NEW t \in Threads PROVE CallGrounded(call[t])'
    <2>1. PICK c : c = call[t] /\ CallGrounded(c)
        BY DEF GroundInv
    <2>2. CallGrounded(c)'
        BY <1>1, <2>1 DEF CallGrounded, ConstructedBy
    <2> QED BY <2>1, <2>2 DEF CallGrounded
<1> QED BY <1>2, <1>3 DEF GroundInv

LEMMA GroundStep == TypeInv' /\ GroundInv /\ [Next]_vars => GroundInv'
<1> SUFFICES ASSUME GroundInv, TypeInv', [Next]_vars PROVE GroundInv'
    OBVIOUS
<1>1. ASSUME UNCHANGED <<call, hist>> PROVE GroundInv'
    BY <1>1, GroundUndisturbed
<1>2. CASE UNCHANGED vars
    BY <1>1, <1>2 DEF vars
<1>3. CASE Move
    BY <1>1, <1>3 DEF Move
<1>4. ASSUME NEW t \in Threads, Start(t) PROVE GroundInv'
    BY <1>4, StartKeepsGround
<1>5. ASSUME NEW t \in Threads, Step(t) PROVE GroundInv'
    BY <1>5, DecisionKeepsGround, AdvanceKeepsGround, PredecessorKeepsGround,
       StampKeepsGround, PublishKeepsGround DEF Step
<1> QED BY <1>2, <1>3, <1>4, <1>5 DEF Next, AllIdle

LEMMA GroundInductive == Spec => []GroundInv
BY GroundInit, GroundStep, TypesInductive, PTL DEF Spec

\* The records a retained occurrence names are in every snapshot it is in.
LEMMA SnapshotsClose ==
    ASSUME GroundInv, NEW c, NEW cutoff \in Nat
    PROVE  Closed(Snapshot(c, cutoff))
<1> DEFINE s == Snapshot(c, cutoff)
<1>1. \A h \in Inputs : s[h] = Visible(h, c, cutoff)
    BY SnapshotIndices DEF GroundInv
<1>2. ASSUME NEW h \in Governing, NEW i \in s[h]
      PROVE  /\ i \in DOMAIN hist[h] /\ hist[h][i].subject = c /\ Grounded(h, hist[h][i])
             /\ hist[h][i].completed \in Nat /\ hist[h][i].completed <= cutoff
    <2>1. /\ h \in Histories /\ i \in DOMAIN hist[h] /\ hist[h][i].subject = c
          /\ hist[h][i].available <= cutoff
        BY <1>1 DEF Governing, Inputs, Histories, Visible, About
    <2>2. hist[h][i].completed \in Nat /\ hist[h][i].available \in Nat
        BY <2>1, IndicesAreNumbers, EntryFields DEF GroundInv
    <2>3. hist[h][i].completed <= hist[h][i].available /\ Grounded(h, hist[h][i])
        BY <2>1 DEF GroundInv
    <2> QED BY <2>1, <2>2, <2>3
<1>3. ASSUME NEW instant \in Nat, instant <= cutoff, ConstructedBy(c, instant)
      PROVE  s["construction"] # {}
    <2>1. hist["construction"][c].available \in Nat
        BY <1>3, IndicesAreNumbers, EntryFields DEF ConstructedBy, Histories, GroundInv
    <2>2. c \in Visible("construction", c, cutoff)
        BY <1>3, <2>1 DEF ConstructedBy, Visible, About
    <2> QED BY <1>1, <2>2 DEF Inputs
<1>4. ASSUME NEW g \in Governing, NEW k, NEW instant \in Nat, instant <= cutoff,
             KnownAbout(g, k, c, instant)
      PROVE  k \in s[g]
    <2>1. hist[g][k].available \in Nat
        BY <1>4, IndicesAreNumbers, EntryFields DEF KnownAbout, Governing, Histories, GroundInv
    <2>2. k \in Visible(g, c, cutoff)
        BY <1>4, <2>1 DEF KnownAbout, Visible, About, Governing
    <2> QED BY <1>1, <2>2 DEF Governing, Inputs
<1> HIDE DEF s
<1>5. s["construction"] = {} => \A h \in Inputs : s[h] = {}
    <2> SUFFICES ASSUME s["construction"] = {}, NEW h \in Inputs, h # "construction" PROVE s[h] = {}
        OBVIOUS
    <2>1. h \in Governing
        BY DEF Inputs, Governing
    <2>2. \A i \in s[h] : FALSE
        BY <1>2, <1>3, <2>1 DEF Grounded
    <2> QED BY <2>2
<1>6. \A i \in s["admission"] : \A b \in Basis :
         hist["admission"][i].detail.basis[b] \subseteq s[b]
    <2> SUFFICES ASSUME NEW i \in s["admission"], NEW b \in Basis,
                        NEW k \in hist["admission"][i].detail.basis[b]
                 PROVE  k \in s[b]
        OBVIOUS
    <2>1. "admission" \in Governing /\ b \in Governing
        BY DEF Basis, Governing
    <2> QED BY <1>2, <1>4, <2>1 DEF Grounded
<1>7. \A i \in s["validity"] :
         /\ hist["validity"][i].detail.support \in s["admission"]
         /\ hist["validity"][i].detail.admissions \subseteq s["admission"]
    <2> SUFFICES ASSUME NEW i \in s["validity"]
                 PROVE  /\ hist["validity"][i].detail.support \in s["admission"]
                        /\ \A k \in hist["validity"][i].detail.admissions : k \in s["admission"]
        OBVIOUS
    <2>1. "admission" \in Governing /\ "validity" \in Governing
        BY DEF Governing
    <2> QED BY <1>2, <1>4, <2>1 DEF Grounded
<1> QED BY <1>5, <1>6, <1>7 DEF Closed, s

\* Whatever the clock does and however the calls interleave, every snapshot of a
\* version at any cutoff holds everything its records were decided from: nothing
\* is ever known before what it rests on, so _snapshot refuses no qualification.
THEOREM SnapshotsAreClosed == Spec => []EverySnapshotIsClosed
<1>1. GroundInv => EverySnapshotIsClosed
    <2> SUFFICES ASSUME GroundInv, NEW c \in DOMAIN hist["construction"], NEW cutoff \in 0..latest
                 PROVE  Closed(Snapshot(c, cutoff))
        BY DEF EverySnapshotIsClosed
    <2>1. cutoff \in Nat
        BY TypeInvIs DEF GroundInv
    <2> QED BY <2>1, SnapshotsClose
<1> QED BY <1>1, GroundInductive, PTL

-----------------------------------------------------------------------------
(* Uses where the readings are distinct *)

\* A use reads, at its cutoff, what it was qualified on.
UseKept(e) ==
    /\ e.detail.cutoff <= e.completed /\ e.detail.cutoff <= latest
    /\ Snapshot(e.subject, e.detail.cutoff) = e.detail.context

KnownSubject(h, x, instant) == x \in DOMAIN hist[h] /\ hist[h][x].available <= instant

Kept(h, e) ==
    /\ h = "qualification" => UseKept(e)
    /\ h = "bridge" => KnownSubject("qualification", e.subject, e.detail.started)
    /\ h = "technical" => KnownSubject("bridge", e.subject, e.detail.started)

CallKept(c) ==
    /\ c.writes = "bridge" => c.subject \in DOMAIN hist["qualification"]
    /\ c.writes = "technical" => c.subject \in DOMAIN hist["bridge"]
    /\ c.knowledge <= c.asked /\ c.asked <= latest
    /\ c.at \in {"stamp", "append"} => Kept(c.writes, c.entry)
    /\ c.at = "append" => c.waiting = <<>>

\* A call about to append what a snapshot may show, and one with a staged use.
Appends(c) == c.at = "append" /\ c.writes \in Inputs
HoldsUse(c) == c.at \in {"stamp", "append"} /\ c.writes = "qualification"

\* What is appended next became known after every cutoff used so far.
PastEveryUse(instant) ==
    /\ \A q \in DOMAIN hist["qualification"] : hist["qualification"][q].detail.cutoff < instant
    /\ \A t \in Threads : HoldsUse(call[t]) => call[t].entry.detail.cutoff < instant

KeptInv ==
    /\ \A h \in Histories : \A i \in DOMAIN hist[h] : Kept(h, hist[h][i])
    /\ \A t \in Threads : CallKept(call[t])
    /\ \A t \in Threads : Appends(call[t]) => PastEveryUse(call[t].entry.available)

LEMMA ReadingsGrow ==
    ASSUME now \in Nat, latest \in Nat
    PROVE  /\ Read => now <= latest' /\ latest <= latest' /\ latest' \in Nat
           /\ ReadAvailability => Availability <= latest' /\ latest <= latest' /\ latest' \in Nat
           /\ Availability \in Nat
           /\ scenario.clock = "distinct" => latest < Availability
<1>1. Availability \in Nat
    BY DEF Availability
<1>2. Read => now <= latest' /\ latest <= latest' /\ latest' \in Nat
    BY DEF Read
<1>3. ReadAvailability => Availability <= latest' /\ latest <= latest' /\ latest' \in Nat
    <2> HIDE DEF Availability
    <2> QED BY <1>1 DEF ReadAvailability
<1>4. scenario.clock = "distinct" => latest < Availability
    BY DEF Availability
<1> QED BY <1>1, <1>2, <1>3, <1>4

LEMMA CutoffIsANumber ==
    ASSUME NEW e \in Entry("qualification")
    PROVE  e.detail.cutoff \in Nat
<1>1. e.detail \in Detail("qualification")
    BY DEF Entry
<1>2. Detail("qualification") = [cutoff: Nat, analysis: Nat, task: Nat,
                                 context: [Inputs -> SUBSET Nat]]
    BY DetailIs
<1>3. ASSUME NEW A, NEW d \in [cutoff: Nat, analysis: Nat, task: Nat, context: A]
      PROVE  d.cutoff \in Nat
    OBVIOUS
<1> QED BY <1>1, <1>2, <1>3

\* Retained uses read the same as long as no history changes.
LEMMA KeptStays ==
    ASSUME TypeInv, UNCHANGED hist, latest' \in Nat, latest <= latest',
           NEW h \in Histories, NEW e \in Entry(h), Kept(h, e)
    PROVE  Kept(h, e)'
<1>1. latest \in Nat
    BY TypeInvIs
<1>2. CASE h = "qualification"
    <2>1. e.detail.cutoff \in Nat
        BY <1>2, CutoffIsANumber
    <2>2. Snapshot(e.subject, e.detail.cutoff)' = Snapshot(e.subject, e.detail.cutoff)
        BY DEF Snapshot, Visible, About
    <2>3. UseKept(e)'
        BY <1>1, <1>2, <2>1, <2>2 DEF Kept, UseKept
    <2> QED BY <1>2, <2>3 DEF Kept
<1>3. CASE h # "qualification"
    BY <1>3 DEF Kept, KnownSubject
<1> QED BY <1>2, <1>3

\* A step of one call that changes no history.
LEMMA OneCallKept ==
    ASSUME KeptInv, TypeInv, TypeInv', NEW t \in Threads, NEW c, call' = [call EXCEPT ![t] = c],
           UNCHANGED hist, latest' \in Nat, latest <= latest',
           CallKept(c)',
           Appends(c) => PastEveryUse(c.entry.available)',
           HoldsUse(c) => \A u \in Threads : u # t /\ Appends(call[u]) =>
                             c.entry.detail.cutoff < call[u].entry.available
    PROVE  KeptInv'
<1>1. call \in [Threads -> Calls] /\ latest \in Nat
    BY TypeInvIs
<1>2. call'[t] = c /\ \A u \in Threads : u # t => call'[u] = call[u]
    BY <1>1
<1>3. \A h \in Histories : \A i \in DOMAIN hist[h] : Kept(h, hist[h][i])'
    <2> SUFFICES ASSUME NEW h \in Histories, NEW i \in DOMAIN hist[h] PROVE Kept(h, hist[h][i])'
        OBVIOUS
    <2>1. PICK e : e = hist[h][i] /\ e \in Entry(h) /\ Kept(h, e)
        BY IndicesAreNumbers DEF KeptInv
    <2>2. Kept(h, e)'
        BY <2>1, KeptStays
    <2> QED BY <2>1, <2>2 DEF Kept
<1>4. ASSUME NEW u \in Threads PROVE CallKept(call[u])'
    <2>1. CASE u = t
        BY <1>2, <2>1 DEF CallKept
    <2>2. CASE u # t
        <3>1. PICK d : d = call[u] /\ d = call'[u] /\ CallKept(d) /\ GoodCall(d)
            BY <1>2, <2>2, TypeInvIs DEF KeptInv
        <3>2. d.at \in {"stamp", "append"} => d.entry \in Entry(d.writes) /\ d.writes \in Histories
            BY <3>1, CallsAre DEF GoodCall, StagedOf
        <3>3. d.at \in {"stamp", "append"} => Kept(d.writes, d.entry)'
            BY <3>1, <3>2, KeptStays DEF CallKept
        <3>4. d.asked \in Nat
            BY <3>1, CallsAre DEF GoodCall
        <3>5. CallKept(d)'
            BY <1>1, <3>1, <3>3, <3>4 DEF CallKept
        <3> QED BY <3>1, <3>5 DEF CallKept
    <2> QED BY <2>1, <2>2
<1>5. ASSUME NEW u \in Threads, Appends(call[u])' PROVE PastEveryUse(call[u].entry.available)'
    <2>1. CASE u = t
        BY <1>2, <1>5, <2>1 DEF Appends, PastEveryUse
    <2>2. CASE u # t
        <3>1. call'[u] = call[u] /\ Appends(call[u])
            BY <1>2, <1>5, <2>2 DEF Appends
        <3>2. PastEveryUse(call[u].entry.available)
            BY <3>1 DEF KeptInv
        <3>3. ASSUME NEW v \in Threads, HoldsUse(call'[v])
              PROVE  call'[v].entry.detail.cutoff < call[u].entry.available
            BY <1>2, <2>2, <3>1, <3>2, <3>3 DEF PastEveryUse
        <3> QED BY <3>1, <3>2, <3>3 DEF PastEveryUse, HoldsUse
    <2> QED BY <2>1, <2>2
<1> QED BY <1>3, <1>4, <1>5 DEF KeptInv

\* A step that leaves the call with nothing staged.
LEMMA UnstagedKeepsUses ==
    ASSUME KeptInv, TypeInv, TypeInv', NEW t \in Threads, NEW c, call' = [call EXCEPT ![t] = c],
           UNCHANGED hist, latest' \in Nat, latest <= latest',
           c.at \notin {"stamp", "append"},
           c.writes = "bridge" => c.subject \in DOMAIN hist["qualification"],
           c.writes = "technical" => c.subject \in DOMAIN hist["bridge"],
           c.knowledge <= c.asked, c.asked <= latest'
    PROVE  KeptInv'
<1>1. CallKept(c)'
    BY DEF CallKept
<1>2. ~Appends(c) /\ ~HoldsUse(c)
    BY DEF Appends, HoldsUse
<1> QED BY <1>1, <1>2, OneCallKept

LEMMA IdleKeepsUses ==
    ASSUME KeptInv, TypeInv, TypeInv', NEW t \in Threads, call' = [call EXCEPT ![t] = Idle],
           UNCHANGED hist, latest' \in Nat, latest <= latest'
    PROVE  KeptInv'
<1>1. /\ Idle.at = "idle" /\ Idle.writes = "construction" /\ Idle.knowledge = 0 /\ Idle.asked = 0
    BY DEF Idle
<1>2. Idle.knowledge <= Idle.asked /\ Idle.asked <= latest'
    BY <1>1
<1> QED BY <1>1, <1>2, UnstagedKeepsUses

LEMMA StartKeepsUses ==
    ASSUME KeptInv, TypeInv, TypeInv', NEW t \in Threads, Start(t)
    PROVE  KeptInv'
<1>1. /\ now \in Nat /\ latest \in Nat
      /\ DOMAIN hist["construction"] \subseteq Nat /\ DOMAIN hist["qualification"] \subseteq Nat
      /\ DOMAIN hist["bridge"] \subseteq Nat
    BY TypeInvIs, IndicesAreNumbers DEF Histories
<1>2. Read => now <= latest' /\ latest <= latest' /\ latest' \in Nat
    BY <1>1, ReadingsGrow
<1>3. ASSUME NEW op, NEW at, NEW writes, Opens(op, at, writes),
             NEW x \in Nat, NEW started \in Nat, NEW locks \in Seq(Histories),
             Begin(t, op, Request(op, writes, x, at, locks, started)),
             writes = "bridge" => x \in DOMAIN hist["qualification"],
             writes = "technical" => x \in DOMAIN hist["bridge"],
             latest' \in Nat, latest <= latest', started <= latest'
      PROVE  KeptInv'
    <2> DEFINE r == Request(op, writes, x, at, locks, started)
    <2>1. r.at = at /\ r.writes = writes /\ r.subject = x
        BY <1>3, RequestIsGood
    <2>2. r.knowledge = 0 /\ r.asked = started
        <3>1. Idle.knowledge = 0
            BY DEF Idle
        <3> QED BY <3>1, IdleIsACall, CallsAre DEF Request
    <2>3. call' = [call EXCEPT ![t] = r] /\ UNCHANGED hist
        BY <1>3 DEF Begin
    <2>4. at \notin {"stamp", "append"}
        BY <1>3 DEF Opens
    <2> HIDE DEF r
    <2>5. r.knowledge <= r.asked /\ r.asked <= latest'
        BY <1>3, <2>2
    <2> QED BY <1>3, <2>1, <2>3, <2>4, <2>5, UnstagedKeepsUses
<1>4. CASE BeginConstruct(t)
    <2> DEFINE locks == <<>>
    <2>1. /\ Begin(t, "construct", Request("construct", "construction", 0, "acquiring", locks, now))
          /\ Read
        BY <1>4 DEF BeginConstruct
    <2>2. locks \in Seq(Histories)
        OBVIOUS
    <2> HIDE DEF locks
    <2> QED BY <1>1, <1>2, <1>3, <2>1, <2>2, CallsOpen
<1>5. CASE BeginValidate(t)
    <2> DEFINE locks == <<"construction">>
    <2>1. PICK c \in DOMAIN hist["construction"] :
              /\ latest' = latest
              /\ Begin(t, "validate",
                       Request("validate", "validation", c, "lookup", locks, 0))
        BY <1>5 DEF BeginValidate
    <2>2. latest' \in Nat /\ latest <= latest' /\ 0 <= latest' /\ 0 \in Nat
        BY <1>1, <2>1
    <2>3. locks \in Seq(Histories)
        BY LockTuples
    <2> HIDE DEF locks
    <2> QED BY <1>1, <1>3, <2>1, <2>2, <2>3, CallsOpen
<1>6. CASE BeginFreshness(t)
    <2> DEFINE locks == <<"construction">>
    <2>1. PICK c \in DOMAIN hist["construction"] :
              /\ Read
              /\ Begin(t, "freshness",
                       Request("freshness", "freshness", c, "lookup", locks, now))
        BY <1>6 DEF BeginFreshness
    <2>3. locks \in Seq(Histories)
        BY LockTuples
    <2> HIDE DEF locks
    <2> QED BY <1>1, <1>2, <1>3, <2>1, <2>3, CallsOpen
<1>7. CASE BeginAdmit(t)
    <2> DEFINE locks == <<"construction", "validation", "freshness">>
    <2>1. PICK c \in DOMAIN hist["construction"] :
              /\ latest' = latest
              /\ Begin(t, "admit", Request("admit", "admission", c, "prerequisites", locks, 0))
        BY <1>7 DEF BeginAdmit
    <2>2. latest' \in Nat /\ latest <= latest' /\ 0 <= latest' /\ 0 \in Nat
        BY <1>1, <2>1
    <2>3. locks \in Seq(Histories)
        BY LockTuples
    <2> HIDE DEF locks
    <2> QED BY <1>1, <1>3, <2>1, <2>2, <2>3, CallsOpen
<1>8. CASE BeginActivate(t)
    <2> DEFINE locks == <<"construction", "admission", "validity">>
    <2>1. PICK c \in DOMAIN hist["construction"] :
              /\ latest' = latest
              /\ Begin(t, "activate", Request("activate", "validity", c, "activate", locks, 0))
        BY <1>8 DEF BeginActivate
    <2>2. latest' \in Nat /\ latest <= latest' /\ 0 <= latest' /\ 0 \in Nat
        BY <1>1, <2>1
    <2>3. locks \in Seq(Histories)
        BY LockTuples
    <2> HIDE DEF locks
    <2> QED BY <1>1, <1>3, <2>1, <2>2, <2>3, CallsOpen
<1>9. CASE BeginQualify(t)
    <2> DEFINE r(c) == Request("qualify", "qualification", c, "survey", InputLocks, now)
               q(c, k, a) == [r(c) EXCEPT !.knowledge = k, !.analysis = a]
    <2>1. PICK c \in DOMAIN hist["construction"], k \in {0} \cup Recent, a \in Recent :
              Begin(t, "qualify", q(c, k, a))
        BY <1>9 DEF BeginQualify
    <2>2. r(c).at = "survey" /\ r(c).writes = "qualification" /\ r(c).asked = now /\ r(c) \in Calls
        <3>1. c \in Nat /\ InputLocks \in Seq(Histories)
            BY <1>1, LockTuples
        <3> QED BY <1>1, <3>1, IdleIsACall, CallsAre DEF Request, Ops, Points, Histories
    <2> HIDE DEF r
    <2>3. /\ q(c, k, a).at = "survey" /\ q(c, k, a).writes = "qualification"
          /\ q(c, k, a).knowledge = k /\ q(c, k, a).asked = now
        BY <2>2, CallsAre
    <2>4. k <= now
        BY <1>1 DEF Recent
    <2>5. call' = [call EXCEPT ![t] = q(c, k, a)] /\ UNCHANGED hist /\ Read
        BY <1>9, <2>1 DEF Begin, BeginQualify
    <2> HIDE DEF q
    <2> QED BY <1>2, <2>3, <2>4, <2>5, UnstagedKeepsUses
<1>10. CASE BeginBridge(t)
    <2>1. PICK q \in DOMAIN hist["qualification"] :
              Begin(t, "bridge", Request("bridge", "bridge", q, "bridge", BridgeLocks, now)) /\ Read
        BY <1>10 DEF BeginBridge
    <2> QED BY <1>1, <1>2, <1>3, <2>1, CallsOpen, LockTuples
<1>11. CASE BeginAnalyse(t)
    <2>1. PICK b \in DOMAIN hist["bridge"] :
              /\ Begin(t, "analyse", Request("analyse", "technical", b, "analyse", AnalyseLocks, now))
              /\ Read
        BY <1>11 DEF BeginAnalyse
    <2> QED BY <1>1, <1>2, <1>3, <2>1, CallsOpen, LockTuples
<1> QED BY <1>4, <1>5, <1>6, <1>7, <1>8, <1>9, <1>10, <1>11 DEF Start

LEMMA StageKeepsUses ==
    ASSUME KeptInv, TypeInv, TypeInv', NEW t \in Threads, NEW point \in {"predecessor", "stamp"},
           NEW detail, NEW locks, Stage(t, point, detail, locks),
           NEW e, e = Staged(call[t], detail, now), NEW w, w = call[t].writes, Kept(w, e)',
           w = "qualification" => \A u \in Threads : u # t => ~Appends(call[u])
    PROVE  KeptInv'
<1> DEFINE c == [call[t] EXCEPT !.at = point, !.waiting = locks, !.entry = e]
<1>1. /\ call[t] \in Calls /\ call \in [Threads -> Calls] /\ now \in Nat /\ latest \in Nat
      /\ CallKept(call[t]) /\ call[t].asked \in Nat
    BY TypeInvIs, CallsAre DEF KeptInv
<1>2. /\ call' = [call EXCEPT ![t] = c] /\ UNCHANGED hist
      /\ latest <= latest' /\ latest' \in Nat
    BY <1>1, ReadingsGrow DEF Stage, Staged
<1>3. /\ c.at = point /\ c.entry = e /\ c.writes = call[t].writes
      /\ c.subject = call[t].subject /\ c.knowledge = call[t].knowledge /\ c.asked = call[t].asked
    BY <1>1, CallsAre
<1>4. PICK d : d = c
    OBVIOUS
<1> HIDE DEF c
<1>5. CallKept(d)'
    BY <1>1, <1>2, <1>3, <1>4 DEF CallKept
<1>6. ~Appends(d) /\ (HoldsUse(d) => w = "qualification")
    BY <1>3, <1>4 DEF Appends, HoldsUse
<1>7. call' = [call EXCEPT ![t] = d]
    BY <1>2, <1>4
<1> QED BY <1>2, <1>5, <1>6, <1>7, OneCallKept

LEMMA DecisionKeepsUses ==
    ASSUME KeptInv, LockInv, TypeInv', NEW t \in Threads,
           \/ Construct(t) \/ RunRule(t) \/ Evaluate(t) \/ ResolvePrerequisites(t)
           \/ IssueActive(t) \/ Qualify(t) \/ Bridge(t) \/ Analyse(t)
    PROVE  KeptInv'
<1>1. /\ TypeInv /\ now \in Nat /\ latest \in Nat /\ CallKept(call[t])
      /\ Leg(call[t].op, call[t].at, call[t].writes)
      /\ call[t].asked \in Nat /\ call[t].knowledge \in Nat
    BY TypeInvIs, CallsAre DEF LockInv, GoodCall, KeptInv
<1>2. CASE call[t].writes \notin {"qualification", "bridge", "technical"}
    <2>1. \E point \in {"predecessor", "stamp"} : \E detail, locks : Stage(t, point, detail, locks)
        BY <1>1, <1>2 DEF Construct, RunRule, Evaluate, ResolvePrerequisites, IssueActive,
           Qualify, Bridge, Analyse, At, Leg
    <2>2. PICK point \in {"predecessor", "stamp"} : \E detail, locks : Stage(t, point, detail, locks)
        BY <2>1
    <2>6. PICK detail, locks : Stage(t, point, detail, locks)
        BY <2>2
    <2>3. PICK e, w : e = Staged(call[t], detail, now) /\ w = call[t].writes
        OBVIOUS
    <2>4. Kept(w, e)'
        BY <1>2, <2>3 DEF Kept
    <2> QED BY <1>1, <1>2, <2>3, <2>4, <2>6, StageKeepsUses
<1>3. CASE Qualify(t)
    <2> DEFINE cutoff == Cutoff(t, now)
               s == Snapshot(call[t].subject, cutoff)
               detail == [cutoff |-> cutoff, analysis |-> call[t].analysis,
                          task |-> call[t].task, context |-> s]
    <2>1. /\ call[t].at = "qualify" /\ call[t].waiting = <<>> /\ call[t].writes = "qualification"
          /\ call[t].asked <= now /\ Stage(t, "stamp", detail, <<>>)
        BY <1>1, <1>3 DEF Qualify, Qualifies, At, Leg
    <2>2. cutoff \in Nat /\ cutoff <= now
        BY <1>1, <2>1 DEF Cutoff, CallKept
    <2>3. now <= latest' /\ latest' \in Nat /\ UNCHANGED hist
        BY <1>1, <2>1, ReadingsGrow DEF Stage
    <2>4. PICK d, e, w : d = detail /\ e = Staged(call[t], detail, now) /\ w = call[t].writes
        OBVIOUS
    <2>5. /\ e.subject = call[t].subject /\ e.completed = now /\ e.detail.cutoff = cutoff
          /\ e.detail.context = s
        BY <2>4 DEF Staged
    <2> HIDE DEF cutoff, detail
    <2>6. Snapshot(e.subject, e.detail.cutoff)' = e.detail.context
        BY <2>3, <2>5 DEF Snapshot, Visible, About
    <2>7. Kept(w, e)'
        BY <1>1, <2>1, <2>2, <2>3, <2>4, <2>5, <2>6 DEF Kept, UseKept
    <2>8. ASSUME NEW u \in Threads, u # t, Appends(call[u]) PROVE FALSE
        <3>1. Inputs \subseteq Held(t)
            BY <2>1, HoldsRegion DEF Region, Regions
        <3>2. call[u].waiting = <<>> /\ call[u].at = "append" /\ call[u].writes \in Inputs
            BY <2>8 DEF KeptInv, CallKept, Appends
        <3>3. Held(u) = Regions[call[u].writes]
            BY <3>2, HoldsRegion DEF Region
        <3>4. call[u].writes \in Held(u)
            BY <3>2, <3>3, RegionsAre DEF Inputs
        <3> QED BY <2>8, <3>1, <3>2, <3>4 DEF Held
    <2> QED BY <1>1, <2>1, <2>4, <2>7, <2>8, StageKeepsUses
<1>4. CASE Bridge(t)
    <2> DEFINE detail == [started |-> call[t].started]
    <2>1. /\ call[t].writes = "bridge" /\ Stage(t, "stamp", detail, <<>>)
          /\ hist["qualification"][call[t].subject].available <= call[t].started
        BY <1>1, <1>4 DEF Bridge, Resolvable, At, Leg
    <2>2. UNCHANGED hist /\ call[t].subject \in DOMAIN hist["qualification"]
        BY <1>1, <2>1 DEF Stage, CallKept
    <2>3. PICK d, e, w : d = detail /\ e = Staged(call[t], detail, now) /\ w = call[t].writes
        OBVIOUS
    <2>4. e.subject = call[t].subject /\ e.detail.started = call[t].started
        BY <2>3 DEF Staged
    <2> HIDE DEF detail
    <2>5. Kept(w, e)'
        BY <2>1, <2>2, <2>3, <2>4 DEF Kept, KnownSubject
    <2> QED BY <1>1, <2>1, <2>3, <2>5, StageKeepsUses
<1>5. CASE Analyse(t)
    <2> DEFINE detail == [started |-> call[t].started]
    <2>1. /\ call[t].writes = "technical" /\ Stage(t, "stamp", detail, <<>>)
          /\ hist["bridge"][call[t].subject].available <= call[t].started
        BY <1>1, <1>5 DEF Analyse, BridgeResolvable, KnownSince, At, Leg
    <2>2. UNCHANGED hist /\ call[t].subject \in DOMAIN hist["bridge"]
        BY <1>1, <2>1 DEF Stage, CallKept
    <2>3. PICK d, e, w : d = detail /\ e = Staged(call[t], detail, now) /\ w = call[t].writes
        OBVIOUS
    <2>4. e.subject = call[t].subject /\ e.detail.started = call[t].started
        BY <2>3 DEF Staged
    <2> HIDE DEF detail
    <2>5. Kept(w, e)'
        BY <2>1, <2>2, <2>3, <2>4 DEF Kept, KnownSubject
    <2> QED BY <1>1, <2>1, <2>3, <2>5, StageKeepsUses
<1>6. CASE \/ Construct(t) \/ RunRule(t) \/ Evaluate(t) \/ ResolvePrerequisites(t) \/ IssueActive(t)
    <2>1. call[t].writes \notin {"qualification", "bridge", "technical"}
        BY <1>1, <1>6 DEF Construct, RunRule, Evaluate, ResolvePrerequisites, IssueActive, At, Leg
    <2> QED BY <1>2, <2>1
<1> QED BY <1>3, <1>4, <1>5, <1>6

LEMMA AdvanceKeepsUses ==
    ASSUME KeptInv, TypeInv, TypeInv', NEW t \in Threads,
           \/ Acquire(t) \/ AcquisitionFails(t) \/ Lookup(t) \/ Survey(t) \/ StartTask(t)
           \/ Refuse(t)
    PROVE  KeptInv'
<1>1. /\ call \in [Threads -> Calls] /\ call[t] \in Calls /\ CallKept(call[t])
      /\ now \in Nat /\ latest \in Nat /\ call[t].asked \in Nat
      /\ Leg(call[t].op, call[t].at, call[t].writes)
    BY TypeInvIs, CallsAre DEF GoodCall, KeptInv
<1>2. Read => latest <= latest' /\ latest' \in Nat
    BY <1>1, ReadingsGrow
<1>8. ASSUME NEW c, call' = [call EXCEPT ![t] = c], UNCHANGED <<hist, latest>>,
             c.at \notin {"stamp", "append"}, c.writes = call[t].writes,
             c.subject = call[t].subject, c.asked = call[t].asked,
             c.knowledge = call[t].knowledge
      PROVE  KeptInv'
    <2>1. latest' \in Nat /\ latest <= latest' /\ UNCHANGED hist
        BY <1>1, <1>8
    <2>2. c.knowledge <= c.asked /\ c.asked <= latest'
        BY <1>1, <1>8 DEF CallKept
    <2>3. /\ c.writes = "bridge" => c.subject \in DOMAIN hist["qualification"]
          /\ c.writes = "technical" => c.subject \in DOMAIN hist["bridge"]
        BY <1>1, <1>8 DEF CallKept
    <2> QED BY <1>8, <2>1, <2>2, <2>3, UnstagedKeepsUses
<1>3. CASE AcquisitionFails(t) \/ Refuse(t)
    <2>1. latest <= latest' /\ latest' \in Nat
        BY <1>1, <1>2, <1>3 DEF AcquisitionFails, Refuse
    <2> QED BY <1>3, <2>1, IdleKeepsUses DEF AcquisitionFails, Refuse, Return
<1>4. CASE Acquire(t)
    <2> DEFINE c == [call[t] EXCEPT !.waiting = Tail(call[t].waiting)]
    <2>1. /\ call' = [call EXCEPT ![t] = c] /\ UNCHANGED <<hist, latest>>
          /\ call[t].waiting # <<>>
        BY <1>1, <1>4 DEF Acquire
    <2>2. /\ c.at = call[t].at /\ c.writes = call[t].writes /\ c.subject = call[t].subject
          /\ c.entry = call[t].entry /\ c.asked = call[t].asked
          /\ c.knowledge = call[t].knowledge
        BY <1>1, CallsAre
    <2>3. call[t].at # "append"
        BY <1>1, <2>1 DEF CallKept
    <2>4. PICK d : d = c
        OBVIOUS
    <2> HIDE DEF c
    <2>5. PICK w, e : w = d.writes /\ e = d.entry
        OBVIOUS
    <2>6. d.at \in {"stamp", "append"} => Kept(w, e)'
        <3>1. d.at \in {"stamp", "append"} => Kept(w, e) /\ e \in Entry(w) /\ w \in Histories
            BY <1>1, <2>2, <2>4, <2>5, TypeInvIs, CallsAre DEF CallKept, GoodCall, StagedOf
        <3>2. latest' \in Nat /\ latest <= latest'
            BY <1>1, <2>1
        <3> QED BY <2>1, <3>1, <3>2, KeptStays
    <2>7. CallKept(d)'
        BY <1>1, <2>1, <2>2, <2>3, <2>4, <2>5, <2>6 DEF CallKept
    <2>8. ~Appends(d) /\ (HoldsUse(d) => HoldsUse(call[t]) /\ d.entry = call[t].entry)
        BY <2>2, <2>3, <2>4 DEF Appends, HoldsUse
    <2>9. HoldsUse(d) => \A u \in Threads : u # t /\ Appends(call[u]) =>
                            d.entry.detail.cutoff < call[u].entry.available
        BY <2>8 DEF KeptInv, PastEveryUse
    <2>10. latest' \in Nat /\ latest <= latest' /\ call' = [call EXCEPT ![t] = d] /\ UNCHANGED hist
        BY <1>1, <2>1, <2>4
    <2> QED BY <2>7, <2>8, <2>9, <2>10, OneCallKept
<1>5. CASE Lookup(t)
    <2> DEFINE to == IF call[t].op = "validate" THEN "rule" ELSE "evaluate"
               c == [call[t] EXCEPT !.at = to]
    <2>1. call' = [call EXCEPT ![t] = c] /\ UNCHANGED <<hist, latest>>
        BY <1>1, <1>5 DEF Lookup
    <2>2. /\ c.at = to /\ c.writes = call[t].writes /\ c.subject = call[t].subject
          /\ c.asked = call[t].asked /\ c.knowledge = call[t].knowledge
        BY <1>1, CallsAre
    <2>3. to \notin {"stamp", "append"}
        OBVIOUS
    <2> HIDE DEF c, to
    <2> QED BY <1>8, <2>1, <2>2, <2>3
<1>6. CASE Survey(t)
    <2> DEFINE tasks == Tasks(Snapshot(call[t].subject, Cutoff(t, call[t].asked)), call[t].analysis)
               again == [call[t] EXCEPT !.at = "qualify", !.waiting = QualifyLocks,
                                        !.task = Latest(tasks)]
               execute == [call[t] EXCEPT !.at = "task"]
    <2>1. /\ UNCHANGED <<hist, latest>>
          /\ call' = [call EXCEPT ![t] = again] \/ call' = [call EXCEPT ![t] = execute]
        BY <1>1, <1>6 DEF Survey
    <2>2. /\ again.at = "qualify" /\ again.writes = call[t].writes
          /\ again.subject = call[t].subject
          /\ again.asked = call[t].asked /\ again.knowledge = call[t].knowledge
        BY <1>1, CallsAre
    <2>3. /\ execute.at = "task" /\ execute.writes = call[t].writes
          /\ execute.subject = call[t].subject
          /\ execute.asked = call[t].asked /\ execute.knowledge = call[t].knowledge
        BY <1>1, CallsAre
    <2> HIDE DEF again, execute
    <2>4. CASE call' = [call EXCEPT ![t] = again]
        BY <1>8, <2>1, <2>2, <2>4
    <2>5. CASE call' = [call EXCEPT ![t] = execute]
        BY <1>8, <2>1, <2>3, <2>5
    <2> QED BY <2>1, <2>4, <2>5
<1>7. CASE StartTask(t)
    <2> DEFINE c == [call[t] EXCEPT !.at = "lookup", !.waiting = <<"construction">>,
                                    !.writes = "freshness", !.started = now]
    <2>1. call' = [call EXCEPT ![t] = c] /\ UNCHANGED hist /\ Read
        BY <1>1, <1>7 DEF StartTask
    <2>2. /\ c.at = "lookup" /\ c.writes = "freshness"
          /\ c.asked = call[t].asked /\ c.knowledge = call[t].knowledge
        BY <1>1, CallsAre
    <2> HIDE DEF c
    <2>3. c.knowledge <= c.asked /\ c.asked <= latest'
        BY <1>1, <1>2, <2>1, <2>2 DEF CallKept
    <2> QED BY <1>2, <2>1, <2>2, <2>3, UnstagedKeepsUses
<1> QED BY <1>3, <1>4, <1>5, <1>6, <1>7

LEMMA PredecessorKeepsUses ==
    ASSUME KeptInv, TypeInv, TypeInv', NEW t \in Threads, ReadPredecessor(t)
    PROVE  KeptInv'
<1> DEFINE e == [call[t].entry EXCEPT !.detail.predecessor = Follows(t)]
           c == [call[t] EXCEPT !.at = "stamp", !.waiting = <<"admission">>, !.entry = e]
<1>1. /\ call \in [Threads -> Calls] /\ call[t] \in Calls /\ CallKept(call[t])
      /\ call[t].writes = "admission" /\ latest \in Nat
    BY TypeInvIs DEF KeptInv, GoodCall, ReadPredecessor, At, Leg
<1>2. call' = [call EXCEPT ![t] = c] /\ UNCHANGED <<hist, latest>>
    BY <1>1 DEF ReadPredecessor
<1> HIDE DEF e
<1>3. /\ c.at = "stamp" /\ c.writes = "admission"
      /\ c.asked = call[t].asked /\ c.knowledge = call[t].knowledge
    BY <1>1, CallsAre
<1>4. PICK d : d = c
    OBVIOUS
<1> HIDE DEF c
<1>5. CallKept(d)'
    BY <1>1, <1>2, <1>3, <1>4 DEF CallKept, Kept
<1>6. ~Appends(d) /\ ~HoldsUse(d)
    BY <1>3, <1>4 DEF Appends, HoldsUse
<1>7. call' = [call EXCEPT ![t] = d] /\ latest' \in Nat /\ latest <= latest'
    BY <1>1, <1>2, <1>4
<1> QED BY <1>2, <1>5, <1>6, <1>7, OneCallKept

\* A distinct availability is later than every cutoff asked for so far.
LEMMA StampKeepsUses ==
    ASSUME KeptInv, TypeInv, TypeInv', scenario.clock = "distinct", NEW t \in Threads, Stamp(t)
    PROVE  KeptInv'
<1>1. PICK a : a = Availability
    OBVIOUS
<1> DEFINE e == [call[t].entry EXCEPT !.available = a]
           c == [call[t] EXCEPT !.at = "append", !.entry = e]
<1>2. /\ call \in [Threads -> Calls] /\ call[t] \in Calls /\ CallKept(call[t])
      /\ call[t].writes \in Histories /\ call[t].at = "stamp" /\ call[t].waiting = <<>>
      /\ call[t].entry \in Entry(call[t].writes)
      /\ now \in Nat /\ latest \in Nat /\ call[t].asked \in Nat
    BY TypeInvIs, CallsAre DEF KeptInv, GoodCall, StagedOf, Stamp, At
<1>3. call' = [call EXCEPT ![t] = c] /\ UNCHANGED hist
    BY <1>1, <1>2 DEF Stamp
<1>4. latest' \in Nat /\ latest <= latest' /\ latest < a /\ a \in Nat
    BY <1>1, <1>2, ReadingsGrow DEF Stamp
<1>5. /\ e.subject = call[t].entry.subject /\ e.completed = call[t].entry.completed
      /\ e.detail = call[t].entry.detail /\ e.available = a
    BY <1>2 DEF Entry
<1> HIDE DEF e
<1>6. /\ c.at = "append" /\ c.entry = e /\ c.writes = call[t].writes
      /\ c.subject = call[t].subject /\ c.waiting = <<>>
      /\ c.asked = call[t].asked /\ c.knowledge = call[t].knowledge
    BY <1>2, CallsAre
<1>7. PICK d, w, f, g : d = c /\ w = call[t].writes /\ f = call[t].entry /\ g = e
    OBVIOUS
<1> HIDE DEF c
<1>8. Kept(w, f)'
    BY <1>2, <1>3, <1>4, <1>7, KeptStays DEF CallKept
<1>9. Kept(w, g)'
    BY <1>5, <1>7, <1>8 DEF Kept, UseKept
<1>10. CallKept(d)'
    BY <1>2, <1>3, <1>4, <1>6, <1>7, <1>9 DEF CallKept
<1>11. ASSUME Appends(d) PROVE PastEveryUse(d.entry.available)'
    <2>1. ASSUME NEW q \in DOMAIN hist["qualification"]
          PROVE  hist["qualification"][q].detail.cutoff < a
        <3>1. hist["qualification"][q] \in Entry("qualification")
            BY <2>1, IndicesAreNumbers DEF Histories
        <3>2. hist["qualification"][q].detail.cutoff <= latest
            BY <2>1 DEF KeptInv, Kept, UseKept, Histories
        <3>3. hist["qualification"][q].detail.cutoff \in Nat
            BY <3>1, CutoffIsANumber
        <3> QED BY <1>2, <1>4, <3>2, <3>3
    <2>2. ASSUME NEW v \in Threads, HoldsUse(call'[v])
          PROVE  call'[v].entry.detail.cutoff < a
        <3>1. v # t
            BY <1>2, <1>3, <1>6, <1>7, <1>11, <2>2 DEF Appends, HoldsUse, Inputs
        <3>2. call'[v] = call[v]
            BY <1>2, <1>3, <3>1
        <3>3. /\ call[v].at \in {"stamp", "append"} /\ call[v].writes = "qualification"
              /\ CallKept(call[v]) /\ GoodCall(call[v])
            BY <2>2, <3>2, TypeInvIs DEF HoldsUse, KeptInv
        <3>4. call[v].entry \in Entry("qualification")
            BY <3>3 DEF GoodCall, StagedOf
        <3>5. call[v].entry.detail.cutoff <= latest
            BY <3>3 DEF CallKept, Kept, UseKept
        <3>6. call[v].entry.detail.cutoff \in Nat
            BY <3>4, CutoffIsANumber
        <3> QED BY <1>2, <1>4, <3>2, <3>5, <3>6
    <2>3. d.entry.available = a
        BY <1>5, <1>6, <1>7
    <2> QED BY <1>3, <2>1, <2>2, <2>3 DEF PastEveryUse, HoldsUse
<1>12. HoldsUse(d) => \A u \in Threads : u # t /\ Appends(call[u]) =>
                         d.entry.detail.cutoff < call[u].entry.available
    <2>1. HoldsUse(d) => HoldsUse(call[t])
        BY <1>2, <1>6, <1>7 DEF HoldsUse
    <2>2. d.entry.detail = call[t].entry.detail
        BY <1>5, <1>6, <1>7
    <2> QED BY <2>1, <2>2 DEF KeptInv, PastEveryUse
<1>13. call' = [call EXCEPT ![t] = d]
    BY <1>3, <1>7
<1> QED BY <1>3, <1>4, <1>10, <1>11, <1>12, <1>13, OneCallKept

\* A snapshot does not show what became known after its cutoff.
LEMMA PublishKeepsSnapshot ==
    ASSUME TypeInv, NEW t \in Threads, Publish(t), NEW x, NEW cutoff \in Nat,
           call[t].writes \in Inputs => cutoff < call[t].entry.available
    PROVE  Snapshot(x, cutoff)' = Snapshot(x, cutoff)
<1>1. call[t].entry.available \in Nat
    BY TypeInvIs, CallsAre, EntryFields DEF GoodCall, StagedOf, Publish, At
<1>2. ASSUME NEW h \in Inputs PROVE Visible(h, x, cutoff)' = Visible(h, x, cutoff)
    <2>1. h \in Histories
        BY DEF Inputs, Histories
    <2>2. \A i \in DOMAIN hist[h] : i \in DOMAIN hist'[h] /\ hist'[h][i] = hist[h][i]
        BY <2>1, PublishAppends DEF Grows
    <2>3. ASSUME NEW i \in DOMAIN hist'[h], hist'[h][i].available <= cutoff
          PROVE  i \in DOMAIN hist[h]
        <3>1. h = call[t].writes /\ hist'[h][i] = call[t].entry => FALSE
            BY <1>1, <2>3
        <3> QED BY <2>1, <2>3, <3>1, PublishAppends
    <2> QED BY <2>2, <2>3 DEF Visible, About
<1> QED BY <1>2 DEF Snapshot

LEMMA PublishKeepsKept ==
    ASSUME TypeInv, NEW t \in Threads, Publish(t), NEW h \in Histories, NEW e \in Entry(h),
           Kept(h, e),
           h = "qualification" /\ call[t].writes \in Inputs =>
               e.detail.cutoff < call[t].entry.available
    PROVE  Kept(h, e)'
<1>1. latest' = latest /\ Grows
    BY PublishAppends DEF Publish
<1>2. CASE h = "qualification"
    <2>1. e.detail.cutoff \in Nat
        BY <1>2, CutoffIsANumber
    <2>2. Snapshot(e.subject, e.detail.cutoff)' = Snapshot(e.subject, e.detail.cutoff)
        BY <1>2, <2>1, PublishKeepsSnapshot
    <2>3. UseKept(e)'
        BY <1>1, <1>2, <2>2 DEF Kept, UseKept
    <2> QED BY <1>2, <2>3 DEF Kept
<1>3. CASE h # "qualification"
    <2>1. "qualification" \in Histories /\ "bridge" \in Histories
        BY DEF Histories
    <2> QED BY <1>1, <1>3, <2>1 DEF Kept, KnownSubject, Grows
<1> QED BY <1>2, <1>3

LEMMA PublishKeepsUses ==
    ASSUME KeptInv, TypeInv, TypeInv', NEW t \in Threads, Publish(t)
    PROVE  KeptInv'
<1> DEFINE next == [call[t] EXCEPT !.at = "rule", !.rule = @ + 1]
           second == [call[t] EXCEPT !.at = "qualify", !.writes = "qualification",
                                     !.waiting = QualifyLocks,
                                     !.task = Len(hist["freshness"]) + 1]
<1>1. /\ call \in [Threads -> Calls] /\ call[t] \in Calls /\ CallKept(call[t])
      /\ call[t].at = "append" /\ call[t].writes \in Histories
      /\ call[t].entry \in Entry(call[t].writes)
      /\ latest \in Nat /\ latest' = latest
      /\ Leg(call[t].op, call[t].at, call[t].writes)
    BY TypeInvIs, CallsAre DEF KeptInv, GoodCall, StagedOf, Publish, At
<1>2. PICK w, f : w = call[t].writes /\ f = call[t].entry
    OBVIOUS
<1>3. Kept(w, f)'
    <2>1. Kept(w, f)
        BY <1>1, <1>2 DEF CallKept
    <2>2. ~ (w = "qualification" /\ call[t].writes \in Inputs)
        BY <1>2 DEF Inputs
    <2> QED BY <1>1, <1>2, <2>1, <2>2, PublishKeepsKept
<1>4. call[t].writes \in Inputs => PastEveryUse(call[t].entry.available)
    BY <1>1 DEF KeptInv, Appends
<1>5. \A h \in Histories : \A i \in DOMAIN hist'[h] : Kept(h, hist[h][i])'
    <2> SUFFICES ASSUME NEW h \in Histories, NEW i \in DOMAIN hist'[h] PROVE Kept(h, hist[h][i])'
        OBVIOUS
    <2>1. PICK e : e = hist'[h][i]
        OBVIOUS
    <2>2. CASE i \in DOMAIN hist[h] /\ hist'[h][i] = hist[h][i]
        <3>1. e = hist[h][i] /\ e \in Entry(h) /\ Kept(h, e)
            BY <2>1, <2>2, IndicesAreNumbers DEF KeptInv
        <3>2. h = "qualification" /\ call[t].writes \in Inputs =>
                  e.detail.cutoff < call[t].entry.available
            BY <1>4, <2>2, <3>1 DEF PastEveryUse
        <3>3. Kept(h, e)'
            BY <3>1, <3>2, PublishKeepsKept
        <3> QED BY <2>1, <3>3 DEF Kept
    <2>3. CASE h = call[t].writes /\ hist'[h][i] = call[t].entry
        <3>1. h = w /\ e = f
            BY <1>2, <2>1, <2>3
        <3> QED BY <1>3, <2>1, <3>1 DEF Kept
    <2> QED BY <2>2, <2>3, PublishAppends
<1>6. PICK c : /\ call' = [call EXCEPT ![t] = c]
               /\ c.at \in {"rule", "qualify", "idle"}
               /\ c.writes \notin {"bridge", "technical"}
               /\ c.knowledge <= c.asked /\ c.asked <= latest
    <2>1. CASE ProfileContinues(t) /\ call' = [call EXCEPT ![t] = next]
        <3>1. /\ next.at = "rule" /\ next.writes = call[t].writes
              /\ next.asked = call[t].asked /\ next.knowledge = call[t].knowledge
            BY <1>1, CallsAre
        <3>2. call[t].writes = "validation"
            BY <1>1, <2>1 DEF ProfileContinues, Leg
        <3> HIDE DEF next
        <3> QED BY <1>1, <2>1, <3>1, <3>2 DEF CallKept
    <2>2. CASE call' = [call EXCEPT ![t] = second]
        <3>1. /\ second.at = "qualify" /\ second.writes = "qualification"
              /\ second.asked = call[t].asked /\ second.knowledge = call[t].knowledge
            BY <1>1, CallsAre
        <3> HIDE DEF second
        <3> QED BY <1>1, <2>2, <3>1 DEF CallKept
    <2>3. CASE call' = [call EXCEPT ![t] = Idle]
        <3>1. /\ Idle.at = "idle" /\ Idle.writes = "construction"
              /\ Idle.knowledge = 0 /\ Idle.asked = 0
            BY DEF Idle
        <3>2. 0 <= latest /\ 0 <= 0
            BY <1>1
        <3> QED BY <2>3, <3>1, <3>2
    <2> QED BY <1>1, <2>1, <2>2, <2>3 DEF Publish
<1>7. call'[t] = c /\ \A u \in Threads : u # t => call'[u] = call[u]
    BY <1>1, <1>6
<1>8. ASSUME NEW u \in Threads PROVE CallKept(call[u])'
    <2>1. CASE u = t
        BY <1>1, <1>6, <1>7, <2>1 DEF CallKept
    <2>2. CASE u # t
        <3>1. PICK d : d = call[u] /\ d = call'[u] /\ CallKept(d) /\ GoodCall(d)
            BY <1>7, <2>2, TypeInvIs DEF KeptInv
        <3>2. PICK g, e : g = d.writes /\ e = d.entry
            OBVIOUS
        <3>3. d.at \in {"stamp", "append"} => Kept(g, e)'
            <4> SUFFICES ASSUME d.at \in {"stamp", "append"} PROVE Kept(g, e)'
                OBVIOUS
            <4>1. g \in Histories /\ e \in Entry(g) /\ Kept(g, e)
                BY <3>1, <3>2, CallsAre DEF GoodCall, StagedOf, CallKept
            <4>2. g = "qualification" /\ call[t].writes \in Inputs =>
                      e.detail.cutoff < call[t].entry.available
                BY <1>4, <3>1, <3>2 DEF PastEveryUse, HoldsUse
            <4> QED BY <4>1, <4>2, PublishKeepsKept
        <3>4. /\ DOMAIN hist["qualification"] \subseteq DOMAIN hist'["qualification"]
              /\ DOMAIN hist["bridge"] \subseteq DOMAIN hist'["bridge"]
            BY PublishAppends DEF Grows, Histories
        <3>5. CallKept(d)'
            BY <1>1, <3>1, <3>2, <3>3, <3>4 DEF CallKept
        <3> QED BY <3>1, <3>5 DEF CallKept
    <2> QED BY <2>1, <2>2
<1>9. ASSUME NEW u \in Threads, Appends(call[u])' PROVE PastEveryUse(call[u].entry.available)'
    <2>1. u # t /\ call'[u] = call[u] /\ Appends(call[u])
        BY <1>6, <1>7, <1>9 DEF Appends
    <2>2. PICK a : a = call[u].entry.available /\ PastEveryUse(a)
        BY <2>1 DEF KeptInv
    <2>3. ASSUME NEW q \in DOMAIN hist'["qualification"]
          PROVE  hist'["qualification"][q].detail.cutoff < a
        <3>1. CASE /\ q \in DOMAIN hist["qualification"]
                   /\ hist'["qualification"][q] = hist["qualification"][q]
            BY <2>2, <3>1 DEF PastEveryUse
        <3>2. CASE call[t].writes = "qualification" /\ hist'["qualification"][q] = call[t].entry
            BY <1>1, <2>2, <3>2 DEF PastEveryUse, HoldsUse
        <3>3. "qualification" \in Histories
            BY DEF Histories
        <3> QED BY <2>3, <3>1, <3>2, <3>3, PublishAppends
    <2>4. ASSUME NEW v \in Threads, HoldsUse(call'[v])
          PROVE  call'[v].entry.detail.cutoff < a
        <3>1. v # t
            BY <1>6, <1>7, <2>4 DEF HoldsUse
        <3>2. call'[v] = call[v]
            BY <1>7, <3>1
        <3> QED BY <2>2, <2>4, <3>2 DEF PastEveryUse
    <2> QED BY <2>1, <2>2, <2>3, <2>4 DEF PastEveryUse, HoldsUse
<1> QED BY <1>5, <1>8, <1>9 DEF KeptInv

LEMMA ScenarioStays == [Next]_vars => scenario' = scenario
<1>1. \A t, op, request : Begin(t, op, request) => scenario' = scenario
    BY DEF Begin, clock
<1>2. \A t, point, detail, locks : Stage(t, point, detail, locks) => scenario' = scenario
    BY DEF Stage, clock
<1>3. ASSUME NEW t, Start(t) PROVE scenario' = scenario
    BY <1>1, <1>3 DEF Start, BeginConstruct, BeginValidate, BeginFreshness, BeginAdmit,
       BeginActivate, BeginQualify, BeginBridge, BeginAnalyse
<1>4. ASSUME NEW t, Step(t) PROVE scenario' = scenario
    <2>1. CASE Construct(t) \/ RunRule(t) \/ Evaluate(t) \/ Bridge(t) \/ Analyse(t)
        BY <1>2, <2>1 DEF Construct, RunRule, Evaluate, Bridge, Analyse
    <2>2. CASE ResolvePrerequisites(t)
        BY <1>2, <2>2 DEF ResolvePrerequisites
    <2>3. CASE IssueActive(t)
        BY <1>2, <2>3 DEF IssueActive
    <2>4. CASE Qualify(t)
        BY <1>2, <2>4 DEF Qualify
    <2>5. CASE \/ Acquire(t) \/ AcquisitionFails(t) \/ Lookup(t) \/ ReadPredecessor(t)
               \/ StartTask(t) \/ Publish(t) \/ Refuse(t)
        BY <2>5 DEF Acquire, AcquisitionFails, Lookup, ReadPredecessor, StartTask, Publish,
           Refuse, clock
    <2>6. CASE Survey(t)
        BY <2>6 DEF Survey, clock
    <2>7. CASE Stamp(t)
        BY <2>7 DEF Stamp, ReadAvailability
    <2> QED BY <1>4, <2>1, <2>2, <2>3, <2>4, <2>5, <2>6, <2>7 DEF Step
<1> QED BY <1>3, <1>4 DEF Next, Move, AllIdle, vars

\* The invariant needs distinct readings only where availability is read.
DistinctKept == scenario.clock = "distinct" => KeptInv

LEMMA UsesInit == Init => DistinctKept
<1> SUFFICES ASSUME Init PROVE KeptInv
    BY DEF DistinctKept
<1>1. \A h \in Histories : DOMAIN hist[h] = {}
    BY DEF Init
<1>2. \A t \in Threads : call[t] = Idle
    BY DEF Init
<1>3. latest = 0 /\ Idle.at = "idle" /\ Idle.writes = "construction"
      /\ Idle.knowledge = 0 /\ Idle.asked = 0
    BY DEF Init, Idle
<1>4. CallKept(Idle) /\ ~Appends(Idle)
    BY <1>3 DEF CallKept, Appends
<1> QED BY <1>1, <1>2, <1>4 DEF KeptInv

\* A reading of the clock that stages nothing.
LEMMA ReadingKeepsUses ==
    ASSUME KeptInv, TypeInv, UNCHANGED <<call, hist>>, latest' \in Nat, latest <= latest'
    PROVE  KeptInv'
<1>1. latest \in Nat /\ \A t \in Threads : call[t] \in Calls /\ GoodCall(call[t])
    BY TypeInvIs DEF GoodCall
<1>2. ASSUME NEW h \in Histories, NEW i \in DOMAIN hist[h]
      PROVE  Kept(h, hist[h][i])'
    <2>1. PICK e \in Entry(h) : e = hist[h][i]
        BY IndicesAreNumbers
    <2>2. Kept(h, e)'
        BY <2>1, KeptStays DEF KeptInv
    <2> QED BY <2>1, <2>2 DEF Kept
<1>3. ASSUME NEW t \in Threads PROVE CallKept(call[t])'
    <2>1. PICK c \in Calls : c = call[t] /\ CallKept(c) /\ StagedOf(c)
        BY <1>1 DEF KeptInv, GoodCall
    <2>2. c.asked \in Nat /\ c.writes \in Histories
        BY CallsAre
    <2>3. c.at \in {"stamp", "append"} => Kept(c.writes, c.entry)'
        BY <2>1, <2>2, KeptStays DEF CallKept, StagedOf
    <2>4. CallKept(c)'
        BY <1>1, <2>1, <2>2, <2>3 DEF CallKept
    <2> QED BY <2>1, <2>4 DEF CallKept
<1>4. ASSUME NEW t \in Threads, Appends(call[t])'
      PROVE  PastEveryUse(call[t].entry.available)'
    <2>1. Appends(call[t])
        BY <1>4 DEF Appends
    <2> QED BY <2>1 DEF KeptInv, PastEveryUse, HoldsUse
<1> QED BY <1>2, <1>3, <1>4 DEF KeptInv

LEMMA UsesStep == TypeInv' /\ LockInv /\ DistinctKept /\ [Next]_vars => DistinctKept'
<1> SUFFICES ASSUME DistinctKept, LockInv, TypeInv', [Next]_vars, scenario'.clock = "distinct"
             PROVE  KeptInv'
    BY DEF DistinctKept
<1>1. scenario' = scenario
    BY ScenarioStays
<1>2. KeptInv /\ TypeInv /\ scenario.clock = "distinct"
    BY <1>1 DEF LockInv, DistinctKept
<1>3. ASSUME UNCHANGED <<call, hist, latest>> PROVE KeptInv'
    BY <1>2, <1>3, ReadingKeepsUses, TypeInvIs
<1>4. CASE UNCHANGED vars
    BY <1>3, <1>4 DEF vars
<1>5. CASE Move
    BY <1>3, <1>5 DEF Move
<1>6. ASSUME NEW t \in Threads, Start(t) PROVE KeptInv'
    BY <1>2, <1>6, StartKeepsUses
<1>7. ASSUME NEW t \in Threads, Step(t) PROVE KeptInv'
    BY <1>2, <1>7, DecisionKeepsUses, AdvanceKeepsUses, PredecessorKeepsUses,
       StampKeepsUses, PublishKeepsUses DEF Step
<1> QED BY <1>4, <1>5, <1>6, <1>7 DEF Next, AllIdle

LEMMA UsesInductive == Spec => []DistinctKept
BY UsesInit, UsesStep, TypesInductive, LocksInductive, PTL DEF Spec

LEMMA KeptUsesStay == GroundInv /\ DistinctKept => DistinctReadingsKeepUses
<1> SUFFICES ASSUME GroundInv, KeptInv PROVE UsesStayResolvable
    BY DEF DistinctReadingsKeepUses, DistinctKept
<1>1. {"qualification", "bridge", "technical"} \subseteq Histories
    BY DEF Histories
<1>2. ASSUME NEW q \in DOMAIN hist["qualification"], NEW instant,
             hist["qualification"][q].available <= instant
      PROVE  Resolvable(q, instant)
    <2> DEFINE use == hist["qualification"][q]
    <2>1. UseKept(use) /\ use \in Entry("qualification")
        BY <1>1, IndicesAreNumbers DEF KeptInv, Kept, GroundInv
    <2>2. use.detail.cutoff \in Nat
        BY <2>1, CutoffIsANumber
    <2>3. Closed(Snapshot(use.subject, use.detail.cutoff))
        BY <2>2, SnapshotsClose
    <2> QED BY <1>2, <2>1, <2>3 DEF Resolvable, UseKept
<1>3. ASSUME NEW q \in DOMAIN hist["qualification"]
      PROVE  Resolvable(q, hist["qualification"][q].available)
    <2>1. hist["qualification"][q].available \in Nat
        BY <1>1, IndicesAreNumbers, EntryFields DEF GroundInv
    <2> QED BY <1>2, <2>1
<1>4. ASSUME NEW i \in DOMAIN hist["technical"]
      PROVE  BridgeResolvable(hist["technical"][i].subject, hist["technical"][i].detail.started)
    <2> DEFINE b == hist["technical"][i].subject
    <2>1. b \in DOMAIN hist["bridge"] /\
          hist["bridge"][b].available <= hist["technical"][i].detail.started
        BY <1>1 DEF KeptInv, Kept, KnownSubject
    <2>2. KnownSubject("qualification", hist["bridge"][b].subject, hist["bridge"][b].detail.started)
        BY <1>1, <2>1 DEF KeptInv, Kept
    <2> QED BY <1>2, <2>1, <2>2 DEF BridgeResolvable, KnownSince, KnownSubject
<1> QED BY <1>3, <1>4 DEF UsesStayResolvable

\* Where no two availability readings are equal and the clock never goes back, a
\* retained qualification reads, at its own cutoff, exactly the histories it was
\* qualified on, whatever any thread publishes afterwards: every bridge and
\* every analysis of it stays resolvable (the bridge's and the technical
\* service's _resolve).
THEOREM UsesAreKept == Spec => []DistinctReadingsKeepUses
BY KeptUsesStay, GroundInductive, UsesInductive, PTL

-----------------------------------------------------------------------------
(* What stands behind a use *)

InHand == {"predecessor", "stamp", "append"}

\* What an occurrence says, apart from when it became available and from what it
\* follows: settled when it is staged.
SaysTheSame(h, e, f) ==
    /\ e.subject = f.subject /\ e.completed = f.completed
    /\ h = "admission" => e.detail.selected = f.detail.selected
    /\ h # "admission" => e.detail = f.detail

\* A step changes one call.
LEMMA StepIsOneCall ==
    ASSUME NEW t \in Threads, Start(t) \/ Step(t)
    PROVE  \E c : call' = [call EXCEPT ![t] = c]
<1>1. \A op, request : Begin(t, op, request) => \E c : call' = [call EXCEPT ![t] = c]
    BY DEF Begin
<1>2. \A point, detail, locks : Stage(t, point, detail, locks) => \E c : call' = [call EXCEPT ![t] = c]
    BY DEF Stage
<1>3. CASE Start(t)
    BY <1>1, <1>3 DEF Start, BeginConstruct, BeginValidate, BeginFreshness, BeginAdmit,
       BeginActivate, BeginQualify, BeginBridge, BeginAnalyse
<1>4. CASE \/ Construct(t) \/ RunRule(t) \/ Evaluate(t) \/ ResolvePrerequisites(t)
           \/ IssueActive(t) \/ Qualify(t) \/ Bridge(t) \/ Analyse(t)
    BY <1>2, <1>4 DEF Construct, RunRule, Evaluate, ResolvePrerequisites, IssueActive, Qualify,
       Bridge, Analyse
<1>5. CASE Acquire(t) \/ Lookup(t) \/ StartTask(t) \/ ReadPredecessor(t) \/ Stamp(t)
    BY <1>5 DEF Acquire, Lookup, StartTask, ReadPredecessor, Stamp
<1>6. CASE AcquisitionFails(t) \/ Refuse(t)
    BY <1>6 DEF AcquisitionFails, Refuse, Return
<1>7. CASE Survey(t)
    BY <1>7 DEF Survey
<1>8. CASE Publish(t)
    BY <1>8 DEF Publish
<1> QED BY <1>3, <1>4, <1>5, <1>6, <1>7, <1>8 DEF Step

LEMMA CallsOpenEmptyHanded ==
    ASSUME TypeInv, NEW t \in Threads, Start(t)
    PROVE  call'[t].at \notin InHand
<1>1. call \in [Threads -> Calls]
    BY TypeInvIs
<1>2. \A op, writes, x, at, locks, started : Request(op, writes, x, at, locks, started).at = at
    BY DEF Request, Idle
<1>3. \A op, request : Begin(t, op, request) => call'[t] = request
    BY <1>1 DEF Begin
<1>4. CASE BeginQualify(t)
    <2> DEFINE r(c) == Request("qualify", "qualification", c, "survey", InputLocks, now)
               q(c, k, a) == [r(c) EXCEPT !.knowledge = k, !.analysis = a]
    <2>1. PICK c \in DOMAIN hist["construction"], k \in {0} \cup Recent, a \in Recent :
                Begin(t, "qualify", q(c, k, a))
        BY <1>4 DEF BeginQualify
    <2>2. r(c).at = "survey" /\ r(c) \in Calls
        <3>1. c \in Nat /\ InputLocks \in Seq(Histories) /\ now \in Nat
            BY TypeInvIs, IndicesAreNumbers, LockTuples DEF Histories
        <3> QED BY <3>1, IdleIsACall, CallsAre DEF Request, Ops, Points, Histories
    <2> HIDE DEF r
    <2>3. q(c, k, a).at = "survey"
        BY <2>2, CallsAre
    <2> HIDE DEF q
    <2> QED BY <1>3, <2>1, <2>3 DEF InHand
<1>5. CASE Start(t) /\ ~BeginQualify(t)
    BY <1>2, <1>3, <1>5 DEF Start, BeginConstruct, BeginValidate, BeginFreshness, BeginAdmit,
       BeginActivate, BeginBridge, BeginAnalyse, InHand
<1> QED BY <1>4, <1>5

\* The steps that stage an occurrence.
Stages(t) ==
    \/ Construct(t) \/ RunRule(t) \/ Evaluate(t) \/ ResolvePrerequisites(t)
    \/ IssueActive(t) \/ Qualify(t) \/ Bridge(t) \/ Analyse(t)

\* An occurrence in hand was in hand before with what it says, or has just been staged.
LEMMA HandFrom ==
    ASSUME TypeInv, NEW t \in Threads, Start(t) \/ Step(t), NEW u \in Threads,
           call'[u].at \in InHand
    PROVE  \/ /\ call[u].at \in InHand /\ call[u].writes = call'[u].writes
              /\ SaysTheSame(call[u].writes, call'[u].entry, call[u].entry)
           \/ u = t /\ Stages(t) /\ call'[u].writes = call[u].writes
<1>1. /\ call \in [Threads -> Calls] /\ call[t] \in Calls /\ GoodCall(call[t])
      /\ Leg(call[t].op, call[t].at, call[t].writes)
    BY TypeInvIs DEF GoodCall
<1>2. CASE u # t
    <2>1. call'[u] = call[u]
        BY <1>1, <1>2, StepIsOneCall
    <2> QED BY <1>2, <2>1 DEF SaysTheSame
<1>3. CASE u = t /\ Start(t)
    BY <1>3, CallsOpenEmptyHanded
<1>4. CASE u = t /\ Stages(t)
    <2>1. ASSUME NEW point, NEW detail, NEW locks, Stage(t, point, detail, locks)
          PROVE  call'[t].writes = call[t].writes
        <3> DEFINE e == [subject |-> call[t].subject, completed |-> now, available |-> 0, detail |-> detail]
                   c == [call[t] EXCEPT !.at = point, !.waiting = locks, !.entry = e]
        <3>1. call'[t] = c
            BY <1>1, <2>1 DEF Stage
        <3> HIDE DEF e
        <3>2. c.writes = call[t].writes
            BY <1>1, CallsAre
        <3> HIDE DEF c
        <3> QED BY <3>1, <3>2
    <2>2. call'[t].writes = call[t].writes
        BY <1>4, <2>1 DEF Stages, Construct, RunRule, Evaluate, ResolvePrerequisites, IssueActive,
           Qualify, Bridge, Analyse
    <2> QED BY <1>4, <2>2
<1>5. CASE u = t /\ Acquire(t)
    <2> DEFINE c == [call[t] EXCEPT !.waiting = Tail(call[t].waiting)]
    <2>1. call'[t] = c
        BY <1>1, <1>5 DEF Acquire
    <2>2. c.at = call[t].at /\ c.writes = call[t].writes /\ c.entry = call[t].entry
        BY <1>1, CallsAre
    <2> HIDE DEF c
    <2> QED BY <1>5, <2>1, <2>2 DEF SaysTheSame
<1>6. CASE u = t /\ (AcquisitionFails(t) \/ Refuse(t) \/ Lookup(t) \/ Survey(t) \/ StartTask(t) \/ Publish(t))
    <2>1. \E p : p \notin InHand /\ call'[t].at = p
        <3>1. ASSUME NEW c \in Calls, NEW p, NEW a, NEW b, NEW d
              PROVE  /\ [c EXCEPT !.at = p].at = p
                     /\ [c EXCEPT !.at = p, !.waiting = a, !.writes = b, !.started = d].at = p
            BY CallsAre
        <3>2. Idle.at = "idle"
            BY DEF Idle
        <3>3. CASE AcquisitionFails(t) \/ Refuse(t)
            <4>1. call'[t] = Idle
                BY <1>1, <3>3 DEF AcquisitionFails, Refuse, Return
            <4> QED BY <3>2, <4>1 DEF InHand
        <3>4. CASE Lookup(t)
            <4>1. \E p \in {"rule", "evaluate"} : call'[t] = [call[t] EXCEPT !.at = p]
                BY <1>1, <3>4 DEF Lookup
            <4> QED BY <1>1, <3>1, <4>1 DEF InHand
        <3>5. CASE Survey(t)
            <4> DEFINE tasks == Tasks(Snapshot(call[t].subject, Cutoff(t, call[t].asked)),
                                      call[t].analysis)
                       again == [call[t] EXCEPT !.at = "qualify", !.waiting = QualifyLocks,
                                                !.task = Latest(tasks)]
                       execute == [call[t] EXCEPT !.at = "task"]
            <4>1. call'[t] = again \/ call'[t] = execute
                BY <1>1, <3>5 DEF Survey
            <4>2. again.at = "qualify" /\ execute.at = "task"
                BY <1>1, CallsAre
            <4> HIDE DEF again, execute
            <4> QED BY <4>1, <4>2 DEF InHand
        <3>6. CASE StartTask(t)
            <4>1. \E a, b, d : call'[t] = [call[t] EXCEPT !.at = "lookup", !.waiting = a,
                                                         !.writes = b, !.started = d]
                BY <1>1, <3>6 DEF StartTask
            <4> QED BY <1>1, <3>1, <4>1 DEF InHand
        <3>7. CASE Publish(t)
            <4> DEFINE next == [call[t] EXCEPT !.at = "rule", !.rule = @ + 1]
                       second == [call[t] EXCEPT !.at = "qualify", !.writes = "qualification",
                                                 !.waiting = QualifyLocks,
                                                 !.task = Len(hist["freshness"]) + 1]
            <4>1. call'[t] = next \/ call'[t] = second \/ call'[t] = Idle
                BY <1>1, <3>7 DEF Publish
            <4>2. next.at = "rule" /\ second.at = "qualify"
                BY <1>1, CallsAre
            <4> HIDE DEF next, second
            <4> QED BY <3>2, <4>1, <4>2 DEF InHand
        <3> QED BY <1>6, <3>3, <3>4, <3>5, <3>6, <3>7
    <2> QED BY <1>6, <2>1
<1>7. CASE u = t /\ ReadPredecessor(t)
    <2> DEFINE f == Follows(t)
               d == [call[t].entry.detail EXCEPT !.predecessor = f]
               e == [call[t].entry EXCEPT !.detail = d]
               c == [call[t] EXCEPT !.at = "stamp", !.waiting = <<"admission">>, !.entry = e]
    <2>1. /\ call[t].at = "predecessor" /\ call[t].writes = "admission"
          /\ call[t].entry \in Entry("admission")
        BY <1>1, <1>7 DEF GoodCall, StagedOf, ReadPredecessor, At, Leg
    <2>2. call'[t] = c
        BY <1>1, <1>7, <2>1, ReadingThePredecessor
    <2> HIDE DEF f
    <2>3. d.selected = call[t].entry.detail.selected
        <3>1. call[t].entry.detail \in Detail("admission")
            BY <2>1 DEF Entry
        <3>2. Detail("admission") = [predecessor: Nat, selected: [1..Rules -> Nat],
                                     freshness: Nat, basis: [Basis -> SUBSET Nat]]
            BY DetailIs
        <3>3. ASSUME NEW A, NEW B, NEW x \in [predecessor: Nat, selected: A, freshness: Nat, basis: B]
              PROVE  [x EXCEPT !.predecessor = f].selected = x.selected
            OBVIOUS
        <3> QED BY <3>1, <3>2, <3>3
    <2> HIDE DEF d
    <2>4. e.subject = call[t].entry.subject /\ e.completed = call[t].entry.completed /\ e.detail = d
        BY <2>1 DEF Entry
    <2> HIDE DEF e
    <2>5. c.at = "stamp" /\ c.entry = e /\ c.writes = "admission"
        BY <1>1, <2>1, CallsAre
    <2> HIDE DEF c
    <2> QED BY <1>7, <2>1, <2>2, <2>3, <2>4, <2>5 DEF SaysTheSame, InHand
<1>8. CASE u = t /\ Stamp(t)
    <2> DEFINE a == Availability
               e == [call[t].entry EXCEPT !.available = a]
               c == [call[t] EXCEPT !.at = "append", !.entry = e]
    <2>1. /\ call[t].at = "stamp" /\ call[t].writes \in Histories
          /\ call[t].entry \in Entry(call[t].writes)
        BY <1>1, <1>8, CallsAre DEF GoodCall, StagedOf, Stamp, At
    <2>2. call'[t] = c
        BY <1>1, <1>8 DEF Stamp
    <2> HIDE DEF a
    <2>3. /\ e.subject = call[t].entry.subject /\ e.completed = call[t].entry.completed
          /\ e.detail = call[t].entry.detail
        BY <2>1 DEF Entry
    <2> HIDE DEF e
    <2>4. c.at = "append" /\ c.entry = e /\ c.writes = call[t].writes
        BY <1>1, CallsAre
    <2> HIDE DEF c
    <2> QED BY <1>8, <2>1, <2>2, <2>3, <2>4 DEF SaysTheSame, InHand
<1> QED BY <1>2, <1>3, <1>4, <1>5, <1>6, <1>7, <1>8 DEF Step, Stages

\* ... for an admission or a use, decided.
LEMMA InHandFrom ==
    ASSUME TypeInv, NEW t \in Threads, Start(t) \/ Step(t), NEW u \in Threads,
           call'[u].at \in InHand, call'[u].writes \in {"admission", "qualification"}
    PROVE  \/ /\ call[u].at \in InHand /\ call[u].writes = call'[u].writes
              /\ SaysTheSame(call[u].writes, call'[u].entry, call[u].entry)
           \/ u = t /\ ResolvePrerequisites(t) /\ call'[u].writes = "admission"
           \/ u = t /\ Qualify(t) /\ call'[u].writes = "qualification"
<1>1. Leg(call[t].op, call[t].at, call[t].writes)
    BY TypeInvIs DEF GoodCall
<1>2. ASSUME u = t, Stages(t), call'[u].writes = call[u].writes
      PROVE  \/ ResolvePrerequisites(t) /\ call'[u].writes = "admission"
             \/ Qualify(t) /\ call'[u].writes = "qualification"
    BY <1>1, <1>2 DEF Stages, Construct, RunRule, Evaluate, ResolvePrerequisites, IssueActive,
       Qualify, Bridge, Analyse, At, Leg
<1> QED BY <1>2, HandFrom

\* Only a publication retains anything.
LEMMA PublicationsRetain ==
    ASSUME [Next]_vars
    PROVE  hist' = hist \/ \E t \in Threads : Publish(t)
<1>1. ASSUME NEW t \in Threads, Start(t) PROVE hist' = hist
    BY <1>1 DEF Start, Begin, BeginConstruct, BeginValidate, BeginFreshness, BeginAdmit,
       BeginActivate, BeginQualify, BeginBridge, BeginAnalyse
<1>2. ASSUME NEW t \in Threads, Step(t), ~Publish(t) PROVE hist' = hist
    <2>1. CASE \/ Construct(t) \/ RunRule(t) \/ Evaluate(t) \/ ResolvePrerequisites(t)
               \/ IssueActive(t) \/ Qualify(t) \/ Bridge(t) \/ Analyse(t)
        BY <2>1 DEF Construct, RunRule, Evaluate, ResolvePrerequisites, IssueActive, Qualify,
           Bridge, Analyse, Stage
    <2>2. CASE \/ Acquire(t) \/ AcquisitionFails(t) \/ Lookup(t) \/ ReadPredecessor(t)
               \/ Survey(t) \/ StartTask(t) \/ Stamp(t) \/ Refuse(t)
        BY <2>2 DEF Acquire, AcquisitionFails, Lookup, ReadPredecessor, Survey, StartTask, Stamp, Refuse
    <2> QED BY <1>2, <2>1, <2>2 DEF Step
<1> QED BY <1>1, <1>2 DEF Next, Move, AllIdle, vars

\* What is retained was retained before, or in the hand of the call that appends it.
LEMMA RetainedFrom ==
    ASSUME TypeInv, [Next]_vars
    PROVE  /\ Grows
           /\ \A h \in Histories : \A i \in DOMAIN hist'[h] :
                 \/ i \in DOMAIN hist[h] /\ hist'[h][i] = hist[h][i]
                 \/ \E t \in Threads : /\ call[t].at = "append" /\ call[t].writes = h
                                       /\ hist'[h][i] = call[t].entry
<1>1. CASE hist' = hist
    BY <1>1 DEF Grows
<1>2. ASSUME NEW t \in Threads, Publish(t)
      PROVE  /\ Grows /\ call[t].at = "append"
             /\ \A h \in Histories : \A i \in DOMAIN hist'[h] :
                   \/ i \in DOMAIN hist[h] /\ hist'[h][i] = hist[h][i]
                   \/ h = call[t].writes /\ hist'[h][i] = call[t].entry
    BY <1>2, PublishAppends DEF Publish, At
<1> QED BY <1>1, <1>2, PublicationsRetain

\* The validations an admission selected were known when it was decided.
Selected(e) ==
    \A rule \in 1..Rules : \E j :
        /\ KnownAbout("validation", j, e.subject, e.completed)
        /\ hist["validation"][j].detail.rule = rule
        /\ hist["validation"][j].completed = e.detail.selected[rule]

\* An activation in a context stands on a chain that was known link by link.
Stands(i, context, analysis) ==
    /\ i \in DOMAIN hist["validity"]
    /\ hist["validity"][i].detail.support \in DOMAIN hist["admission"]
    /\ LET active == hist["validity"][i]
           support == hist["admission"][active.detail.support]
       IN
       /\ active.completed <= analysis
       /\ support.available <= active.completed
       /\ \A rule \in 1..Rules : \E j \in context["validation"] :
             /\ hist["validation"][j].detail.rule = rule
             /\ hist["validation"][j].completed = support.detail.selected[rule]
             /\ hist["validation"][j].available <= support.completed

\* An admission in a context selected the last validations before the analysis time.
UpToDate(i, context, analysis) ==
    /\ i \in DOMAIN hist["admission"]
    /\ hist["admission"][i].completed <= analysis
    /\ \A j \in context["validation"] :
          hist["validation"][j].completed <= analysis =>
              hist["validation"][j].completed <=
                  hist["admission"][i].detail.selected[hist["validation"][j].detail.rule]

\* What GovernancePrecedesUse says of a use, and that its records are retained.
GovernedUse(e) ==
    /\ e.detail.task \in DOMAIN hist["freshness"]
    /\ hist["freshness"][e.detail.task].available <= e.detail.cutoff
    /\ e.detail.context["validation"] \subseteq DOMAIN hist["validation"]
    /\ \E i \in e.detail.context["validity"] : Stands(i, e.detail.context, e.detail.analysis)
    /\ \E i \in e.detail.context["admission"] : UpToDate(i, e.detail.context, e.detail.analysis)

Vouched(h, e) ==
    /\ h = "admission" => Selected(e)
    /\ h = "qualification" => GovernedUse(e)

VouchedInv ==
    /\ \A h \in {"admission", "qualification"} : \A i \in DOMAIN hist[h] : Vouched(h, hist[h][i])
    /\ \A t \in Threads : call[t].at \in InHand => Vouched(call[t].writes, call[t].entry)

LEMMA VouchedStays ==
    ASSUME Grows, NEW h, NEW e, Vouched(h, e)
    PROVE  Vouched(h, e)'
<1>1. \A g \in {"validation", "freshness", "admission", "validity"} :
          /\ DOMAIN hist[g] \subseteq DOMAIN hist'[g]
          /\ \A i \in DOMAIN hist[g] : hist'[g][i] = hist[g][i]
    BY DEF Grows, Histories
<1>2. Selected(e) => Selected(e)'
    BY <1>1 DEF Selected, KnownAbout
<1>3. ASSUME NEW s, NEW i, NEW a, s["validation"] \subseteq DOMAIN hist["validation"]
      PROVE  /\ Stands(i, s, a) => Stands(i, s, a)'
             /\ UpToDate(i, s, a) => UpToDate(i, s, a)'
    <2>1. \A j \in s["validation"] : hist'["validation"][j] = hist["validation"][j]
        BY <1>1, <1>3
    <2>2. ASSUME Stands(i, s, a) PROVE Stands(i, s, a)'
        <3>1. PICK active, k, support :
                 /\ i \in DOMAIN hist["validity"] /\ active = hist["validity"][i]
                 /\ k = active.detail.support /\ k \in DOMAIN hist["admission"]
                 /\ support = hist["admission"][k]
            BY <2>2 DEF Stands
        <3>2. /\ i \in DOMAIN hist'["validity"] /\ active = hist'["validity"][i]
              /\ k \in DOMAIN hist'["admission"] /\ support = hist'["admission"][k]
            BY <1>1, <3>1
        <3>3. /\ active.completed <= a /\ support.available <= active.completed
              /\ \A rule \in 1..Rules : \E j \in s["validation"] :
                    /\ hist["validation"][j].detail.rule = rule
                    /\ hist["validation"][j].completed = support.detail.selected[rule]
                    /\ hist["validation"][j].available <= support.completed
            BY <2>2, <3>1 DEF Stands
        <3>4. \A rule \in 1..Rules : \E j \in s["validation"] :
                    /\ hist'["validation"][j].detail.rule = rule
                    /\ hist'["validation"][j].completed = support.detail.selected[rule]
                    /\ hist'["validation"][j].available <= support.completed
            BY <2>1, <3>3
        <3>5. /\ hist'["validity"][i].completed <= a
              /\ hist'["admission"][hist'["validity"][i].detail.support].available
                    <= hist'["validity"][i].completed
            BY <3>1, <3>2, <3>3
        <3>6. hist'["admission"][hist'["validity"][i].detail.support] = support
            BY <3>1, <3>2
        <3>7. hist'["validity"][i].detail.support \in DOMAIN hist'["admission"]
            BY <3>1, <3>2
        <3> QED BY <3>2, <3>4, <3>5, <3>6, <3>7 DEF Stands
    <2>3. UpToDate(i, s, a) => UpToDate(i, s, a)'
        BY <1>1, <2>1 DEF UpToDate
    <2> QED BY <2>2, <2>3
<1>4. GovernedUse(e) => GovernedUse(e)'
    BY <1>1, <1>3 DEF GovernedUse
<1> QED BY <1>2, <1>4 DEF Vouched

LEMMA SayingIsVouched ==
    ASSUME NEW h \in {"admission", "qualification"}, NEW e, NEW f, SaysTheSame(h, e, f), Vouched(h, f)
    PROVE  Vouched(h, e)
BY DEF SaysTheSame, Vouched, Selected, GovernedUse


\* What is staged.
LEMMA StagedIs ==
    ASSUME TypeInv, NEW t \in Threads, NEW point, NEW detail, NEW locks, Stage(t, point, detail, locks)
    PROVE  /\ call'[t].entry.subject = call[t].subject /\ call'[t].entry.completed = now
           /\ call'[t].entry.detail = detail
<1> DEFINE e == Staged(call[t], detail, now)
           c == [call[t] EXCEPT !.at = point, !.waiting = locks, !.entry = e]
<1>1. call \in [Threads -> Calls] /\ call[t] \in Calls
    BY TypeInvIs
<1>2. call'[t] = c
    BY <1>1 DEF Stage, Staged
<1> HIDE DEF e
<1>3. c.entry = e
    BY <1>1, CallsAre
<1>4. e.subject = call[t].subject /\ e.completed = now /\ e.detail = detail
    BY DEF e, Staged
<1> HIDE DEF c
<1> QED BY <1>2, <1>3, <1>4

LEMMA AdmissionVouched ==
    ASSUME GroundInv, NEW t \in Threads, ResolvePrerequisites(t)
    PROVE  Selected(call'[t].entry)
<1> DEFINE x == call[t].subject
           s == Snapshot(x, now)
<1>0. TypeInv /\ now \in Nat
    BY TypeInvIs DEF GroundInv
<1> DEFINE d == [predecessor |-> 0,
                 selected |-> [rule \in 1..Rules |-> Latest(Validations(rule, s, now))],
                 freshness |-> Latest(Evaluations("admission", s, now)),
                 basis |-> [h \in Basis |->
                               IF h = "validation" THEN s[h]
                               ELSE {i \in s[h] : hist[h][i].detail.kind = "admission"}]]
<1>1. /\ Stage(t, "predecessor", d, <<"admission">>)
      /\ d.selected = [rule \in 1..Rules |-> Latest(Validations(rule, s, now))]
    BY DEF ResolvePrerequisites
<1> HIDE DEF d
<1>2. PICK e : /\ e = call'[t].entry /\ e.subject = x /\ e.completed = now /\ e.detail = d
    BY <1>0, <1>1, StagedIs
<1>3. ASSUME NEW rule \in 1..Rules
      PROVE  \E j : /\ KnownAbout("validation", j, x, now)
                    /\ hist["validation"][j].detail.rule = rule
                    /\ hist["validation"][j].completed = d.selected[rule]
    <2>1. Validations(rule, s, now) # {}
        BY DEF ResolvePrerequisites, Admissible
    <2>2. /\ Validations(rule, s, now) \subseteq Nat
          /\ \A u \in Validations(rule, s, now) : u <= now
        BY <1>0, TimesAreNumbers
    <2>3. Latest(Validations(rule, s, now)) \in Validations(rule, s, now)
        BY <1>0, <2>1, <2>2, LatestIsGreatest
    <2>4. d.selected[rule] \in Validations(rule, s, now)
        BY <1>1, <2>3
    <2>5. PICK j \in s["validation"] : /\ hist["validation"][j].detail.rule = rule
                                       /\ hist["validation"][j].completed = d.selected[rule]
        BY <2>4 DEF Validations
    <2>6. KnownAbout("validation", j, x, now)
        BY <2>5, SeenIsKnown DEF Inputs
    <2> QED BY <2>5, <2>6
<1>4. Selected(e)
    BY <1>2, <1>3 DEF Selected
<1> QED BY <1>2, <1>4

LEMMA UseVouched ==
    ASSUME GroundInv, VouchedInv, NEW t \in Threads, Qualify(t)
    PROVE  GovernedUse(call'[t].entry)
<1>1. PICK x, cutoff, a, k : x = call[t].subject /\ cutoff = Cutoff(t, now) /\ a = call[t].analysis
                             /\ k = call[t].task
    OBVIOUS
<1>2. TypeInv /\ now \in Nat /\ a \in Nat /\ cutoff \in Nat
    BY <1>1, TypeInvIs, CallsAre DEF GroundInv, GoodCall, Cutoff
<1>3. PICK s : s = Snapshot(x, cutoff)
    OBVIOUS
<1>4. /\ k \in s["freshness"] /\ Consumable(s, a, cutoff)
      /\ Stage(t, "stamp", [cutoff |-> cutoff, analysis |-> a, task |-> k, context |-> s], <<>>)
    BY <1>1, <1>3 DEF Qualify, Qualifies
<1>5. PICK e : /\ e = call'[t].entry /\ e.detail.cutoff = cutoff /\ e.detail.analysis = a
               /\ e.detail.task = k /\ e.detail.context = s
    <2>1. PICK d : d = [cutoff |-> cutoff, analysis |-> a, task |-> k, context |-> s]
        OBVIOUS
    <2>2. d.cutoff = cutoff /\ d.analysis = a /\ d.task = k /\ d.context = s
        BY <2>1
    <2>3. call'[t].entry.detail = d
        BY <1>2, <1>4, <2>1, StagedIs
    <2> QED BY <2>2, <2>3
<1>6. /\ \A h \in Inputs \ {"construction"} : \A i \in s[h] : KnownAbout(h, i, x, cutoff)
      /\ \A h \in Inputs : s[h] = Visible(h, x, cutoff) /\ s[h] \subseteq DOMAIN hist[h]
    BY <1>2, <1>3, SeenIsKnown, SnapshotIndices
<1>7. k \in DOMAIN hist["freshness"] /\ hist["freshness"][k].available <= cutoff
    BY <1>4, <1>6 DEF KnownAbout, Inputs
<1>8. \E i \in s["validity"] : Stands(i, s, a)
    <2>1. PICK i \in s["validity"] : hist["validity"][i].completed <= a
        BY <1>4 DEF Consumable, EffectiveBy
    <2>2. PICK active : active = hist["validity"][i]
        OBVIOUS
    <2>3. /\ i \in DOMAIN hist["validity"] /\ active.subject = x /\ active.available <= cutoff
          /\ active \in Entry("validity") /\ Grounded("validity", active)
          /\ active.completed <= active.available
        BY <1>2, <1>6, <2>1, <2>2, IndicesAreNumbers DEF KnownAbout, Inputs, Histories, GroundInv
    <2>4. PICK n : n = active.detail.support
        OBVIOUS
    <2>5. KnownAbout("admission", n, x, active.completed)
        BY <2>3, <2>4 DEF Grounded
    <2>6. PICK support : support = hist["admission"][n]
        OBVIOUS
    <2>7. /\ n \in DOMAIN hist["admission"] /\ support.subject = x
          /\ support.available <= active.completed
          /\ support \in Entry("admission") /\ support.completed <= support.available
          /\ Vouched("admission", support)
        BY <1>2, <2>5, <2>6, IndicesAreNumbers DEF KnownAbout, Histories, GroundInv, VouchedInv
    <2>8. /\ active.completed \in Nat /\ active.available \in Nat
          /\ support.completed \in Nat /\ support.available \in Nat
        BY <2>3, <2>7, EntryFields DEF Histories
    <2>9. support.completed <= cutoff
        BY <1>2, <2>3, <2>7, <2>8
    <2>10. ASSUME NEW rule \in 1..Rules
           PROVE  \E j \in s["validation"] :
                     /\ hist["validation"][j].detail.rule = rule
                     /\ hist["validation"][j].completed = support.detail.selected[rule]
                     /\ hist["validation"][j].available <= support.completed
        <3>1. PICK j : /\ KnownAbout("validation", j, x, support.completed)
                       /\ hist["validation"][j].detail.rule = rule
                       /\ hist["validation"][j].completed = support.detail.selected[rule]
            BY <2>7 DEF Vouched, Selected
        <3>2. /\ j \in DOMAIN hist["validation"] /\ hist["validation"][j].subject = x
              /\ hist["validation"][j].available <= support.completed
              /\ hist["validation"][j].available \in Nat
            BY <1>2, <3>1, IndicesAreNumbers, EntryFields DEF KnownAbout, Histories
        <3>3. hist["validation"][j].available <= cutoff
            BY <1>2, <2>8, <2>9, <3>2
        <3>4. j \in s["validation"]
            BY <1>6, <3>2, <3>3 DEF Visible, About, Inputs
        <3> QED BY <3>1, <3>2, <3>4
    <2>11. Stands(i, s, a)
        BY <2>1, <2>2, <2>3, <2>4, <2>6, <2>7, <2>10 DEF Stands
    <2> QED BY <2>1, <2>11
<1>9. \E i \in s["admission"] : UpToDate(i, s, a)
    <2> DEFINE adm == EffectiveAdmission(EffectiveBy("admission", s, a))
    <2>1. PICK i : i = TheOne(adm)
        OBVIOUS
    <2>2. i \in EffectiveBy("admission", s, a)
        BY <1>4, <2>1, EffectiveIsOneOfThem DEF Consumable
    <2>3. i \in s["admission"] /\ hist["admission"][i].completed <= a /\ i \in DOMAIN hist["admission"]
        BY <1>6, <2>2 DEF EffectiveBy, Inputs
    <2>4. \A rule \in 1..Rules : /\ Validations(rule, s, a) # {}
                                  /\ hist["admission"][i].detail.selected[rule]
                                        = Latest(Validations(rule, s, a))
        BY <1>4, <2>1 DEF Consumable
    <2>5. ASSUME NEW j \in s["validation"], hist["validation"][j].completed <= a
          PROVE  hist["validation"][j].completed
                    <= hist["admission"][i].detail.selected[hist["validation"][j].detail.rule]
        <3>1. PICK rule : rule = hist["validation"][j].detail.rule
            OBVIOUS
        <3>2. rule \in 1..Rules
            <4>1. hist["validation"][j] \in Entry("validation")
                BY <1>2, <1>6, <2>5, IndicesAreNumbers DEF Inputs, Histories
            <4>2. hist["validation"][j].detail \in Detail("validation")
                BY <4>1 DEF Entry
            <4>3. \A d \in Detail("validation") : d.rule \in 1..Rules
                <5>1. Detail("validation") = [rule: 1..Rules]
                    BY DetailIs
                <5>2. \A S : \A d \in [rule: S] : d.rule \in S
                    OBVIOUS
                <5> QED BY <5>1, <5>2
            <4> QED BY <3>1, <4>2, <4>3
        <3>3. hist["validation"][j].completed \in Validations(rule, s, a)
            BY <2>5, <3>1 DEF Validations
        <3>4. /\ Validations(rule, s, a) \subseteq Nat
              /\ \A u \in Validations(rule, s, a) : u <= a
            BY <1>2, <1>3, <3>2, TimesAreNumbers
        <3>5. hist["validation"][j].completed <= Latest(Validations(rule, s, a))
            <4>1. PICK times : times = Validations(rule, s, a)
                OBVIOUS
            <4>2. /\ times \in SUBSET Nat /\ times # {} /\ \A u \in times : u <= a
                  /\ hist["validation"][j].completed \in times
                BY <3>3, <3>4, <4>1
            <4>3. \A u \in times : u <= Latest(times)
                BY <1>2, <4>2, LatestIsGreatest
            <4> QED BY <4>1, <4>2, <4>3
        <3> QED BY <2>4, <3>1, <3>2, <3>5
    <2>6. UpToDate(i, s, a)
        BY <2>3, <2>5 DEF UpToDate
    <2> QED BY <2>3, <2>6
<1>10. s["validation"] \subseteq DOMAIN hist["validation"]
    BY <1>6 DEF Inputs
<1>11. GovernedUse(e)
    BY <1>5, <1>7, <1>8, <1>9, <1>10 DEF GovernedUse
<1> QED BY <1>5, <1>11

LEMMA VouchedStep == GroundInv /\ VouchedInv /\ [Next]_vars => VouchedInv'
<1> SUFFICES ASSUME GroundInv, VouchedInv, [Next]_vars PROVE VouchedInv'
    OBVIOUS
<1>1. TypeInv /\ Grows
    BY RetainedFrom DEF GroundInv
<1>2. ASSUME NEW h \in {"admission", "qualification"}, NEW i \in DOMAIN hist'[h]
      PROVE  Vouched(h, hist[h][i])'
    <2>1. h \in Histories
        BY DEF Histories
    <2>2. PICK e : e = hist'[h][i]
        OBVIOUS
    <2>3. Vouched(h, e)
        <3>1. CASE i \in DOMAIN hist[h] /\ hist'[h][i] = hist[h][i]
            BY <2>2, <3>1 DEF VouchedInv
        <3>2. CASE \E t \in Threads : /\ call[t].at = "append" /\ call[t].writes = h
                                       /\ hist'[h][i] = call[t].entry
            BY <2>2, <3>2 DEF VouchedInv, InHand
        <3> QED BY <1>1, <1>2, <2>1, <3>1, <3>2, RetainedFrom
    <2>4. Vouched(h, e)'
        BY <1>1, <2>3, VouchedStays
    <2> QED BY <2>2, <2>4 DEF Vouched, Selected, GovernedUse
<1>3. ASSUME NEW u \in Threads, call'[u].at \in InHand
      PROVE  Vouched(call[u].writes, call[u].entry)'
    <2>1. PICK w, e : w = call'[u].writes /\ e = call'[u].entry
        OBVIOUS
    <2>2. CASE w \notin {"admission", "qualification"}
        BY <2>1, <2>2 DEF Vouched
    <2>3. CASE w \in {"admission", "qualification"}
        <3>1. ASSUME NEW t \in Threads, Start(t) \/ Step(t) PROVE Vouched(w, e)
            <4>1. CASE /\ call[u].at \in InHand /\ call[u].writes = w
                       /\ SaysTheSame(w, e, call[u].entry)
                <5>1. Vouched(w, call[u].entry)
                    BY <4>1 DEF VouchedInv
                <5> QED BY <2>3, <4>1, <5>1, SayingIsVouched
            <4>2. CASE u = t /\ ResolvePrerequisites(t) /\ w = "admission"
                BY <2>1, <4>2, AdmissionVouched DEF Vouched
            <4>3. CASE u = t /\ Qualify(t) /\ w = "qualification"
                BY <2>1, <4>3, UseVouched DEF Vouched
            <4> QED BY <1>1, <1>3, <2>1, <2>3, <3>1, <4>1, <4>2, <4>3, InHandFrom
        <3>2. ASSUME call' = call PROVE Vouched(w, e)
            <4>1. PICK c : c = call[u] /\ c = call'[u]
                BY <3>2
            <4>2. c.at \in InHand /\ w = c.writes /\ e = c.entry
                BY <1>3, <2>1, <4>1
            <4> QED BY <4>1, <4>2 DEF VouchedInv
        <3>3. (call' = call) \/ \E t \in Threads : Start(t) \/ Step(t)
            BY DEF Next, Move, AllIdle, vars
        <3>5. Vouched(w, e)
            BY <3>1, <3>2, <3>3
        <3>4. Vouched(w, e)'
            BY <1>1, <3>5, VouchedStays
        <3> QED BY <2>1, <3>4 DEF Vouched, Selected, GovernedUse
    <2> QED BY <2>2, <2>3
<1> QED BY <1>2, <1>3 DEF VouchedInv

LEMMA VouchedInit == Init => VouchedInv
BY DEF Init, VouchedInv, Histories, Idle, InHand

\* A qualified use rests on an activation, that on an admission and that on
\* validations, each known before the next was issued and all by the analysis time,
\* whatever any thread issued in between and whatever the clock did.
THEOREM GovernanceComesFirst == Spec => []GovernancePrecedesUse
<1>1. VouchedInv => GovernancePrecedesUse
    <2> SUFFICES ASSUME VouchedInv, NEW q \in DOMAIN hist["qualification"]
                 PROVE  LET use == hist["qualification"][q]
                            s == use.detail.context
                        IN
                        /\ hist["freshness"][use.detail.task].available <= use.detail.cutoff
                        /\ \E i \in s["validity"] : Stands(i, s, use.detail.analysis)
                        /\ \E i \in s["admission"] : UpToDate(i, s, use.detail.analysis)
        BY DEF GovernancePrecedesUse, Stands, UpToDate
    <2>1. GovernedUse(hist["qualification"][q])
        BY DEF VouchedInv, Vouched
    <2> QED BY <2>1 DEF GovernedUse
<1> QED BY <1>1, VouchedInit, VouchedStep, GroundInductive, PTL DEF Spec

-----------------------------------------------------------------------------
(* The chain of the admissions *)

Siblings(x) == {j \in DOMAIN hist["admission"] : hist["admission"][j].subject = x}
EarlierThan(i) == {j \in 1..(i - 1) : hist["admission"][j].subject = hist["admission"][i].subject}

\* p names the last of the records E, or there are none.
FollowsLast(E, p) == \/ E = {} /\ p = 0
                     \/ p \in E /\ \A j \in E : j <= p

Chained ==
    \A i \in DOMAIN hist["admission"] :
        /\ FollowsLast(EarlierThan(i), Predecessor(i))
        /\ \A j \in EarlierThan(i) :
              hist["admission"][j].completed <= hist["admission"][i].completed

LEMMA AdmissionsAre ==
    ASSUME TypeInv
    PROVE  /\ DOMAIN hist["admission"] = 1..Len(hist["admission"]) /\ Len(hist["admission"]) \in Nat
           /\ \A i \in DOMAIN hist["admission"] :
                 /\ hist["admission"][i] \in Entry("admission")
                 /\ hist["admission"][i].completed \in Nat
                 /\ hist["admission"][i].available \in Nat
<1>1. "admission" \in Histories /\ hist["admission"] \in Seq(Entry("admission"))
    BY TypeInvIs DEF Histories
<1>2. /\ DOMAIN hist["admission"] = 1..Len(hist["admission"]) /\ Len(hist["admission"]) \in Nat
      /\ \A i \in DOMAIN hist["admission"] : hist["admission"][i] \in Entry("admission")
    BY <1>1
<1> QED BY <1>1, <1>2, EntryFields

\* In a chain the last admission is the one that is effective: the lineage
\* resolves, and every other one has a successor.
LEMMA LastIsEffective ==
    ASSUME TypeInv, Chained, NEW x, Siblings(x) # {}
    PROVE  \E m \in Siblings(x) : /\ \A j \in Siblings(x) : j <= m
                                  /\ EffectiveAdmission(Siblings(x)) = {m}
<1> DEFINE E == Siblings(x)
<1>1. /\ \A j \in E : j \in Nat /\ j # 0 /\ j \in DOMAIN hist["admission"]
      /\ Len(hist["admission"]) \in Nat /\ \A j \in E : j <= Len(hist["admission"])
    BY AdmissionsAre DEF Siblings
<1>2. PICK m \in E : \A j \in E : j <= m
    <2> HIDE DEF E
    <2>1. E # {} /\ E \in SUBSET Nat
        BY <1>1 DEF E
    <2> QED BY <1>1, <2>1, LatestIsGreatest
<1>3. ASSUME NEW i \in E PROVE EarlierThan(i) = {j \in E : j < i}
    BY <1>1, <1>3, AdmissionsAre DEF Siblings, EarlierThan
<1>4. ASSUME NEW i \in E
      PROVE  \/ Predecessor(i) = 0 /\ \A j \in E : ~(j < i)
             \/ /\ Predecessor(i) \in E /\ Predecessor(i) < i
                /\ \A j \in E : j < i => j <= Predecessor(i)
    <2> HIDE DEF E
    <2>1. FollowsLast(EarlierThan(i), Predecessor(i))
        BY <1>1, <1>4 DEF Chained
    <2> QED BY <1>3, <1>4, <2>1 DEF FollowsLast
<1>5. ASSUME NEW i \in E, NEW j \in E, j < i
      PROVE  hist["admission"][j].completed <= hist["admission"][i].completed
    <2> HIDE DEF E
    <2> QED BY <1>1, <1>3, <1>5 DEF Chained
<1> HIDE DEF E
<1>6. ASSUME NEW i \in E, NEW j \in E, Predecessor(i) = Predecessor(j) PROVE i = j
    <2>1. \A a \in E : a \in Nat /\ a # 0
        BY <1>1
    <2>2. ASSUME NEW a \in E, NEW b \in E, a < b PROVE Predecessor(a) # Predecessor(b)
        <3>1. Predecessor(b) \in E /\ a <= Predecessor(b)
            BY <1>4, <2>2
        <3>2. Predecessor(a) = 0 \/ (Predecessor(a) \in E /\ Predecessor(a) < a)
            BY <1>4
        <3> QED BY <2>1, <3>1, <3>2
    <2> QED BY <1>6, <2>1, <2>2
<1>7. Distinct(E) = E
    <2>1. ASSUME NEW i \in E, NEW j \in E, Record(i) = Record(j) PROVE i <= j
        <3>1. Predecessor(i) = Predecessor(j)
            BY <2>1 DEF Record, Predecessor
        <3> QED BY <1>1, <1>6, <3>1
    <2> QED BY <2>1 DEF Distinct
<1>8. Resolves(E)
    BY <1>4, <1>5, <1>6 DEF Resolves
<1>9. Unsuperseded(E) = {m}
    <2>1. ASSUME NEW i \in E PROVE Predecessor(i) # m
        <3>1. i \in Nat /\ m \in Nat /\ m # 0 /\ i <= m
            BY <1>1, <1>2
        <3>2. Predecessor(i) = 0 \/ Predecessor(i) < i
            BY <1>4
        <3> QED BY <3>1, <3>2
    <2>2. ASSUME NEW j \in E, j # m PROVE \E i \in E : Predecessor(i) = j
        <3> DEFINE Above == {k \in E : j < k}
        <3>1. Above \subseteq Nat /\ m \in Above
            BY <1>1, <1>2, <2>2
        <3>2. PICK i \in Above : \A k \in Above : ~ (<<k, i>> \in Less)
            <4> HIDE DEF Above
            <4> QED BY <3>1, LessIsWellFounded, WFMin
        <3>3. i \in E /\ j < i /\ \A k \in E : j < k => ~(k < i)
            <4>1. \A k \in Above : k \in Nat /\ i \in Nat
                BY <3>1, <3>2
            <4> QED BY <3>2, <4>1 DEF Less
        <3>4. Predecessor(i) \in E /\ Predecessor(i) < i /\ j <= Predecessor(i)
            BY <1>4, <2>2, <3>3
        <3>5. Predecessor(i) = j
            BY <1>1, <3>3, <3>4
        <3> QED BY <3>3, <3>5
    <2> QED BY <1>2, <2>1, <2>2 DEF Unsuperseded
<1>10. EffectiveAdmission(E) = {m}
    <2>1. hist["admission"][m].completed <= hist["admission"][m].completed
        BY <1>1, <1>2, AdmissionsAre
    <2> QED BY <1>7, <1>8, <1>9, <2>1 DEF EffectiveAdmission
<1> QED BY <1>2, <1>10 DEF E

\* A clock that is not set back never reads less than it has read.
LEMMA ClockGoesOn ==
    ASSUME TypeInv, [Next]_vars, scenario.clock # "adjusted", latest <= now
    PROVE  latest <= latest' /\ latest' <= now'
<1>1. now \in Nat /\ latest \in Nat
    BY TypeInvIs
<1>2. Read /\ now' = now => latest <= latest' /\ latest' <= now'
    BY <1>1 DEF Read
<1>3. latest' = latest /\ now' = now => latest <= latest' /\ latest' <= now'
    BY <1>1
<1>4. \A t, op, request : Begin(t, op, request) => now' = now
    BY DEF Begin, clock
<1>5. \A t, point, detail, locks : Stage(t, point, detail, locks) => now' = now /\ Read
    BY DEF Stage, clock
<1>6. ASSUME NEW t, Start(t) PROVE now' = now /\ (Read \/ latest' = latest)
    BY <1>4, <1>6 DEF Start, BeginConstruct, BeginValidate, BeginFreshness, BeginAdmit,
       BeginActivate, BeginQualify, BeginBridge, BeginAnalyse
<1>7. ASSUME NEW t, Step(t) PROVE latest <= latest' /\ latest' <= now'
    <2>1. CASE Stamp(t)
        <3>1. Availability \in Nat /\ latest <= Availability
            BY <1>1 DEF Availability
        <3> HIDE DEF Availability
        <3> QED BY <1>1, <2>1, <3>1 DEF Stamp, ReadAvailability
    <2>2. CASE \/ Construct(t) \/ RunRule(t) \/ Evaluate(t) \/ ResolvePrerequisites(t)
               \/ IssueActive(t) \/ Qualify(t) \/ Bridge(t) \/ Analyse(t)
        BY <1>2, <1>5, <2>2 DEF Construct, RunRule, Evaluate, ResolvePrerequisites, IssueActive,
           Qualify, Bridge, Analyse
    <2>3. CASE Refuse(t) \/ StartTask(t)
        BY <1>2, <2>3 DEF Refuse, StartTask, clock
    <2>4. CASE \/ Acquire(t) \/ AcquisitionFails(t) \/ Lookup(t) \/ ReadPredecessor(t)
               \/ Survey(t) \/ Publish(t)
        <3>1. latest' = latest /\ now' = now
            BY <2>4 DEF Acquire, AcquisitionFails, Lookup, ReadPredecessor, Survey, Publish, clock
        <3> QED BY <1>3, <3>1
    <2> QED BY <1>7, <2>1, <2>2, <2>3, <2>4 DEF Step
<1>8. ASSUME Move PROVE latest <= latest' /\ latest' <= now'
    BY <1>1, <1>8 DEF Move
<1>9. ASSUME \/ UNCHANGED vars \/ AllIdle PROVE latest <= latest' /\ latest' <= now'
    BY <1>1, <1>9 DEF AllIdle, vars
<1> QED BY <1>2, <1>3, <1>6, <1>7, <1>8, <1>9 DEF Next

\* No step of one call takes a lock from another.
LEMMA LocksAreKept ==
    ASSUME LockInv, NEW t \in Threads, NEW u \in Threads, u # t, Start(t) \/ Step(t),
           NEW h \in Histories, owner[h] = u
    PROVE  owner'[h] = u
<1>1. owner \in [Histories -> Threads \cup {NoThread}] /\ u # NoThread /\ TypeInv
    BY TypeInvIs, GovernedAssumption DEF LockInv
<1>2. \A op, request : Begin(t, op, request) => owner' = owner
    BY DEF Begin
<1>3. \A point, detail, locks : Stage(t, point, detail, locks) => owner' = owner
    BY DEF Stage
<1>4. CASE Start(t)
    BY <1>2, <1>4 DEF Start, BeginConstruct, BeginValidate, BeginFreshness, BeginAdmit,
       BeginActivate, BeginQualify, BeginBridge, BeginAnalyse
<1>5. CASE \/ Construct(t) \/ RunRule(t) \/ Evaluate(t) \/ ResolvePrerequisites(t)
           \/ IssueActive(t) \/ Qualify(t) \/ Bridge(t) \/ Analyse(t)
    BY <1>3, <1>5 DEF Construct, RunRule, Evaluate, ResolvePrerequisites, IssueActive, Qualify,
       Bridge, Analyse
<1>6. CASE StartTask(t) \/ Stamp(t)
    BY <1>6 DEF StartTask, Stamp
<1>7. CASE Acquire(t)
    BY <1>1, <1>7 DEF Acquire
<1>8. CASE AcquisitionFails(t) \/ Refuse(t) \/ Survey(t) \/ Publish(t)
    <2>1. owner' = Released(t)
        BY <1>8 DEF AcquisitionFails, Refuse, Return, Survey, Publish
    <2> QED BY <2>1 DEF Released
<1>9. CASE Lookup(t)
    <2>1. owner["construction"] = t
        <3>1. "construction" \in Held(t)
            BY <1>9, HoldsRegion DEF Lookup, At, Region
        <3> QED BY <3>1 DEF Held
    <2> QED BY <1>1, <1>9, <2>1 DEF Lookup
<1>10. CASE ReadPredecessor(t)
    <2>1. owner["admission"] = t
        <3>1. call[t].writes = "admission" /\ call[t].at = "predecessor" /\ call[t].waiting = <<>>
            BY <1>1, <1>10, TypeInvIs DEF ReadPredecessor, At, GoodCall, Leg
        <3>2. "admission" \in Held(t)
            BY <3>1, HoldsRegion DEF Region, Regions
        <3> QED BY <3>2 DEF Held
    <2> QED BY <1>1, <1>10, <2>1 DEF ReadPredecessor
<1> QED BY <1>4, <1>5, <1>6, <1>7, <1>8, <1>9, <1>10 DEF Step

\* An admission is in hand.
InAdmission(c) == c.at \in InHand /\ c.writes = "admission"

\* What follows what when the call of an admission goes on.
LEMMA AdmissionGoesOn ==
    ASSUME TypeInv, NEW t \in Threads, Start(t) \/ Step(t), InAdmission(call'[t])
    PROVE  \/ /\ Acquire(t) /\ InAdmission(call[t])
              /\ call'[t].at = call[t].at /\ call'[t].subject = call[t].subject
              /\ call'[t].entry = call[t].entry
           \/ /\ ResolvePrerequisites(t) /\ call'[t].at = "predecessor"
              /\ call'[t].subject = call[t].subject
           \/ /\ ReadPredecessor(t) /\ InAdmission(call[t]) /\ call'[t].at = "stamp"
              /\ call'[t].subject = call[t].subject
           \/ /\ Stamp(t) /\ InAdmission(call[t]) /\ call'[t].at = "append"
              /\ call'[t].subject = call[t].subject
              /\ call'[t].entry.available = Availability
              /\ call'[t].entry.detail = call[t].entry.detail
<1>1. /\ call \in [Threads -> Calls] /\ call[t] \in Calls /\ GoodCall(call[t])
      /\ Leg(call[t].op, call[t].at, call[t].writes)
    BY TypeInvIs DEF GoodCall
<1>2. ASSUME NEW point, NEW locks, NEW e,
             call'[t] = [call[t] EXCEPT !.at = point, !.waiting = locks, !.entry = e]
      PROVE  /\ call'[t].at = point /\ call'[t].subject = call[t].subject
             /\ call'[t].writes = call[t].writes
    BY <1>1, <1>2, CallsAre
<1>3. CASE ResolvePrerequisites(t)
    <2>1. ASSUME NEW detail, NEW locks, Stage(t, "predecessor", detail, locks)
          PROVE  call'[t].at = "predecessor" /\ call'[t].subject = call[t].subject
        <3> DEFINE e == [subject |-> call[t].subject, completed |-> now, available |-> 0, detail |-> detail]
        <3>1. call'[t] = [call[t] EXCEPT !.at = "predecessor", !.waiting = locks, !.entry = e]
            BY <1>1, <2>1 DEF Stage
        <3> HIDE DEF e
        <3> QED BY <1>2, <3>1
    <2> QED BY <1>3, <2>1 DEF ResolvePrerequisites
<1>4. CASE ReadPredecessor(t)
    <2>1. /\ call[t].at = "predecessor" /\ call[t].writes = "admission"
          /\ call[t].entry \in Entry("admission")
        BY <1>1, <1>4 DEF GoodCall, StagedOf, ReadPredecessor, At, Leg
    <2> DEFINE e == [call[t].entry EXCEPT
                        !.detail = [call[t].entry.detail EXCEPT !.predecessor = Follows(t)]]
    <2>2. call'[t] = [call[t] EXCEPT !.at = "stamp", !.waiting = <<"admission">>, !.entry = e]
        BY <1>1, <1>4, <2>1, ReadingThePredecessor
    <2> HIDE DEF e
    <2>3. call'[t].at = "stamp" /\ call'[t].subject = call[t].subject
        BY <1>2, <2>2
    <2> QED BY <1>4, <2>1, <2>3 DEF InAdmission, InHand
<1>5. CASE Stamp(t)
    <2> DEFINE a == Availability
               e == [call[t].entry EXCEPT !.available = a]
               c == [call[t] EXCEPT !.at = "append", !.entry = e]
    <2>1. /\ call[t].at = "stamp" /\ call[t].writes \in Histories
          /\ call[t].entry \in Entry(call[t].writes)
        BY <1>1, <1>5, CallsAre DEF GoodCall, StagedOf, Stamp, At
    <2>2. call'[t] = c
        BY <1>1, <1>5 DEF Stamp
    <2> HIDE DEF a
    <2>3. e.available = a /\ e.detail = call[t].entry.detail
        BY <2>1 DEF Entry
    <2> HIDE DEF e
    <2>4. /\ c.at = "append" /\ c.entry = e /\ c.writes = call[t].writes
          /\ c.subject = call[t].subject
        BY <1>1, CallsAre
    <2> HIDE DEF c
    <2>5. call'[t].entry.available = Availability
        BY <2>2, <2>3, <2>4 DEF a
    <2> QED BY <1>5, <2>1, <2>2, <2>3, <2>4, <2>5 DEF InAdmission, InHand
<1>6. CASE Acquire(t)
    <2> DEFINE c == [call[t] EXCEPT !.waiting = Tail(call[t].waiting)]
    <2>1. call'[t] = c
        BY <1>1, <1>6 DEF Acquire
    <2>2. /\ c.at = call[t].at /\ c.writes = call[t].writes /\ c.entry = call[t].entry
          /\ c.subject = call[t].subject
        BY <1>1, CallsAre
    <2> HIDE DEF c
    <2> QED BY <1>6, <2>1, <2>2 DEF InAdmission
<1>7. CASE AcquisitionFails(t) \/ Refuse(t)
    <2>1. call'[t] = Idle
        BY <1>1, <1>7 DEF AcquisitionFails, Refuse, Return
    <2> QED BY <2>1 DEF Idle, InAdmission, InHand
<1>8. CASE Publish(t)
    <2> DEFINE next == [call[t] EXCEPT !.at = "rule", !.rule = @ + 1]
               second == [call[t] EXCEPT !.at = "qualify", !.writes = "qualification",
                                         !.waiting = QualifyLocks,
                                         !.task = Len(hist["freshness"]) + 1]
    <2>1. call'[t] = next \/ call'[t] = second \/ call'[t] = Idle
        BY <1>1, <1>8 DEF Publish
    <2>2. next.at = "rule" /\ second.at = "qualify" /\ Idle.at = "idle"
        BY <1>1, CallsAre DEF Idle
    <2> HIDE DEF next, second
    <2> QED BY <2>1, <2>2 DEF InAdmission, InHand
<1>9. CASE ~(\/ ResolvePrerequisites(t) \/ ReadPredecessor(t) \/ Stamp(t) \/ Acquire(t)
             \/ AcquisitionFails(t) \/ Refuse(t) \/ Publish(t))
    <2>1. call[t].at \notin InHand \/ Qualify(t)
        <3>1. ASSUME Start(t) PROVE call[t].at = "idle"
            BY <3>1 DEF Start, Begin, BeginConstruct, BeginValidate, BeginFreshness, BeginAdmit,
               BeginActivate, BeginQualify, BeginBridge, BeginAnalyse
        <3>2. ASSUME Step(t), ~Qualify(t)
              PROVE  call[t].at \in {"acquiring", "lookup", "rule", "evaluate", "activate", "survey",
                                     "task", "bridge", "analyse"}
            BY <1>9, <3>2 DEF Step, At, Construct, Lookup, RunRule, Evaluate, IssueActive, Survey,
               StartTask, Bridge, Analyse
        <3> QED BY <3>1, <3>2 DEF InHand
    <2>2. call[t].at \notin InHand
        BY <2>1 DEF Qualify, At, InHand
    <2>3. /\ call'[t].at \in InHand /\ call'[t].writes = "admission"
          /\ call'[t].writes \in {"admission", "qualification"}
        BY DEF InAdmission
    <2> QED BY <1>9, <2>2, <2>3, InHandFrom
<1> QED BY <1>3, <1>4, <1>5, <1>6, <1>7, <1>8, <1>9

\* What an admission in hand can count on: its call keeps the other issuers out,
\* all that is retained was available when it was decided, and what it is about to
\* append follows the last of its version.
InLine(t) ==
    /\ owner["construction"] = t
    /\ call[t].entry.subject = call[t].subject
    /\ \A i \in DOMAIN hist["admission"] :
          hist["admission"][i].available <= call[t].entry.completed
    /\ call[t].entry.completed <= latest
    /\ call[t].at = "append" =>
          /\ call[t].entry.available <= latest
          /\ FollowsLast(Siblings(call[t].subject), call[t].entry.detail.predecessor)

ChainInv ==
    /\ latest <= now
    /\ Chained
    /\ \A i \in DOMAIN hist["admission"] : hist["admission"][i].available <= latest
    /\ \A t \in Threads : InAdmission(call[t]) => InLine(t)

\* The predecessor that is read is the last admission of the version.
LEMMA LastIsFollowed ==
    ASSUME TypeInv, Chained, NEW t \in Threads, InLine(t)
    PROVE  FollowsLast(Siblings(call[t].subject), Follows(t))
<1> DEFINE E == Siblings(call[t].subject)
<1>1. AdmissionsAt(t) = E
    BY DEF InLine, AdmissionsAt, Visible, About, Siblings
<1>2. CASE E = {}
    BY <1>1, <1>2 DEF Follows, FollowsLast
<1>3. CASE E # {}
    <2>1. PICK m \in E : (\A j \in E : j <= m) /\ EffectiveAdmission(E) = {m}
        BY <1>3, LastIsEffective
    <2> HIDE DEF E
    <2>2. Follows(t) = m
        BY <1>1, <1>3, <2>1 DEF Follows, TheOne
    <2> QED BY <2>1, <2>2 DEF FollowsLast, E
<1> QED BY <1>2, <1>3

LEMMA OneAdmissionInHand ==
    ASSUME ChainInv, NEW t \in Threads, NEW u \in Threads,
           InAdmission(call[t]), InAdmission(call[u])
    PROVE  t = u
BY DEF ChainInv, InLine

\* The admission that is appended is the next link.
LEMMA PublishKeepsChain ==
    ASSUME GroundInv, ChainInv, NEW t \in Threads, Publish(t), call[t].writes = "admission"
    PROVE  /\ Chained'
           /\ \A i \in DOMAIN hist'["admission"] : hist'["admission"][i].available <= latest
<1> DEFINE old == hist["admission"]
           new == hist'["admission"]
           e == call[t].entry
<1>0. PICK n : n = Len(hist["admission"])
    OBVIOUS
<1>1. TypeInv /\ latest \in Nat
    BY TypeInvIs DEF GroundInv
<1>2. /\ DOMAIN old = 1..n /\ n \in Nat
      /\ \A i \in DOMAIN old : old[i].completed \in Nat /\ old[i].available \in Nat
    BY <1>0, <1>1, AdmissionsAre
<1>3. call[t].at = "append" /\ InLine(t)
    BY DEF Publish, At, InAdmission, InHand, ChainInv
<1>4. DOMAIN new = 1..(n + 1) /\ (\A i \in 1..n : new[i] = old[i]) /\ new[n + 1] = e
    <2>1. /\ "admission" \in DOMAIN hist /\ old \in Seq(Entry("admission"))
          /\ e \in Entry("admission")
        BY <1>1, <1>3, TypeInvIs DEF Histories, GoodCall, StagedOf
    <2>2. new = Append(old, e)
        BY <2>1 DEF Publish
    <2> QED BY <1>0, <2>1, <2>2, AppendProperties
<1>5. e.completed \in Nat
    <2>1. e \in Entry("admission")
        BY <1>1, <1>3, TypeInvIs DEF GoodCall, StagedOf
    <2> QED BY <2>1, EntryFields DEF Histories
<1>6. \A i \in 1..n : old[i].completed <= old[i].available
    BY <1>2 DEF GroundInv, Histories
<1> HIDE DEF old, new, e
<1>7. ASSUME NEW i \in 1..n
      PROVE  /\ FollowsLast(EarlierThan(i), Predecessor(i))'
             /\ \A j \in EarlierThan(i)' : new[j].completed <= new[i].completed
    <2>1. EarlierThan(i)' = EarlierThan(i)
        <3>1. \A j \in 1..(i - 1) : new[j] = old[j] /\ new[i] = old[i]
            BY <1>2, <1>4, <1>7
        <3> QED BY <3>1 DEF EarlierThan, old, new
    <2>2. Predecessor(i)' = Predecessor(i)
        BY <1>4, <1>7 DEF Predecessor, old, new
    <2>3. \A j \in EarlierThan(i) : j \in 1..n
        BY <1>2, <1>7 DEF EarlierThan
    <2>4. /\ FollowsLast(EarlierThan(i), Predecessor(i))
          /\ \A j \in EarlierThan(i) : old[j].completed <= old[i].completed
        BY <1>2, <1>7 DEF ChainInv, Chained, old
    <2> QED BY <1>4, <1>7, <2>1, <2>2, <2>3, <2>4 DEF FollowsLast
<1>8. /\ FollowsLast(EarlierThan(n + 1), Predecessor(n + 1))'
      /\ \A j \in EarlierThan(n + 1)' : new[j].completed <= new[n + 1].completed
    <2>1. \A j : j \in EarlierThan(n + 1)' <=> j \in 1..n /\ new[j].subject = new[n + 1].subject
        BY <1>2 DEF EarlierThan, new
    <2>2. EarlierThan(n + 1)' = Siblings(e.subject)
        BY <1>2, <1>4, <2>1 DEF Siblings, old
    <2>3. Predecessor(n + 1)' = e.detail.predecessor
        BY <1>4 DEF Predecessor, new
    <2>4. FollowsLast(Siblings(e.subject), e.detail.predecessor)
        BY <1>3 DEF InLine, e
    <2>5. ASSUME NEW j \in 1..n PROVE new[j].completed <= new[n + 1].completed
        <3>1. old[j].available <= e.completed /\ old[j].completed <= old[j].available
            BY <1>2, <1>3, <1>6 DEF InLine, old, e
        <3> QED BY <1>2, <1>4, <1>5, <3>1
    <2> QED BY <2>1, <2>2, <2>3, <2>4, <2>5 DEF FollowsLast
<1>9. ASSUME NEW i \in 1..(n + 1) PROVE new[i].available <= latest
    <2>1. CASE i \in 1..n
        BY <1>2, <1>4, <2>1 DEF ChainInv, old
    <2>2. CASE i = n + 1
        BY <1>3, <1>4, <2>2 DEF InLine, e
    <2> QED BY <1>2, <2>1, <2>2
<1>10. \A i \in 1..(n + 1) : i \in 1..n \/ i = n + 1
    BY <1>2
<1>11. Chained'
    BY <1>4, <1>7, <1>8, <1>10 DEF Chained, new
<1> QED BY <1>4, <1>9, <1>11 DEF new

\* While the admissions stay as they are, one in hand stays in line.
LEMMA StaysInLine ==
    ASSUME GroundInv, LockInv, ChainInv, [Next]_vars, scenario.clock # "adjusted",
           hist'["admission"] = hist["admission"],
           NEW u \in Threads, InAdmission(call'[u])
    PROVE  InLine(u)'
<1>1. /\ TypeInv /\ latest <= latest' /\ latest \in Nat /\ now \in Nat /\ latest' \in Nat
      /\ latest <= now
    <2>1. TypeInv /\ latest \in Nat /\ now \in Nat /\ latest <= now
        BY TypeInvIs DEF GroundInv, ChainInv
    <2>2. TypeInv'
        BY <2>1, TypesStep
    <2>3. latest' \in Nat
        BY <2>2 DEF TypeInv, TypeOK
    <2> QED BY <2>1, <2>3, ClockGoesOn
<1>2. \A i \in DOMAIN hist["admission"] : hist["admission"][i].available \in Nat
    BY <1>1, AdmissionsAre
<1>3. \A x : Siblings(x)' = Siblings(x)
    BY DEF Siblings
<1>4. ASSUME call'[u] = call[u], owner'["construction"] = u PROVE InLine(u)'
    <2>1. InLine(u) /\ call[u].entry.completed \in Nat /\ call[u].entry.available \in Nat
        <3>1. InAdmission(call[u]) /\ call[u].entry \in Entry("admission")
            BY <1>1, <1>4, TypeInvIs DEF InAdmission, InHand, GoodCall, StagedOf
        <3> QED BY <3>1, EntryFields DEF ChainInv, Histories
    <2>2. call[u].entry.completed <= latest'
        BY <1>1, <2>1 DEF InLine
    <2>3. call[u].at = "append" => call[u].entry.available <= latest'
        BY <1>1, <2>1 DEF InLine
    <2> QED BY <1>3, <1>4, <2>1, <2>2, <2>3 DEF InLine
<1>5. ASSUME NEW t \in Threads, Start(t) \/ Step(t), u # t PROVE InLine(u)'
    <2>1. call'[u] = call[u]
        <3>1. call \in [Threads -> Calls]
            BY <1>1, TypeInvIs
        <3> QED BY <1>5, <3>1, StepIsOneCall
    <2>2. owner'["construction"] = u
        BY <1>5, <2>1, LocksAreKept DEF ChainInv, InLine, Histories
    <2> QED BY <1>4, <2>1, <2>2
<1>6. ASSUME Start(u) \/ Step(u) PROVE InLine(u)'
    <2>1. CASE /\ ResolvePrerequisites(u) /\ call'[u].at = "predecessor"
               /\ call'[u].subject = call[u].subject
        <3>1. owner'["construction"] = u
            <4>1. "construction" \in Held(u)
                BY <2>1, HoldsRegion DEF ResolvePrerequisites, At, Region
            <4> QED BY <2>1, <4>1 DEF Held, ResolvePrerequisites, Stage
        <3>2. /\ call'[u].entry.subject = call[u].subject /\ call'[u].entry.completed = now
            BY <1>1, <2>1, StagedIs DEF ResolvePrerequisites
        <3>3. now <= latest'
            BY <1>1, <2>1 DEF ResolvePrerequisites, Stage, Read
        <3>4. \A i \in DOMAIN hist["admission"] : hist["admission"][i].available <= now
            BY <1>1, <1>2 DEF ChainInv
        <3> QED BY <2>1, <3>1, <3>2, <3>3, <3>4 DEF InLine
    <2>2. ASSUME InAdmission(call[u])
          PROVE  /\ InLine(u) /\ call[u].entry.completed <= latest'
                 /\ call[u].entry.completed \in Nat /\ call[u].entry.available \in Nat
        <3>1. InLine(u) /\ call[u].entry \in Entry("admission")
            BY <1>1, <2>2, TypeInvIs DEF ChainInv, InAdmission, InHand, GoodCall, StagedOf
        <3>2. call[u].entry.completed \in Nat /\ call[u].entry.available \in Nat
            BY <3>1, EntryFields DEF Histories
        <3> QED BY <1>1, <3>1, <3>2 DEF InLine
    <2>3. ASSUME ReadPredecessor(u) \/ Stamp(u)
          PROVE  /\ call'[u].entry.subject = call[u].entry.subject
                 /\ call'[u].entry.completed = call[u].entry.completed
        <3>1. ~ResolvePrerequisites(u) /\ ~Qualify(u)
            BY <2>3 DEF ReadPredecessor, Stamp, ResolvePrerequisites, Qualify, At
        <3>2. call'[u].at \in InHand /\ call'[u].writes \in {"admission", "qualification"}
            BY DEF InAdmission
        <3> QED BY <1>1, <1>6, <3>1, <3>2, InHandFrom DEF SaysTheSame
    <2>4. CASE /\ Acquire(u) /\ InAdmission(call[u])
               /\ call'[u].at = call[u].at /\ call'[u].subject = call[u].subject
               /\ call'[u].entry = call[u].entry
        <3>1. owner'["construction"] = u
            <4>1. owner \in [Histories -> Threads \cup {NoThread}]
                BY <1>1, TypeInvIs
            <4> QED BY <2>2, <2>4, <4>1 DEF Acquire, InLine, Histories
        <3>2. call[u].at = "append" => call[u].entry.available <= latest'
            BY <1>1, <2>2, <2>4 DEF InLine
        <3> QED BY <1>3, <2>2, <2>4, <3>1, <3>2 DEF InLine
    <2>5. CASE /\ ReadPredecessor(u) /\ InAdmission(call[u]) /\ call'[u].at = "stamp"
               /\ call'[u].subject = call[u].subject
        <3>1. owner'["construction"] = u
            <4>1. owner \in [Histories -> Threads \cup {NoThread}]
                BY <1>1, TypeInvIs
            <4> QED BY <2>2, <2>5, <4>1 DEF ReadPredecessor, InLine, Histories
        <3> QED BY <2>2, <2>3, <2>5, <3>1 DEF InLine
    <2>6. CASE /\ Stamp(u) /\ InAdmission(call[u]) /\ call'[u].at = "append"
               /\ call'[u].subject = call[u].subject
               /\ call'[u].entry.available = Availability
               /\ call'[u].entry.detail = call[u].entry.detail
        <3>1. owner'["construction"] = u
            BY <2>2, <2>6 DEF Stamp, InLine
        <3>2. Availability <= latest'
            BY <1>1, <2>6, ReadingsGrow DEF Stamp
        <3>3. call[u].entry.detail.predecessor = Follows(u)
            <4>1. call[u].op = "admit"
                BY <1>1, <2>6, TypeInvIs DEF InAdmission, GoodCall, Leg, Stamp, At
            <4> QED BY <2>6, <4>1 DEF Stamp, Publishable
        <3>4. FollowsLast(Siblings(call[u].subject), call[u].entry.detail.predecessor)
            BY <1>1, <2>2, <2>6, <3>3, LastIsFollowed DEF ChainInv
        <3> QED BY <1>3, <2>2, <2>3, <2>6, <3>1, <3>2, <3>4 DEF InLine
    <2> QED BY <1>1, <1>6, <2>1, <2>4, <2>5, <2>6, AdmissionGoesOn
<1>7. ASSUME call' = call, owner' = owner PROVE InLine(u)'
    BY <1>4, <1>7 DEF ChainInv, InLine
<1> QED BY <1>5, <1>6, <1>7 DEF Next, Move, AllIdle, vars

LEMMA ChainStep ==
    ASSUME GroundInv, LockInv, ChainInv, [Next]_vars, scenario.clock # "adjusted"
    PROVE  ChainInv'
<1>1. /\ TypeInv /\ latest <= latest' /\ latest' <= now' /\ latest \in Nat /\ latest' \in Nat
    <2>1. TypeInv /\ latest \in Nat
        BY TypeInvIs DEF GroundInv
    <2>2. latest' \in Nat
        BY <2>1, TypesStep DEF TypeInv, TypeOK
    <2> QED BY <2>1, <2>2, ClockGoesOn DEF ChainInv
<1>2. CASE hist'["admission"] = hist["admission"]
    <2>1. Chained'
        BY <1>2 DEF ChainInv, Chained, EarlierThan, Predecessor, FollowsLast
    <2>2. \A i \in DOMAIN hist'["admission"] : hist'["admission"][i].available <= latest'
        BY <1>1, <1>2, AdmissionsAre DEF ChainInv
    <2> QED BY <1>1, <1>2, <2>1, <2>2, StaysInLine DEF ChainInv
<1>3. ASSUME NEW t \in Threads, Publish(t), call[t].writes = "admission" PROVE ChainInv'
    <2>1. /\ Chained'
          /\ \A i \in DOMAIN hist'["admission"] : hist'["admission"][i].available <= latest
        BY <1>3, PublishKeepsChain
    <2>2. latest' = latest
        BY <1>3 DEF Publish
    <2>3. InAdmission(call[t])
        BY <1>3 DEF Publish, At, InAdmission, InHand
    <2>4. ASSUME NEW u \in Threads, InAdmission(call'[u]) PROVE FALSE
        <3>1. CASE u = t
            <4>1. ~Acquire(t) /\ ~ResolvePrerequisites(t) /\ ~ReadPredecessor(t) /\ ~Stamp(t)
                BY <1>3 DEF Publish, At, Acquire, ResolvePrerequisites, ReadPredecessor, Stamp
            <4>2. Step(t)
                BY <1>3 DEF Step
            <4> QED BY <1>1, <2>4, <3>1, <4>1, <4>2, AdmissionGoesOn
        <3>2. CASE u # t
            <4>1. call'[u] = call[u]
                <5>1. call \in [Threads -> Calls] /\ Step(t)
                    BY <1>1, <1>3, TypeInvIs DEF Step
                <5> QED BY <3>2, <5>1, StepIsOneCall
            <4> QED BY <2>3, <2>4, <3>2, <4>1, OneAdmissionInHand
        <3> QED BY <3>1, <3>2
    <2> QED BY <1>1, <2>1, <2>2, <2>4 DEF ChainInv
<1>4. \/ hist'["admission"] = hist["admission"]
      \/ \E t \in Threads : Publish(t) /\ call[t].writes = "admission"
    <2>1. ASSUME NEW t \in Threads, Publish(t), call[t].writes # "admission"
          PROVE  hist'["admission"] = hist["admission"]
        <3>1. DOMAIN hist = Histories
            BY <1>1, TypeInvIs
        <3> QED BY <2>1, <3>1 DEF Publish, Histories
    <2> QED BY <2>1, PublicationsRetain
<1> QED BY <1>2, <1>3, <1>4

\* As long as the clock is not set back, the admissions of a version form one chain,
\* each following the last one retained before it, whatever runs beside them and
\* although the lock of the admission history is let go between the lookup of the
\* predecessor and the publication (_issue_locked of the admission service).
THEOREM AdmissionsAreChained == Spec => []AdmissionsFormOneChain
<1> DEFINE Forward == scenario.clock # "adjusted" => ChainInv
<1>1. Init => Forward
    BY DEF Init, ChainInv, Chained, InAdmission, InHand, Idle, Histories
<1>2. LockInv /\ GroundInv /\ Forward /\ [Next]_vars => Forward'
    BY ChainStep, ScenarioStays
<1>3. Forward => AdmissionsFormOneChain
    BY DEF ChainInv, Chained, EarlierThan, FollowsLast, AdmissionsFormOneChain
<1> HIDE DEF Forward
<1> QED BY <1>1, <1>2, <1>3, LocksInductive, GroundInductive, PTL DEF Spec

-----------------------------------------------------------------------------
(* The line of a use *)

\* A bridge is about a retained use, an analysis about a retained bridge, and
\* neither was completed before it was started.
Descends(h, e) ==
    /\ h = "qualification" => e.subject \in DOMAIN hist["construction"]
    /\ h = "bridge" => e.subject \in DOMAIN hist["qualification"] /\ e.detail.started <= e.completed
    /\ h = "technical" => e.subject \in DOMAIN hist["bridge"] /\ e.detail.started <= e.completed

\* What a bridge or an analysis is asked about is retained.
AsksKnown(c) ==
    /\ c.writes = "bridge" => c.subject \in DOMAIN hist["qualification"]
    /\ c.writes = "technical" => c.subject \in DOMAIN hist["bridge"]

DescentInv ==
    /\ \A h \in Histories : \A i \in DOMAIN hist[h] : Descends(h, hist[h][i])
    /\ \A t \in Threads : AsksKnown(call[t])
    /\ \A t \in Threads : call[t].at \in InHand => Descends(call[t].writes, call[t].entry)

LEMMA DescendsStays ==
    ASSUME Grows, NEW h, NEW e, Descends(h, e)
    PROVE  Descends(h, e)'
BY DEF Grows, Descends, Histories

\* The subject of a call is chosen when it begins.
LEMMA CallsOpenOnKnown ==
    ASSUME TypeInv, NEW t \in Threads, Start(t)
    PROVE  AsksKnown(call'[t])
<1>1. call \in [Threads -> Calls]
    BY TypeInvIs
<1>2. \A op, writes, x, at, locks, started :
          /\ Request(op, writes, x, at, locks, started).writes = writes
          /\ Request(op, writes, x, at, locks, started).subject = x
    BY DEF Request, Idle
<1>3. \A op, request : Begin(t, op, request) => call'[t] = request
    BY <1>1 DEF Begin
<1>4. CASE BeginQualify(t)
    <2> DEFINE r(c) == Request("qualify", "qualification", c, "survey", InputLocks, now)
               q(c, k, a) == [r(c) EXCEPT !.knowledge = k, !.analysis = a]
    <2>1. PICK c \in DOMAIN hist["construction"], k \in {0} \cup Recent, a \in Recent :
                Begin(t, "qualify", q(c, k, a))
        BY <1>4 DEF BeginQualify
    <2>2. r(c).writes = "qualification" /\ r(c) \in Calls
        <3>1. c \in Nat /\ InputLocks \in Seq(Histories) /\ now \in Nat
            BY TypeInvIs, IndicesAreNumbers, LockTuples DEF Histories
        <3> QED BY <3>1, IdleIsACall, CallsAre DEF Request, Ops, Points, Histories
    <2> HIDE DEF r
    <2>3. q(c, k, a).writes = "qualification"
        BY <2>2, CallsAre
    <2> HIDE DEF q
    <2> QED BY <1>3, <2>1, <2>3 DEF AsksKnown
<1>5. CASE BeginBridge(t)
    <2>1. PICK q \in DOMAIN hist["qualification"] :
              Begin(t, "bridge", Request("bridge", "bridge", q, "bridge", BridgeLocks, now))
        BY <1>5 DEF BeginBridge
    <2> QED BY <1>2, <1>3, <2>1 DEF AsksKnown
<1>6. CASE BeginAnalyse(t)
    <2>1. PICK b \in DOMAIN hist["bridge"] :
              Begin(t, "analyse", Request("analyse", "technical", b, "analyse", AnalyseLocks, now))
        BY <1>6 DEF BeginAnalyse
    <2> QED BY <1>2, <1>3, <2>1 DEF AsksKnown
<1>7. CASE Start(t) /\ ~BeginQualify(t) /\ ~BeginBridge(t) /\ ~BeginAnalyse(t)
    BY <1>2, <1>3, <1>7 DEF Start, BeginConstruct, BeginValidate, BeginFreshness, BeginAdmit,
       BeginActivate, AsksKnown
<1> QED BY <1>4, <1>5, <1>6, <1>7

\* ... and stays the same while the call writes one history.
LEMMA SubjectStays ==
    ASSUME TypeInv, NEW t \in Threads, Step(t)
    PROVE  \/ call'[t].writes = call[t].writes /\ call'[t].subject = call[t].subject
           \/ call'[t].writes \notin {"bridge", "technical"}
<1>1. call \in [Threads -> Calls] /\ call[t] \in Calls
    BY TypeInvIs
<1>2. CASE Stages(t)
    <2>1. ASSUME NEW point, NEW detail, NEW locks, Stage(t, point, detail, locks)
          PROVE  call'[t].writes = call[t].writes /\ call'[t].subject = call[t].subject
        <3> DEFINE e == [subject |-> call[t].subject, completed |-> now, available |-> 0, detail |-> detail]
                   c == [call[t] EXCEPT !.at = point, !.waiting = locks, !.entry = e]
        <3>1. call'[t] = c
            BY <1>1, <2>1 DEF Stage
        <3> HIDE DEF e
        <3>2. c.writes = call[t].writes /\ c.subject = call[t].subject
            BY <1>1, CallsAre
        <3> HIDE DEF c
        <3> QED BY <3>1, <3>2
    <2> QED BY <1>2, <2>1 DEF Stages, Construct, RunRule, Evaluate, ResolvePrerequisites,
           IssueActive, Qualify, Bridge, Analyse
<1>3. CASE Acquire(t)
    <2>1. call'[t] = [call[t] EXCEPT !.waiting = Tail(call[t].waiting)]
        BY <1>1, <1>3 DEF Acquire
    <2> QED BY <1>1, <2>1, CallsAre
<1>4. CASE AcquisitionFails(t) \/ Refuse(t)
    <2>1. call'[t] = Idle
        BY <1>1, <1>4 DEF AcquisitionFails, Refuse, Return
    <2> QED BY <2>1 DEF Idle
<1>5. CASE Lookup(t)
    <2>1. \E p : call'[t] = [call[t] EXCEPT !.at = p]
        BY <1>1, <1>5 DEF Lookup
    <2> QED BY <1>1, <2>1, CallsAre
<1>6. CASE Survey(t)
    <2> DEFINE tasks == Tasks(Snapshot(call[t].subject, Cutoff(t, call[t].asked)), call[t].analysis)
               again == [call[t] EXCEPT !.at = "qualify", !.waiting = QualifyLocks,
                                        !.task = Latest(tasks)]
               execute == [call[t] EXCEPT !.at = "task"]
    <2>1. call'[t] = again \/ call'[t] = execute
        BY <1>1, <1>6 DEF Survey
    <2>2. /\ again.writes = call[t].writes /\ again.subject = call[t].subject
          /\ execute.writes = call[t].writes /\ execute.subject = call[t].subject
        BY <1>1, CallsAre
    <2> HIDE DEF again, execute
    <2> QED BY <2>1, <2>2
<1>7. CASE StartTask(t)
    <2> DEFINE c == [call[t] EXCEPT !.at = "lookup", !.waiting = <<"construction">>,
                                    !.writes = "freshness", !.started = now]
    <2>1. call'[t] = c
        BY <1>1, <1>7 DEF StartTask
    <2>2. c.writes = "freshness"
        BY <1>1, CallsAre
    <2> HIDE DEF c
    <2> QED BY <2>1, <2>2
<1>8. CASE ReadPredecessor(t)
    <2>1. call[t].entry \in Entry("admission")
        BY <1>8, TypeInvIs DEF GoodCall, StagedOf, ReadPredecessor, At, Leg
    <2> DEFINE e == [call[t].entry EXCEPT
                        !.detail = [call[t].entry.detail EXCEPT !.predecessor = Follows(t)]]
               c == [call[t] EXCEPT !.at = "stamp", !.waiting = <<"admission">>, !.entry = e]
    <2>2. call'[t] = c
        BY <1>1, <1>8, <2>1, ReadingThePredecessor
    <2> HIDE DEF e
    <2>3. c.writes = call[t].writes /\ c.subject = call[t].subject
        BY <1>1, CallsAre
    <2> HIDE DEF c
    <2> QED BY <2>2, <2>3
<1>9. CASE Stamp(t)
    <2> DEFINE e == [call[t].entry EXCEPT !.available = Availability]
               c == [call[t] EXCEPT !.at = "append", !.entry = e]
    <2>1. call'[t] = c
        BY <1>1, <1>9 DEF Stamp
    <2> HIDE DEF e
    <2>2. c.writes = call[t].writes /\ c.subject = call[t].subject
        BY <1>1, CallsAre
    <2> HIDE DEF c
    <2> QED BY <2>1, <2>2
<1>10. CASE Publish(t)
    <2> DEFINE next == [call[t] EXCEPT !.at = "rule", !.rule = @ + 1]
               second == [call[t] EXCEPT !.at = "qualify", !.writes = "qualification",
                                         !.waiting = QualifyLocks,
                                         !.task = Len(hist["freshness"]) + 1]
    <2>1. call'[t] = next \/ call'[t] = second \/ call'[t] = Idle
        BY <1>1, <1>10 DEF Publish
    <2>2. /\ next.writes = call[t].writes /\ next.subject = call[t].subject
          /\ second.writes = "qualification" /\ Idle.writes = "construction"
        BY <1>1, CallsAre DEF Idle
    <2> HIDE DEF next, second
    <2> QED BY <2>1, <2>2
<1> QED BY <1>2, <1>3, <1>4, <1>5, <1>6, <1>7, <1>8, <1>9, <1>10 DEF Step, Stages

\* What is staged is about what the call was asked about.
LEMMA StagesDescendants ==
    ASSUME GroundInv, DescentInv, NEW t \in Threads, Stages(t), call'[t].writes = call[t].writes
    PROVE  Descends(call'[t].writes, call'[t].entry)
<1>1. TypeInv /\ Leg(call[t].op, call[t].at, call[t].writes)
    BY TypeInvIs DEF GroundInv, GoodCall
<1>2. CASE Bridge(t)
    <2>1. PICK d : d = [started |-> call[t].started] /\ Stage(t, "stamp", d, <<>>)
        BY <1>2 DEF Bridge
    <2>2. call'[t].entry.subject = call[t].subject /\ call'[t].entry.completed = now
          /\ call'[t].entry.detail.started = call[t].started
        BY <1>1, <2>1, StagedIs
    <2>3. call[t].writes = "bridge" /\ call[t].started <= now
        BY <1>1, <1>2 DEF Bridge, At, Leg
    <2> QED BY <2>2, <2>3 DEF DescentInv, AsksKnown, Descends
<1>3. CASE Analyse(t)
    <2>1. PICK d : d = [started |-> call[t].started] /\ Stage(t, "stamp", d, <<>>)
        BY <1>3 DEF Analyse
    <2>2. call'[t].entry.subject = call[t].subject /\ call'[t].entry.completed = now
          /\ call'[t].entry.detail.started = call[t].started
        BY <1>1, <2>1, StagedIs
    <2>3. call[t].writes = "technical" /\ call[t].started <= now
        BY <1>1, <1>3 DEF Analyse, At, Leg
    <2> QED BY <2>2, <2>3 DEF DescentInv, AsksKnown, Descends
<1>4. CASE Qualify(t)
    <2>1. \E d : Stage(t, "stamp", d, <<>>)
        BY <1>4 DEF Qualify
    <2>2. call'[t].entry.subject = call[t].subject
        BY <1>1, <2>1, StagedIs
    <2>3. call[t].writes = "qualification"
        BY <1>1, <1>4 DEF Qualify, At, Leg
    <2>4. call[t].subject \in DOMAIN hist["construction"]
        BY <2>3 DEF GroundInv, CallGrounded
    <2> QED BY <2>2, <2>3, <2>4 DEF Descends
<1>5. CASE Construct(t) \/ RunRule(t) \/ Evaluate(t) \/ ResolvePrerequisites(t) \/ IssueActive(t)
    <2>1. call[t].writes \notin {"bridge", "technical", "qualification"}
        BY <1>1, <1>5 DEF Construct, RunRule, Evaluate, ResolvePrerequisites, IssueActive, At, Leg
    <2> QED BY <2>1 DEF Descends
<1> QED BY <1>2, <1>3, <1>4, <1>5 DEF Stages

LEMMA DescentStep == GroundInv /\ DescentInv /\ [Next]_vars => DescentInv'
<1> SUFFICES ASSUME GroundInv, DescentInv, [Next]_vars PROVE DescentInv'
    OBVIOUS
<1>1. TypeInv /\ Grows
    BY RetainedFrom DEF GroundInv
<1>2. ASSUME NEW h \in Histories, NEW i \in DOMAIN hist'[h]
      PROVE  Descends(h, hist[h][i])'
    <2>1. PICK e : e = hist'[h][i]
        OBVIOUS
    <2>2. Descends(h, e)
        <3>1. CASE i \in DOMAIN hist[h] /\ hist'[h][i] = hist[h][i]
            BY <2>1, <3>1 DEF DescentInv
        <3>2. CASE \E t \in Threads : /\ call[t].at = "append" /\ call[t].writes = h
                                      /\ hist'[h][i] = call[t].entry
            BY <2>1, <3>2 DEF DescentInv, InHand
        <3> QED BY <1>1, <1>2, <3>1, <3>2, RetainedFrom
    <2>3. Descends(h, e)'
        BY <1>1, <2>2, DescendsStays
    <2> QED BY <2>1, <2>3 DEF Descends
<1>3. (call' = call) \/ \E t \in Threads : Start(t) \/ Step(t)
    BY DEF Next, Move, AllIdle, vars
<1>4. DOMAIN hist["qualification"] \subseteq DOMAIN hist'["qualification"]
      /\ DOMAIN hist["bridge"] \subseteq DOMAIN hist'["bridge"]
    BY <1>1 DEF Grows, Histories
<1>5. ASSUME NEW u \in Threads PROVE AsksKnown(call[u])'
    <2>1. PICK c : c = call'[u]
        OBVIOUS
    <2>2. AsksKnown(c)
        <3>1. ASSUME NEW t \in Threads, Start(t) \/ Step(t), u # t PROVE AsksKnown(c)
            <4>1. call'[u] = call[u]
                <5>1. call \in [Threads -> Calls]
                    BY <1>1, TypeInvIs
                <5> QED BY <3>1, <5>1, StepIsOneCall
            <4> QED BY <2>1, <4>1 DEF DescentInv
        <3>2. ASSUME Start(u) PROVE AsksKnown(c)
            BY <1>1, <2>1, <3>2, CallsOpenOnKnown
        <3>3. ASSUME Step(u) PROVE AsksKnown(c)
            BY <1>1, <2>1, <3>3, SubjectStays DEF DescentInv, AsksKnown
        <3>4. ASSUME call' = call PROVE AsksKnown(c)
            BY <2>1, <3>4 DEF DescentInv
        <3> QED BY <1>3, <3>1, <3>2, <3>3, <3>4
    <2> QED BY <1>4, <2>1, <2>2 DEF AsksKnown
<1>6. ASSUME NEW u \in Threads, call'[u].at \in InHand
      PROVE  Descends(call[u].writes, call[u].entry)'
    <2>1. PICK w, e : w = call'[u].writes /\ e = call'[u].entry
        OBVIOUS
    <2>2. Descends(w, e)
        <3>1. ASSUME NEW t \in Threads, Start(t) \/ Step(t) PROVE Descends(w, e)
            <4>1. CASE /\ call[u].at \in InHand /\ call[u].writes = w
                       /\ SaysTheSame(w, e, call[u].entry)
                <5>1. Descends(w, call[u].entry)
                    BY <4>1 DEF DescentInv
                <5> QED BY <4>1, <5>1 DEF SaysTheSame, Descends
            <4>2. CASE u = t /\ Stages(t) /\ call'[u].writes = call[u].writes
                BY <2>1, <4>2, StagesDescendants
            <4> QED BY <1>1, <1>6, <2>1, <3>1, <4>1, <4>2, HandFrom
        <3>2. ASSUME call' = call PROVE Descends(w, e)
            <4>1. PICK c : c = call[u] /\ c = call'[u]
                BY <3>2
            <4> QED BY <1>6, <2>1, <4>1 DEF DescentInv
        <3> QED BY <1>3, <3>1, <3>2
    <2>3. Descends(w, e)'
        BY <1>1, <2>2, DescendsStays
    <2> QED BY <2>1, <2>3 DEF Descends
<1> QED BY <1>2, <1>5, <1>6 DEF DescentInv

LEMMA DescentInit == Init => DescentInv
BY DEF Init, DescentInv, Histories, Idle, InHand, AsksKnown

\* What an analysis that still resolves rests on, back to the construction, was
\* known no later than the analysis.
RestsOn(i) ==
    LET b == hist["technical"][i].subject
        q == hist["bridge"][b].subject
        x == hist["qualification"][q].subject
        known == hist["technical"][i].available
    IN  /\ i \in DOMAIN hist["technical"]
        /\ b \in DOMAIN hist["bridge"] /\ hist["bridge"][b].available <= known
        /\ q \in DOMAIN hist["qualification"] /\ hist["qualification"][q].available <= known
        /\ x \in DOMAIN hist["construction"] /\ hist["construction"][x].available <= known

LEMMA ResolvedRests ==
    ASSUME GroundInv, VouchedInv, DescentInv, NEW i \in DOMAIN hist["technical"],
           BridgeResolvable(hist["technical"][i].subject, hist["technical"][i].detail.started)
    PROVE  RestsOn(i)
<1> DEFINE analysis == hist["technical"][i]
           b == analysis.subject
           bridge == hist["bridge"][b]
           q == bridge.subject
           use == hist["qualification"][q]
           x == use.subject
           s == Snapshot(x, use.detail.cutoff)
<1>0. TypeInv
    BY DEF GroundInv
<1>1. /\ b \in DOMAIN hist["bridge"] /\ analysis.detail.started <= analysis.completed
      /\ analysis.completed <= analysis.available
    BY DEF DescentInv, Descends, GroundInv, Histories
<1>2. /\ q \in DOMAIN hist["qualification"] /\ bridge.detail.started <= bridge.completed
      /\ bridge.completed <= bridge.available
    BY <1>1 DEF DescentInv, Descends, GroundInv, Histories
<1>3. x \in DOMAIN hist["construction"] /\ use.completed <= use.available
    BY <1>2 DEF DescentInv, Descends, GroundInv, Histories
<1>4. ASSUME NEW h \in Histories, NEW j \in DOMAIN hist[h]
      PROVE  hist[h][j].completed \in Nat /\ hist[h][j].available \in Nat /\ hist[h][j] \in Entry(h)
    <2>1. hist[h][j] \in Entry(h)
        BY <1>0, TypeInvIs
    <2> QED BY <2>1, EntryFields
<1>5. analysis.detail.started \in Nat /\ bridge.detail.started \in Nat /\ use.detail.cutoff \in Nat
    <2>1. analysis \in Entry("technical") /\ bridge \in Entry("bridge") /\ use \in Entry("qualification")
        BY <1>1, <1>2, <1>4 DEF Histories
    <2> HIDE DEF analysis, bridge, use
    <2>2. analysis.detail \in [started: Nat] /\ bridge.detail \in [started: Nat]
        BY <2>1 DEF Entry, Detail
    <2> QED BY <2>1, <2>2, CutoffIsANumber
<1>6. /\ bridge.available <= analysis.detail.started
      /\ use.available <= bridge.detail.started /\ use.detail.cutoff <= use.completed
      /\ Closed(s) /\ s = use.detail.context
    BY DEF BridgeResolvable, KnownSince, Resolvable
<1>7. hist["construction"][x].available <= use.detail.cutoff
    <2>1. GovernedUse(use)
        BY <1>2 DEF VouchedInv, Vouched
    <2>2. s["validity"] # {}
        BY <1>6, <2>1 DEF GovernedUse
    <2>3. PICK j : j \in s["construction"]
        BY <1>6, <2>2 DEF Closed, Inputs
    <2>4. j = x /\ hist["construction"][j].available <= use.detail.cutoff
        BY <2>3 DEF Snapshot, Visible, About, Inputs
    <2> QED BY <2>4
<1>8. /\ analysis.completed \in Nat /\ analysis.available \in Nat
      /\ bridge.completed \in Nat /\ bridge.available \in Nat
      /\ use.completed \in Nat /\ use.available \in Nat
      /\ hist["construction"][x].available \in Nat
    BY <1>1, <1>2, <1>3, <1>4 DEF Histories
<1>9. bridge.available <= analysis.available
    <2> HIDE DEF analysis, bridge
    <2> QED BY <1>1, <1>5, <1>6, <1>8
<1>10. use.available <= analysis.available
    <2> HIDE DEF analysis, bridge, use
    <2> QED BY <1>2, <1>5, <1>6, <1>8, <1>9
<1>11. hist["construction"][x].available <= analysis.available
    <2> HIDE DEF analysis, use, x
    <2> QED BY <1>3, <1>5, <1>6, <1>7, <1>8, <1>10
<1> QED BY <1>1, <1>2, <1>3, <1>9, <1>10, <1>11 DEF RestsOn
=============================================================================
