--------------------- MODULE RadarDeliverySharedRootProofs ---------------------
(***************************************************************************)
(* The delivery root shared by any number of instruments, sources and      *)
(* temporary files: records are complete, scans lose only temporary files  *)
(* of others, and a listing of one moment is a closed record graph.        *)
(***************************************************************************)
EXTENDS RadarDeliverySharedRoot, TLAPS

-----------------------------------------------------------------------------
(* Names *)

\* A temporary name is never a record's.
LEMMA KindsDiffer == Records \cap Temporaries = {}
BY DEF Records, Temporaries, Written

\* The next record of an owner is missing, and all it rests on is there.
LEMMA NextRecordRests ==
    ASSUME NEW o \in Owners, NEW r \in NextRecord(o)
    PROVE  /\ r \in Records \ entries /\ r.owner = o
           /\ \A k \in {"prepared", "accepted"} \cup IF r.kind = "pending" THEN {"decision"} ELSE {} :
                 r.kind # "prepared" => [r EXCEPT !.kind = k] \in entries \cup {r}
<1>1. /\ r \in Records \ entries /\ r.owner = o
      /\ \A f \in Records \ entries : f.owner = o => Precedes(r, f)
    BY DEF NextRecord
<1>2. ASSUME NEW k \in {"prepared", "accepted"} \cup IF r.kind = "pending" THEN {"decision"} ELSE {},
             r.kind # "prepared", [r EXCEPT !.kind = k] \notin entries
      PROVE  [r EXCEPT !.kind = k] = r
    <2> DEFINE q == [r EXCEPT !.kind = k]
    <2>1. /\ r = [kind |-> r.kind, owner |-> r.owner, no |-> r.no]
          /\ r.kind \in DOMAIN Written /\ r.no \in 1..MaxSources
        BY <1>1 DEF Records
    <2>2. q = [kind |-> k, owner |-> r.owner, no |-> r.no]
        BY <2>1
    <2>3. q \in Records /\ q.owner = o /\ q.no = r.no /\ q.kind = k
        BY <1>1, <2>1, <2>2 DEF Records, Written
    <2>4. Precedes(r, q)
        BY <1>1, <1>2, <2>3
    <2>5. Written[r.kind] <= Written[k]
        BY <2>1, <2>3, <2>4, SharedRootAssumption DEF Precedes
    <2>6. r.kind = k
        BY <1>2, <2>1, <2>5 DEF Written
    <2> QED BY <2>1, <2>2, <2>6
<1> QED BY <1>1, <1>2

\* Adding that record leaves the graph closed.
LEMMA LinkKeepsClosed ==
    ASSUME NEW o \in Owners, NEW r \in NextRecord(o), Orphans(entries) = {}
    PROVE  Orphans(entries \cup {r}) = {}
<1>1. ASSUME NEW e \in Orphans(entries \cup {r}) PROVE FALSE
    <2>1. PICK k \in {"prepared", "accepted"} \cup IF e.kind = "pending" THEN {"decision"} ELSE {} :
              e.kind # "prepared" /\ [e EXCEPT !.kind = k] \notin entries \cup {r}
        BY <1>1 DEF Orphans
    <2>2. e \in (entries \cup {r}) \cap Records
        BY <1>1 DEF Orphans
    <2>3. CASE e = r
        BY <2>1, <2>3, NextRecordRests
    <2>4. CASE e # r
        <3>1. e \in entries \cap Records
            BY <2>2, <2>4
        <3>2. e \in Orphans(entries)
            BY <2>1, <3>1 DEF Orphans
        <3> QED BY <3>2
    <2> QED BY <2>3, <2>4
<1> QED BY <1>1

\* Removing a temporary name does, too: the graph is one of records.
LEMMA UnlinkKeepsClosed ==
    ASSUME NEW names, NEW t \in Temporaries, Orphans(names) = {}
    PROVE  Orphans(names \ {t}) = {}
<1>1. ASSUME NEW e \in Orphans(names \ {t}) PROVE FALSE
    <2>1. PICK k \in {"prepared", "accepted"} \cup IF e.kind = "pending" THEN {"decision"} ELSE {} :
              e.kind # "prepared" /\ [e EXCEPT !.kind = k] \notin names \ {t}
        BY <1>1 DEF Orphans
    <2>2. e \in names \cap Records
        BY <1>1 DEF Orphans
    <2>3. [e EXCEPT !.kind = k] \in Records
        BY <2>2 DEF Records, Written
    <2>4. [e EXCEPT !.kind = k] \notin names
        BY <2>1, <2>3, KindsDiffer
    <2>5. e \in Orphans(names)
        BY <2>1, <2>2, <2>4 DEF Orphans
    <2> QED BY <2>5
<1> QED BY <1>1

\* And so does adding one.
LEMMA CreateKeepsClosed ==
    ASSUME NEW names, NEW t \in Temporaries, Orphans(names) = {}
    PROVE  Orphans(names \cup {t}) = {}
<1>1. ASSUME NEW e \in Orphans(names \cup {t}) PROVE FALSE
    <2>1. PICK k \in {"prepared", "accepted"} \cup IF e.kind = "pending" THEN {"decision"} ELSE {} :
              e.kind # "prepared" /\ [e EXCEPT !.kind = k] \notin names \cup {t}
        BY <1>1 DEF Orphans
    <2>2. e \in names \cap Records
        BY <1>1, KindsDiffer DEF Orphans
    <2>3. e \in Orphans(names)
        BY <2>1, <2>2 DEF Orphans
    <2> QED BY <2>3
<1> QED BY <1>1

-----------------------------------------------------------------------------
(* Types *)

\* Both kinds of names are entries.
LEMMA EntryKinds == Records \subseteq Entry /\ Temporaries \subseteq Entry
BY DEF Entry

\* A report of a known result and name is a report.
LEMMA ReportType ==
    ASSUME TypeOK, NEW o \in Owners, NEW result \in Results,
           NEW e \in Entry \cup {NoEntry}, Report(o, result, e)
    PROVE  report' \in [Owners -> [result: Results, entry: Entry \cup {NoEntry}]]
BY DEF TypeOK, Report

\* Every step keeps the types: one case per action.
LEMMA TypeStep == TypeOK /\ TempInv /\ [Next]_vars => TypeOK'
<1> SUFFICES ASSUME TypeOK, TempInv, [Next]_vars PROVE TypeOK'
    OBVIOUS
<1> USE SharedRootAssumption
<1>1. ASSUME NEW o \in Owners, OpenRoot(o) PROVE TypeOK'
    <2>1. report' \in [Owners -> [result: Results, entry: Entry \cup {NoEntry}]]
        BY <1>1, ReportType DEF OpenRoot, Results
    <2> QED BY <1>1, <2>1 DEF OpenRoot, TypeOK, Goto, Points
<1>2. ASSUME NEW o \in Owners, ListRoot(o) PROVE TypeOK'
    <2>1. \A found \in Listings(o) : found \subseteq Entry
        BY DEF Listings, TypeOK
    <2> QED BY <1>2, <2>1 DEF ListRoot, TypeOK, Goto, Points
<1>3. ASSUME NEW o \in Owners, Examine(o) PROVE TypeOK'
    <2>1. PICK e \in FirstOf(todo[o]) :
              IF e \in entries /\ e \notin Records \ whole
              THEN /\ todo' = [todo EXCEPT ![o] = @ \ {e}]
                   /\ UNCHANGED <<pc, report, opened, listing>>
              ELSE /\ Goto(o, "idle") /\ EndScan(o)
                   /\ Report(o, IF e \in entries THEN "PARTIAL" ELSE "GONE", e)
        BY <1>3 DEF Examine
    <2>2. e \in Entry
        BY <2>1 DEF FirstOf, TypeOK
    <2>5. UNCHANGED <<entries, whole, temp, faults>>
        BY <1>3 DEF Examine
    <2>3. CASE e \in entries /\ e \notin Records \ whole
        <3>1. todo' = [todo EXCEPT ![o] = @ \ {e}] /\ UNCHANGED <<pc, report, opened, listing>>
            BY <2>1, <2>3
        <3>2. todo' \in [Owners -> SUBSET Entry]
            BY <3>1 DEF TypeOK
        <3> QED BY <2>5, <3>1, <3>2 DEF TypeOK
    <2>4. CASE ~(e \in entries /\ e \notin Records \ whole)
        <3>1. report' \in [Owners -> [result: Results, entry: Entry \cup {NoEntry}]]
            BY <2>1, <2>2, <2>4, ReportType DEF Results
        <3>2. Goto(o, "idle") /\ EndScan(o)
            BY <2>1, <2>4
        <3> QED BY <2>5, <3>1, <3>2 DEF EndScan, Goto, TypeOK, Points
    <2> QED BY <2>3, <2>4
<1>4. ASSUME NEW o \in Owners, Judge(o) PROVE TypeOK'
    <2>1. Orphans(listing[o]) \subseteq Entry
        BY EntryKinds DEF Orphans
    <2>2. report' \in [Owners -> [result: Results, entry: Entry \cup {NoEntry}]]
        BY <1>4, <2>1, ReportType DEF Judge, Results
    <2> QED BY <1>4, <2>2 DEF Judge, EndScan, TypeOK, Goto, Points
<1>5. ASSUME NEW o \in Owners, CreateTemp(o) PROVE TypeOK'
    BY <1>5, EntryKinds DEF CreateTemp, TypeOK, Goto, Points, scan
<1>6. ASSUME NEW o \in Owners, WriteTemp(o) PROVE TypeOK'
    BY <1>6, EntryKinds DEF WriteTemp, TempInv, TypeOK, Goto, Points, scan
<1>7. ASSUME NEW o \in Owners, Link(o) PROVE TypeOK'
    <2>1. NextRecord(o) \subseteq Entry
        BY EntryKinds DEF NextRecord
    <2> QED BY <1>7, <2>1 DEF Link, TypeOK, Goto, Points, scan
<1>8. ASSUME NEW o \in Owners, ReadBack(o) PROVE TypeOK'
    BY <1>8 DEF ReadBack, TypeOK, Goto, Points, scan
<1>9. ASSUME NEW o \in Owners, Unlink(o) PROVE TypeOK'
    BY <1>9 DEF Unlink, TypeOK, Goto, Points, scan
<1>10. ASSUME NEW o \in Owners, NothingToPublish(o) PROVE TypeOK'
    BY <1>10 DEF NothingToPublish, TypeOK, Goto, Points, scan
<1>11. ASSUME NEW o \in Owners, PublicationFails(o) PROVE TypeOK'
    <2>1. report' \in [Owners -> [result: Results, entry: Entry \cup {NoEntry}]]
        BY <1>11, ReportType DEF PublicationFails, Results
    <2>2. faults' \in 0..MaxFaults
        BY <1>11 DEF PublicationFails, TypeOK
    <2>3. entries' \subseteq Entry /\ whole' \subseteq Entry
        BY <1>11 DEF PublicationFails, TypeOK
    <2>4. pc' \in [Owners -> Points] /\ temp' \in [Owners -> Temporaries \cup {NoEntry}]
        BY <1>11 DEF PublicationFails, TypeOK, Goto, Points
    <2> QED BY <1>11, <2>1, <2>2, <2>3, <2>4 DEF PublicationFails, TypeOK, scan
<1>12. ASSUME NEW o \in Owners, Crash(o) PROVE TypeOK'
    <2>1. report' \in [Owners -> [result: Results, entry: Entry \cup {NoEntry}]]
        BY <1>12, ReportType DEF Crash, Results
    <2>2. faults' \in 0..MaxFaults
        BY <1>12 DEF Crash, TypeOK
    <2>3. pc' \in [Owners -> Points] /\ temp' \in [Owners -> Temporaries \cup {NoEntry}]
        BY <1>12 DEF Crash, TypeOK, Goto, Points
    <2>4. /\ opened' \in [Owners -> SUBSET Entry] /\ listing' \in [Owners -> SUBSET Entry]
          /\ todo' \in [Owners -> SUBSET Entry]
        BY <1>12 DEF Crash, EndScan, TypeOK
    <2> QED BY <1>12, <2>1, <2>2, <2>3, <2>4 DEF Crash, TypeOK
<1>13. CASE UNCHANGED vars
    BY <1>13 DEF vars, TypeOK
<1> QED
    BY <1>1, <1>2, <1>3, <1>4, <1>5, <1>6, <1>7, <1>8, <1>9, <1>10, <1>11, <1>12, <1>13 DEF Next

-----------------------------------------------------------------------------
(* The directory and the scans *)

\* What is left to keep once the types are dealt with.
DirectoryKept == TempInv' /\ ScanInv' /\ PrefixInv' /\ LinkedIsWhole'

\* A step of a call that keeps the directory and every scan.
LEMMA SameDirectory ==
    ASSUME UNCHANGED <<entries, whole>>
    PROVE  /\ PrefixInv <=> PrefixInv'
           /\ LinkedIsWhole <=> LinkedIsWhole'
BY DEF PrefixInv, Orphans, LinkedIsWhole

\* Opening the root remembers what is there.
LEMMA OpenRootStep == ASSUME DirectoryInv, NEW o \in Owners, OpenRoot(o) PROVE DirectoryKept
<1>1. UNCHANGED <<entries, whole, temp, listing, todo>>
    BY DEF OpenRoot
<1>2. TempInv' /\ ScanInv'
    BY <1>1 DEF OpenRoot, Goto, DirectoryInv, TypeOK, TempInv, ScanInv
<1> QED BY <1>1, <1>2, SameDirectory DEF DirectoryInv, DirectoryKept

\* A listing, torn or not, adds no record that is not in the root.
LEMMA ListRootStep == ASSUME DirectoryInv, NEW o \in Owners, ListRoot(o) PROVE DirectoryKept
<1>1. UNCHANGED <<entries, whole, temp>>
    BY DEF ListRoot
<1>2. PICK found \in Listings(o) :
          /\ listing' = [listing EXCEPT ![o] = found] /\ todo' = [todo EXCEPT ![o] = found]
    BY DEF ListRoot
<1>3. found \subseteq opened[o] \cup entries
    BY DEF Listings
<1>4. TempInv'
    BY <1>1 DEF ListRoot, Goto, DirectoryInv, TypeOK, TempInv
<1>5. ScanInv'
    BY <1>1, <1>2, <1>3 DEF ListRoot, Goto, DirectoryInv, TypeOK, ScanInv
<1> QED BY <1>1, <1>4, <1>5, SameDirectory DEF DirectoryInv, DirectoryKept

\* Examining a name only forgets it, or ends the scan.
LEMMA ExamineStep == ASSUME DirectoryInv, NEW o \in Owners, Examine(o) PROVE DirectoryKept
<1>1. UNCHANGED <<entries, whole, temp>> /\ pc[o] = "examining"
    BY DEF Examine
<1>2. \/ UNCHANGED <<pc, opened, listing>> /\ \E e : todo' = [todo EXCEPT ![o] = @ \ {e}]
      \/ /\ pc' = [pc EXCEPT ![o] = "idle"] /\ listing' = [listing EXCEPT ![o] = {}]
         /\ opened' = [opened EXCEPT ![o] = {}] /\ todo' = [todo EXCEPT ![o] = {}]
    BY DEF Examine, Goto, EndScan
<1>3. ASSUME UNCHANGED <<pc, opened, listing>>, NEW e, todo' = [todo EXCEPT ![o] = @ \ {e}]
      PROVE  TempInv' /\ ScanInv'
    BY <1>1, <1>3 DEF DirectoryInv, TypeOK, TempInv, ScanInv
<1>4. ASSUME pc' = [pc EXCEPT ![o] = "idle"], listing' = [listing EXCEPT ![o] = {}],
             opened' = [opened EXCEPT ![o] = {}], todo' = [todo EXCEPT ![o] = {}]
      PROVE  TempInv' /\ ScanInv'
    BY <1>1, <1>4 DEF DirectoryInv, TypeOK, TempInv, ScanInv
<1> QED BY <1>1, <1>2, <1>3, <1>4, SameDirectory DEF DirectoryInv, DirectoryKept

\* Judging the listing ends the scan.
LEMMA JudgeStep == ASSUME DirectoryInv, NEW o \in Owners, Judge(o) PROVE DirectoryKept
<1>1. UNCHANGED <<entries, whole, temp>>
    BY DEF Judge
<1>2. /\ \E point \in {"creating", "idle"} : pc' = [pc EXCEPT ![o] = point]
      /\ opened' = [opened EXCEPT ![o] = {}] /\ todo' = [todo EXCEPT ![o] = {}]
      /\ listing' = [listing EXCEPT ![o] = {}]
    BY DEF Judge, Goto, EndScan
<1>3. TempInv' /\ ScanInv'
    BY <1>1, <1>2 DEF DirectoryInv, TypeOK, TempInv, ScanInv
<1> QED BY <1>1, <1>3, SameDirectory DEF DirectoryInv, DirectoryKept

\* A new temporary file is no record.
LEMMA CreateTempStep == ASSUME DirectoryInv, NEW o \in Owners, CreateTemp(o) PROVE DirectoryKept
<1>1. PICK t \in Temporaries \ entries :
          t.owner = o /\ entries' = entries \cup {t} /\ temp' = [temp EXCEPT ![o] = t]
    BY DEF CreateTemp
<1>2. UNCHANGED <<whole, scan>> /\ pc' = [pc EXCEPT ![o] = "writing"] /\ pc[o] = "creating"
    BY DEF CreateTemp, Goto
<1>5. PrefixInv'
    <2>1. Orphans(entries \cup {t}) = {}
        BY <1>1, CreateKeepsClosed DEF DirectoryInv, PrefixInv
    <2> QED BY <1>1, <2>1 DEF PrefixInv, Orphans
<1>3. PrefixInv' /\ LinkedIsWhole'
    BY <1>1, <1>2, <1>5, KindsDiffer DEF DirectoryInv, LinkedIsWhole
<1>4. TempInv' /\ ScanInv'
    BY <1>1, <1>2 DEF DirectoryInv, TypeOK, TempInv, ScanInv, scan
<1> QED BY <1>3, <1>4 DEF DirectoryKept

\* Its bytes are complete before it is linked.
LEMMA WriteTempStep == ASSUME DirectoryInv, NEW o \in Owners, WriteTemp(o) PROVE DirectoryKept
<1>1. /\ UNCHANGED <<entries, temp, opened, listing, todo>> /\ whole' = whole \cup {temp[o]}
      /\ pc' = [pc EXCEPT ![o] = "linking"] /\ pc[o] = "writing"
    BY DEF WriteTemp, Goto, scan
<1>2. TempInv' /\ ScanInv'
    BY <1>1 DEF DirectoryInv, TypeOK, TempInv, ScanInv
<1>3. PrefixInv' /\ LinkedIsWhole'
    BY <1>1 DEF DirectoryInv, PrefixInv, LinkedIsWhole, Orphans
<1> QED BY <1>2, <1>3 DEF DirectoryKept

\* The link publishes complete bytes, after everything the record rests on.
LEMMA LinkStep == ASSUME DirectoryInv, NEW o \in Owners, Link(o) PROVE DirectoryKept
<1>1. PICK r \in NextRecord(o) :
          /\ entries' = entries \cup {r}
          /\ whole' = IF temp[o] \in whole THEN whole \cup {r} ELSE whole
    BY DEF Link
<1>2. /\ UNCHANGED <<temp, opened, listing, todo>> /\ pc[o] = "linking"
      /\ pc' = [pc EXCEPT ![o] = "readingBack"]
    BY DEF Link, Goto, scan
<1>3. whole' = whole \cup {r}
    BY <1>1, <1>2 DEF DirectoryInv, TempInv
<1>4. LinkedIsWhole'
    BY <1>1, <1>3 DEF DirectoryInv, LinkedIsWhole
<1>5. PrefixInv'
    <2>1. Orphans(entries \cup {r}) = {}
        BY <1>1, LinkKeepsClosed DEF DirectoryInv, PrefixInv
    <2> QED BY <1>1, <2>1 DEF PrefixInv, Orphans
<1>6. TempInv' /\ ScanInv'
    BY <1>1, <1>2, <1>3 DEF DirectoryInv, TypeOK, TempInv, ScanInv
<1> QED BY <1>4, <1>5, <1>6 DEF DirectoryKept

\* Reading back and finding nothing to publish only move the call.
LEMMA ReadBackStep ==
    ASSUME DirectoryInv, NEW o \in Owners, ReadBack(o) \/ NothingToPublish(o)
    PROVE  DirectoryKept
<1>1. UNCHANGED <<entries, whole, temp, opened, listing, todo>>
    BY DEF ReadBack, NothingToPublish, scan
<1>2. \/ pc[o] = "readingBack" /\ pc' = [pc EXCEPT ![o] = "unlinking"]
      \/ pc[o] = "creating" /\ pc' = [pc EXCEPT ![o] = "idle"]
    BY DEF ReadBack, NothingToPublish, Goto
<1>3. TempInv' /\ ScanInv'
    BY <1>1, <1>2 DEF DirectoryInv, TypeOK, TempInv, ScanInv
<1> QED BY <1>1, <1>3, SameDirectory DEF DirectoryInv, DirectoryKept

\* An owner that removes its temporary file is not scanning, and removes nothing
\* that another owner's publication or the record graph rests on.
LEMMA RemovesOwnTemporary ==
    ASSUME DirectoryInv, NEW o \in Owners,
           pc[o] \in {"writing", "linking", "readingBack", "unlinking"},
           NEW point \in {"idle", "creating"}, pc' = [pc EXCEPT ![o] = point],
           entries' = entries \ {temp[o]}, whole' = whole \ {temp[o]},
           temp' = [temp EXCEPT ![o] = NoEntry], UNCHANGED <<opened, listing, todo>>
    PROVE  DirectoryKept
<1>1. temp[o] \in Temporaries /\ temp[o].owner = o
    BY DEF DirectoryInv, TempInv
<1>2. PrefixInv'
    <2>1. Orphans(entries \ {temp[o]}) = {}
        BY <1>1, UnlinkKeepsClosed DEF DirectoryInv, PrefixInv
    <2> QED BY <2>1 DEF PrefixInv, Orphans
<1>3. LinkedIsWhole'
    BY <1>1, KindsDiffer DEF DirectoryInv, LinkedIsWhole
<1>4. TempInv'
    BY <1>1 DEF DirectoryInv, TypeOK, TempInv
<1>5. ScanInv'
    BY <1>1 DEF DirectoryInv, TypeOK, ScanInv
<1> QED BY <1>2, <1>3, <1>4, <1>5 DEF DirectoryKept

\* A suppressed unlink, a publication that fails without a clean-up, and a crash
\* leave the temporary file behind.
LEMMA LeavesTemporary ==
    ASSUME DirectoryInv, NEW o \in Owners,
           NEW point \in {"idle", "creating"}, pc' = [pc EXCEPT ![o] = point],
           temp' = [temp EXCEPT ![o] = NoEntry], UNCHANGED <<entries, whole>>,
           opened' = [opened EXCEPT ![o] = {}], listing' = [listing EXCEPT ![o] = {}],
           todo' = [todo EXCEPT ![o] = {}]
    PROVE  DirectoryKept
<1>1. TempInv' /\ ScanInv'
    BY DEF DirectoryInv, TypeOK, TempInv, ScanInv
<1> QED BY <1>1, SameDirectory DEF DirectoryInv, DirectoryKept

\* While an owner publishes, it has no scan to forget.
LEMMA PublishingHasNoScan ==
    ASSUME DirectoryInv, NEW o \in Owners,
           pc[o] \in {"writing", "linking", "readingBack", "unlinking"},
           UNCHANGED <<opened, listing, todo>>
    PROVE  /\ opened' = [opened EXCEPT ![o] = {}] /\ listing' = [listing EXCEPT ![o] = {}]
           /\ todo' = [todo EXCEPT ![o] = {}]
<1>1. opened[o] = {} /\ listing[o] = {} /\ todo[o] = {}
    BY DEF DirectoryInv, ScanInv
<1> QED BY <1>1 DEF DirectoryInv, TypeOK

\* The initial directory is empty.
LEMMA DirectoryInit == Init => DirectoryInv
BY SharedRootAssumption
DEF Init, DirectoryInv, TypeOK, TempInv, ScanInv, PrefixInv, Orphans, LinkedIsWhole,
    GoneIsAnothersTemporary, Entry, Points, Results, NoReport

\* Every step keeps the directory and the scans: one case per action.
LEMMA DirectoryStep == DirectoryInv /\ [Next]_vars => DirectoryKept
<1> SUFFICES ASSUME DirectoryInv, [Next]_vars PROVE DirectoryKept
    OBVIOUS
<1>1. ASSUME NEW o \in Owners, Unlink(o) PROVE DirectoryKept
    <2>1. PICK point \in {"idle", "creating"} : pc' = [pc EXCEPT ![o] = point]
        BY <1>1 DEF Unlink, Goto
    <2>2. /\ pc[o] = "unlinking" /\ temp' = [temp EXCEPT ![o] = NoEntry]
          /\ UNCHANGED <<opened, listing, todo>>
        BY <1>1 DEF Unlink, scan
    <2>3. CASE entries' = entries \ {temp[o]} /\ whole' = whole \ {temp[o]}
        BY <2>1, <2>2, <2>3, RemovesOwnTemporary
    <2>4. CASE UNCHANGED <<entries, whole>>
        BY <2>1, <2>2, <2>4, PublishingHasNoScan, LeavesTemporary
    <2> QED BY <1>1, <2>3, <2>4 DEF Unlink
<1>2. ASSUME NEW o \in Owners, PublicationFails(o) PROVE DirectoryKept
    <2>1. /\ pc[o] \in {"writing", "linking", "readingBack"}
          /\ pc' = [pc EXCEPT ![o] = "idle"] /\ temp' = [temp EXCEPT ![o] = NoEntry]
          /\ UNCHANGED <<opened, listing, todo>>
        BY <1>2 DEF PublicationFails, Goto, scan
    <2>2. CASE entries' = entries \ {temp[o]} /\ whole' = whole \ {temp[o]}
        BY <2>1, <2>2, RemovesOwnTemporary
    <2>3. CASE UNCHANGED <<entries, whole>>
        BY <2>1, <2>3, PublishingHasNoScan, LeavesTemporary
    <2> QED BY <1>2, <2>2, <2>3 DEF PublicationFails
<1>3. ASSUME NEW o \in Owners, Crash(o) PROVE DirectoryKept
    <2>1. /\ pc' = [pc EXCEPT ![o] = "idle"] /\ temp' = [temp EXCEPT ![o] = NoEntry]
          /\ UNCHANGED <<entries, whole>>
          /\ opened' = [opened EXCEPT ![o] = {}] /\ listing' = [listing EXCEPT ![o] = {}]
          /\ todo' = [todo EXCEPT ![o] = {}]
        BY <1>3 DEF Crash, Goto, EndScan
    <2> QED BY <2>1, LeavesTemporary
<1>4. CASE UNCHANGED vars
    BY <1>4, SameDirectory DEF vars, DirectoryInv, DirectoryKept, TempInv, ScanInv
<1> QED
    BY <1>1, <1>2, <1>3, <1>4, OpenRootStep, ListRootStep, ExamineStep, JudgeStep,
       CreateTempStep, WriteTempStep, LinkStep, ReadBackStep DEF Next

\* A name that is gone when the scan reaches it is a temporary file of another
\* owner, and no other report says so.
LEMMA GoneStep == DirectoryInv /\ [Next]_vars => GoneIsAnothersTemporary'
<1> SUFFICES ASSUME DirectoryInv, [Next]_vars,
                    NEW p \in Owners, report'[p].result = "GONE"
             PROVE  report'[p].entry \in Temporaries /\ report'[p].entry.owner # p
    BY DEF GoneIsAnothersTemporary
<1>1. CASE report'[p] = report[p]
    BY <1>1 DEF DirectoryInv, GoneIsAnothersTemporary
<1>2. ASSUME NEW o \in Owners, NEW result, NEW e, Report(o, result, e)
      PROVE  \/ result = "GONE" /\ p = o /\ report'[p].entry = e
             \/ report'[p] = report[p]
    <2>1. report' = [report EXCEPT ![o] = [result |-> result, entry |-> e]]
        BY <1>2 DEF Report
    <2>2. CASE p = o
        <3>1. report'[p] = [result |-> result, entry |-> e]
            BY <2>1, <2>2 DEF DirectoryInv, TypeOK
        <3> QED BY <2>2, <3>1
    <2>3. CASE p # o
        BY <2>1, <2>3 DEF DirectoryInv, TypeOK
    <2> QED BY <2>2, <2>3
<1>3. ASSUME NEW o \in Owners, Examine(o)
      PROVE  report'[p].entry \in Temporaries /\ report'[p].entry.owner # p
    <2>1. PICK e \in todo[o] :
              \/ UNCHANGED report
              \/ Report(o, "PARTIAL", e)
              \/ e \notin entries /\ Report(o, "GONE", e)
        BY <1>3 DEF Examine, FirstOf
    <2>2. CASE UNCHANGED report
        BY <1>1, <2>2
    <2>3. CASE Report(o, "PARTIAL", e)
        BY <1>1, <1>2, <2>3
    <2>4. CASE e \notin entries /\ Report(o, "GONE", e)
        <3>1. e \in Temporaries /\ e.owner # o
            BY <2>4 DEF DirectoryInv, ScanInv
        <3> QED BY <1>1, <1>2, <2>4, <3>1
    <2> QED BY <2>1, <2>2, <2>3, <2>4
<1>4. ASSUME NEW o \in Owners,
             \/ OpenRoot(o) \/ Judge(o) \/ PublicationFails(o) \/ Crash(o)
      PROVE  report'[p] = report[p]
    <2>1. PICK result \in {"NONE", "CLEAN", "ORPHAN", "FAILED"} : \E e : Report(o, result, e)
        BY <1>4 DEF OpenRoot, Judge, PublicationFails, Crash
    <2>2. PICK e : Report(o, result, e)
        BY <2>1
    <2> QED BY <1>2, <2>2
<1>5. ASSUME NEW o \in Owners,
             \/ ListRoot(o) \/ CreateTemp(o) \/ WriteTemp(o) \/ Link(o) \/ ReadBack(o)
             \/ Unlink(o) \/ NothingToPublish(o)
      PROVE  report' = report
    BY <1>5 DEF ListRoot, CreateTemp, WriteTemp, Link, ReadBack, Unlink, NothingToPublish
<1>6. CASE UNCHANGED vars
    BY <1>1, <1>6 DEF vars
<1> QED BY <1>1, <1>3, <1>4, <1>5, <1>6 DEF Next

-----------------------------------------------------------------------------
(* Theorems *)

\* The inductive invariant of the shared root, for any number of instruments,
\* sources, temporary files and faults, with listings that may be torn.
THEOREM DirectoryInvariant == Spec => []DirectoryInv
<1>1. DirectoryInv /\ [Next]_vars => DirectoryInv'
    <2>1. DirectoryInv /\ [Next]_vars => TypeOK'
        BY TypeStep DEF DirectoryInv
    <2> QED BY <2>1, DirectoryStep, GoneStep DEF DirectoryInv, DirectoryKept
<1> QED BY <1>1, DirectoryInit, PTL DEF Spec

\* A permanent name never shows a part of a record.
THEOREM RecordsAreWhole == Spec => []LinkedIsWhole
<1>1. DirectoryInv => LinkedIsWhole
    BY DEF DirectoryInv
<1> QED BY <1>1, DirectoryInvariant, PTL

\* Nothing but another owner's temporary file disappears under a scan.
THEOREM OnlyTemporariesVanish == Spec => []GoneIsAnothersTemporary
<1>1. DirectoryInv => GoneIsAnothersTemporary
    BY DEF DirectoryInv
<1> QED BY <1>1, DirectoryInvariant, PTL

\* A listing of one moment never shows a broken record graph, whatever prefix
\* of whose publication it catches.
THEOREM NoScanSeesAnOrphan ==
    ASSUME TornListing = FALSE
    PROVE  Spec => []NoOrphanSeen
<1> DEFINE Listed == (\A o \in Owners : Orphans(listing[o]) = {}) /\ NoOrphanSeen
<1>1. Init => Listed
    BY DEF Init, NoOrphanSeen, Orphans, NoReport
<1>2. ASSUME DirectoryInv, Listed, [Next]_vars PROVE Listed'
    <2>0. Orphans({}) = {}
        BY DEF Orphans
    <2>1. ASSUME NEW o \in Owners, NEW result \in Results \ {"ORPHAN"}, NEW e,
                 Report(o, result, e)
          PROVE  NoOrphanSeen'
        BY <1>2, <2>1 DEF Report, NoOrphanSeen, DirectoryInv, TypeOK
    <2>2. ASSUME NEW o \in Owners, ListRoot(o) PROVE Listed'
        <3>1. listing' = [listing EXCEPT ![o] = entries] /\ UNCHANGED report
            BY <2>2 DEF ListRoot, Listings
        <3>2. Orphans(entries) = {}
            BY <1>2 DEF DirectoryInv, PrefixInv
        <3>3. \A p \in Owners : listing'[p] \in {listing[p], entries}
            BY <1>2, <3>1 DEF DirectoryInv, TypeOK
        <3>4. \A p \in Owners : Orphans(listing'[p]) = {}
            BY <1>2, <3>2, <3>3
        <3> QED BY <1>2, <3>1, <3>4 DEF NoOrphanSeen, Orphans
    <2>3. ASSUME NEW o \in Owners, Examine(o) \/ Judge(o) \/ Crash(o) PROVE Listed'
        <3>1. listing' = listing \/ listing' = [listing EXCEPT ![o] = {}]
            BY <2>3 DEF Examine, Judge, Crash, EndScan
        <3>2. \A p \in Owners : listing'[p] \in {listing[p], {}}
            BY <1>2, <3>1 DEF DirectoryInv, TypeOK
        <3>3. \A p \in Owners : Orphans(listing'[p]) = {}
            BY <1>2, <2>0, <3>2
        <3>4. UNCHANGED report
              \/ \E result \in Results \ {"ORPHAN"} : \E e : Report(o, result, e)
            BY <1>2, <2>3 DEF Examine, Judge, Crash, Results
        <3>5. NoOrphanSeen'
            BY <1>2, <2>1, <3>4 DEF NoOrphanSeen
        <3> QED BY <3>3, <3>5 DEF Orphans
    <2>4. ASSUME NEW o \in Owners, OpenRoot(o) \/ PublicationFails(o) PROVE Listed'
        <3>1. listing' = listing
            BY <2>4 DEF OpenRoot, PublicationFails, scan
        <3>2. \E result \in Results \ {"ORPHAN"} : \E e : Report(o, result, e)
            BY <2>4 DEF OpenRoot, PublicationFails, Results
        <3>3. NoOrphanSeen'
            BY <2>1, <3>2
        <3> QED BY <1>2, <3>1, <3>3 DEF Orphans
    <2>5. ASSUME NEW o \in Owners,
                 \/ CreateTemp(o) \/ WriteTemp(o) \/ Link(o) \/ ReadBack(o)
                 \/ Unlink(o) \/ NothingToPublish(o)
          PROVE  Listed'
        <3>1. UNCHANGED <<listing, report>>
            BY <2>5 DEF CreateTemp, WriteTemp, Link, ReadBack, Unlink, NothingToPublish, scan
        <3> QED BY <1>2, <3>1 DEF NoOrphanSeen, Orphans
    <2>6. CASE UNCHANGED vars
        BY <1>2, <2>6 DEF vars, NoOrphanSeen, Orphans
    <2> QED BY <1>2, <2>2, <2>3, <2>4, <2>5, <2>6 DEF Next
<1>3. DirectoryInv /\ Listed /\ [Next]_vars => Listed'
    BY <1>2
<1>4. Listed => NoOrphanSeen
    OBVIOUS
<1> HIDE DEF Listed
<1> QED BY <1>1, <1>3, <1>4, DirectoryInvariant, PTL DEF Spec
-----------------------------------------------------------------------------
(* RecordRoot *)

\* What a step does to the records of the root: it adds the next one of the owner
\* that links it, or nothing.
LEMMA RecordsOfAStep ==
    ASSUME DirectoryInv, [Next]_vars
    PROVE  \/ entries' \cap Records = entries \cap Records
           \/ \E o \in Owners : \E r \in NextRecord(o) :
                 /\ Link(o)
                 /\ entries' \cap Records = (entries \cap Records) \cup {r}
<1>1. ASSUME NEW o \in Owners, Link(o)
      PROVE  \E r \in NextRecord(o) : entries' \cap Records = (entries \cap Records) \cup {r}
    BY <1>1 DEF Link, NextRecord
<1>2. ASSUME NEW o \in Owners, CreateTemp(o)
      PROVE  entries' \cap Records = entries \cap Records
    BY <1>2, KindsDiffer DEF CreateTemp
<1>3. ASSUME NEW o \in Owners, Unlink(o) \/ PublicationFails(o)
      PROVE  entries' \cap Records = entries \cap Records
    <2>1. temp[o] \in Temporaries
        BY <1>3 DEF Unlink, PublicationFails, DirectoryInv, TempInv
    <2> QED BY <1>3, <2>1, KindsDiffer DEF Unlink, PublicationFails
<1>4. ASSUME NEW o \in Owners,
             \/ OpenRoot(o) \/ ListRoot(o) \/ Examine(o) \/ Judge(o) \/ WriteTemp(o)
             \/ ReadBack(o) \/ NothingToPublish(o) \/ Crash(o)
      PROVE  entries' = entries
    BY <1>4 DEF OpenRoot, ListRoot, Examine, Judge, WriteTemp, ReadBack, NothingToPublish, Crash
<1>5. CASE UNCHANGED vars
    BY <1>5 DEF vars
<1> QED BY <1>1, <1>2, <1>3, <1>4, <1>5 DEF Next

\* Records stay.
LEMMA RecordsStay ==
    ASSUME DirectoryInv, [Next]_vars PROVE entries \cap Records \subseteq entries'
BY RecordsOfAStep

\* Every record written earlier than the next one of an owner is there.
LEMMA NextComesNext ==
    ASSUME NEW o \in Owners, NEW r \in NextRecord(o), NEW e \in Root!Record, Root!Earlier(e, r)
    PROVE  e \in entries \cap Records
<1>1. /\ r \in Records \ entries /\ r.owner = o
      /\ \A f \in Records \ entries : f.owner = o => Precedes(r, f)
    BY DEF NextRecord
<1>2. e \in Records
    BY DEF Root!Record, Root!Place, Records, Written
<1>3. e.owner = o /\ (e.no < r.no \/ (e.no = r.no /\ Written[e.kind] < Written[r.kind]))
    BY <1>1 DEF Root!Earlier, Root!Place, Written
<1>4. e.no \in Nat /\ r.no \in Nat /\ Written[e.kind] \in Nat /\ Written[r.kind] \in Nat
    BY <1>1, <1>2, SharedRootAssumption DEF Records, Written
<1>5. ~Precedes(r, e)
    BY <1>3, <1>4 DEF Precedes
<1> QED BY <1>1, <1>2, <1>3, <1>5

\* A record graph without orphans is closed under what a source writes earlier.
LEMMA NoOrphansIsClosed ==
    ASSUME NEW names, Orphans(names) = {} PROVE Root!Closed(names \cap Records)
<1> SUFFICES ASSUME NEW s \in names \cap Records, NEW r \in Root!Record,
                    Root!Earlier(r, s), r.no = s.no
             PROVE  r \in names \cap Records
    BY DEF Root!Closed
<1>1. r \in Records /\ r = [kind |-> r.kind, owner |-> r.owner, no |-> r.no]
      /\ r.kind \in DOMAIN Written
    BY DEF Root!Record, Root!Place, Records, Written
<1>2. /\ s = [kind |-> s.kind, owner |-> s.owner, no |-> s.no]
      /\ s.kind \in DOMAIN Written /\ s.no \in 1..MaxSources
    BY DEF Records
<1>3. r.owner = s.owner /\ Written[r.kind] < Written[s.kind]
    BY <1>2, SharedRootAssumption DEF Root!Earlier, Root!Place, Written
<1>4. /\ s.kind # "prepared"
      /\ r.kind \in {"prepared", "accepted"} \cup IF s.kind = "pending" THEN {"decision"} ELSE {}
    BY <1>1, <1>2, <1>3 DEF Written
<1>5. [s EXCEPT !.kind = r.kind] = [kind |-> r.kind, owner |-> s.owner, no |-> s.no]
    BY <1>2
<1>6. [s EXCEPT !.kind = r.kind] \in names
    BY <1>4 DEF Orphans
<1> QED BY <1>1, <1>3, <1>5, <1>6
\* The mapped parts of an owner's call, as they move with it.
MappedPhase == [q \in Owners |-> PhaseOf(pc[q])]
MappedSince == [q \in Owners |-> opened[q] \cap Records]
MappedView == [q \in Owners |-> listing[q] \cap Records]

LEMMA MappedCalls ==
    ASSUME TypeOK, NEW o \in Owners
    PROVE  /\ \A point : Goto(o, point) => MappedPhase' = [MappedPhase EXCEPT ![o] = PhaseOf(point)]
           /\ \A names : opened' = [opened EXCEPT ![o] = names] =>
                 MappedSince' = [MappedSince EXCEPT ![o] = names \cap Records]
           /\ \A names : listing' = [listing EXCEPT ![o] = names] =>
                 MappedView' = [MappedView EXCEPT ![o] = names \cap Records]
BY DEF TypeOK, Goto, MappedPhase, MappedSince, MappedView

\* A call that ends keeps nothing of its scan, and what is published stays.
LEMMA EndsAsLeave ==
    ASSUME DirectoryInv, NEW o \in Owners, pc[o] # "idle", Goto(o, "idle"),
           entries' \cap Records = entries \cap Records,
           \/ UNCHANGED <<opened, listing>> /\ opened[o] = {} /\ listing[o] = {}
           \/ EndScan(o)
    PROVE  Root!Leave(o)
<1>1. TypeOK
    BY DEF DirectoryInv
<1>2. opened' = [opened EXCEPT ![o] = {}] /\ listing' = [listing EXCEPT ![o] = {}]
    BY <1>1 DEF EndScan, TypeOK
<1>3. MappedPhase' = [MappedPhase EXCEPT ![o] = "idle"]
    BY <1>1, MappedCalls DEF PhaseOf
<1>4. MappedSince' = [MappedSince EXCEPT ![o] = {} \cap Records]
    BY <1>1, <1>2, MappedCalls
<1>5. MappedView' = [MappedView EXCEPT ![o] = {} \cap Records]
    BY <1>1, <1>2, MappedCalls
<1>6. MappedPhase[o] # "idle"
    BY <1>1 DEF MappedPhase, PhaseOf, TypeOK, Points
<1>7. {} \cap Records = {}
    OBVIOUS
<1> QED
    BY <1>3, <1>4, <1>5, <1>6, <1>7 DEF Root!Leave, MappedPhase, MappedSince, MappedView

\* A step of a publication other than the link shows nobody anything.
LEMMA WorksUnseen ==
    ASSUME DirectoryInv, NEW o \in Owners, NEW point \in Points,
           PhaseOf(pc[o]) = PhaseOf(point), Goto(o, point),
           entries' \cap Records = entries \cap Records, UNCHANGED <<opened, listing>>
    PROVE  UNCHANGED Root!vars
<1>1. MappedPhase' = [MappedPhase EXCEPT ![o] = PhaseOf(point)]
    BY MappedCalls DEF DirectoryInv
<1>2. MappedPhase' = MappedPhase
    BY <1>1 DEF MappedPhase
<1> QED BY <1>2 DEF Root!vars, MappedPhase

\* Every step of the root is one of RecordRoot, or one nobody can tell.
LEMMA RootStep ==
    ASSUME DirectoryInv, [Next]_vars
    PROVE  [Root!Next]_(Root!vars)
<1>1. TypeOK /\ {} \cap Records = {}
    BY DEF DirectoryInv
<1>2. ASSUME NEW o \in Owners, OpenRoot(o) PROVE Root!StartLook(o)
    <2>1. /\ pc[o] = "idle" /\ Goto(o, "listing") /\ opened' = [opened EXCEPT ![o] = entries]
          /\ UNCHANGED <<entries, listing>>
        BY <1>2 DEF OpenRoot
    <2>2. MappedPhase[o] = "idle" /\ MappedPhase' = [MappedPhase EXCEPT ![o] = "looking"]
        BY <1>1, <2>1, MappedCalls DEF MappedPhase, PhaseOf
    <2>3. MappedSince' = [MappedSince EXCEPT ![o] = entries \cap Records]
        BY <1>1, <2>1, MappedCalls
    <2> QED
        BY <2>1, <2>2, <2>3
        DEF Root!StartLook, Root!Becomes, MappedPhase, MappedSince
<1>3. ASSUME NEW o \in Owners, ListRoot(o) PROVE Root!Look(o)
    <2>1. /\ pc[o] = "listing" /\ Goto(o, "examining")
          /\ opened' = [opened EXCEPT ![o] = {}] /\ UNCHANGED entries
        BY <1>3 DEF ListRoot
    <2>2. PICK found \in Listings(o) : listing' = [listing EXCEPT ![o] = found]
        BY <1>3 DEF ListRoot
    <2>3. MappedPhase[o] = "looking" /\ MappedPhase' = [MappedPhase EXCEPT ![o] = "looked"]
        BY <1>1, <2>1, MappedCalls DEF MappedPhase, PhaseOf
    <2>4. MappedSince' = [MappedSince EXCEPT ![o] = {} \cap Records]
        BY <1>1, <2>1, MappedCalls
    <2>5. MappedView' = [MappedView EXCEPT ![o] = found \cap Records]
        BY <1>1, <2>2, MappedCalls
    <2>6. found \cap Records \in Root!Sights(o)
        <3>1. opened[o] \cap Records \subseteq entries
            BY KindsDiffer DEF DirectoryInv, ScanInv
        <3>2. CASE TornListing
            <4>1. opened[o] \cap Records \subseteq found /\ found \cap Records \subseteq entries
                BY <2>2, <3>1, <3>2 DEF Listings
            <4> QED BY <3>2, <4>1 DEF Root!Sights
        <3>3. CASE ~TornListing
            BY <2>2, <3>3 DEF Listings, Root!Sights
        <3> QED BY <3>2, <3>3
    <2> QED
        BY <1>1, <2>1, <2>3, <2>4, <2>5, <2>6
        DEF Root!Look, Root!Becomes, MappedPhase, MappedSince, MappedView
<1>4. ASSUME NEW o \in Owners, Examine(o) PROVE [Root!Next]_(Root!vars)
    <2>1. pc[o] = "examining" /\ UNCHANGED entries
        BY <1>4 DEF Examine
    <2>2. CASE UNCHANGED <<pc, opened, listing>>
        BY <2>1, <2>2 DEF Root!vars
    <2>3. CASE Goto(o, "idle") /\ EndScan(o)
        BY <2>1, <2>3, EndsAsLeave DEF Root!Next
    <2> QED BY <1>4, <2>2, <2>3 DEF Examine
<1>5. ASSUME NEW o \in Owners, Judge(o) PROVE Root!Trust(o) \/ Root!Leave(o)
    <2>1. pc[o] = "examining" /\ UNCHANGED entries /\ EndScan(o)
        BY <1>5 DEF Judge
    <2>2. CASE Orphans(listing[o]) = {}
        <3>1. Goto(o, "creating")
            BY <1>5, <2>2 DEF Judge
        <3>2. MappedPhase[o] = "looked" /\ MappedPhase' = [MappedPhase EXCEPT ![o] = "publishing"]
            BY <1>1, <2>1, <3>1, MappedCalls DEF MappedPhase, PhaseOf
        <3>3. MappedView' = [MappedView EXCEPT ![o] = {} \cap Records]
            BY <1>1, <2>1, MappedCalls DEF EndScan
        <3>4. opened' = opened
            BY <2>1 DEF EndScan, DirectoryInv, ScanInv, TypeOK
        <3>5. Root!Closed(MappedView[o])
            BY <2>2, NoOrphansIsClosed DEF MappedView
        <3> QED
            BY <1>1, <2>1, <3>2, <3>3, <3>4, <3>5
            DEF Root!Trust, Root!Becomes, MappedPhase, MappedView
    <2>3. CASE Orphans(listing[o]) # {}
        <3>1. Goto(o, "idle")
            BY <1>5, <2>3 DEF Judge
        <3> QED BY <2>1, <3>1, EndsAsLeave
    <2> QED BY <2>2, <2>3
<1>6. ASSUME NEW o \in Owners, Link(o) PROVE Root!Publish(o)
    <2>1. /\ pc[o] = "linking" /\ Goto(o, "readingBack")
          /\ UNCHANGED <<opened, listing>>
        BY <1>6 DEF Link, scan
    <2>2. PICK r \in NextRecord(o) : entries' = entries \cup {r}
        BY <1>6 DEF Link
    <2>3. r \in Records \ entries /\ r.owner = o
        BY <2>2, NextRecordRests
    <2>4. r \in Root!Record
        BY <2>3 DEF Root!Record, Root!Place, Records, Written
    <2>5. entries' \cap Records = (entries \cap Records) \cup {r}
        BY <2>2, <2>3
    <2>6. \A e \in Root!Record : Root!Earlier(e, r) => e \in entries \cap Records
        BY <2>2, NextComesNext
    <2>7. MappedPhase' = [MappedPhase EXCEPT ![o] = "publishing"] /\ MappedPhase[o] = "publishing"
        BY <1>1, <2>1, MappedCalls DEF MappedPhase, PhaseOf
    <2>8. MappedPhase' = MappedPhase
        BY <2>7 DEF MappedPhase
    <2> QED
        BY <2>1, <2>3, <2>4, <2>5, <2>6, <2>7, <2>8 DEF Root!Publish, MappedPhase
<1>7. ASSUME NEW o \in Owners,
             \/ CreateTemp(o) \/ WriteTemp(o) \/ ReadBack(o)
             \/ Unlink(o) /\ ~Settled(o)
      PROVE  UNCHANGED Root!vars
    <2>1. entries' \cap Records = entries \cap Records
        <3>1. CASE CreateTemp(o)
            BY <3>1, KindsDiffer DEF CreateTemp
        <3>2. CASE Unlink(o)
            BY <3>2, KindsDiffer DEF Unlink, DirectoryInv, TempInv
        <3>3. CASE WriteTemp(o) \/ ReadBack(o)
            BY <3>3 DEF WriteTemp, ReadBack
        <3> QED BY <1>7, <3>1, <3>2, <3>3
    <2>2. UNCHANGED <<opened, listing>>
        BY <1>7 DEF CreateTemp, WriteTemp, ReadBack, Unlink, scan
    <2>3. /\ pc[o] \in {"creating", "writing", "readingBack", "unlinking"}
          /\ \E point \in {"writing", "linking", "unlinking", "creating"} : Goto(o, point)
        BY <1>7 DEF CreateTemp, WriteTemp, ReadBack, Unlink
    <2> QED BY <2>1, <2>2, <2>3, WorksUnseen DEF PhaseOf, Points
<1>8. ASSUME NEW o \in Owners,
             NothingToPublish(o) \/ PublicationFails(o) \/ (Unlink(o) /\ Settled(o))
      PROVE  Root!Leave(o)
    <2>1. /\ pc[o] \in {"creating", "writing", "linking", "readingBack", "unlinking"}
          /\ Goto(o, "idle") /\ UNCHANGED <<opened, listing>>
        BY <1>8 DEF NothingToPublish, PublicationFails, Unlink, scan
    <2>2. opened[o] = {} /\ listing[o] = {}
        BY <2>1 DEF DirectoryInv, ScanInv
    <2>3. entries' \cap Records = entries \cap Records
        <3>1. CASE NothingToPublish(o)
            BY <3>1 DEF NothingToPublish
        <3>2. CASE PublicationFails(o) \/ Unlink(o)
            BY <3>2, KindsDiffer DEF PublicationFails, Unlink, DirectoryInv, TempInv
        <3> QED BY <1>8, <3>1, <3>2
    <2> QED BY <2>1, <2>2, <2>3, EndsAsLeave
<1>9. ASSUME NEW o \in Owners, Crash(o) PROVE Root!Leave(o)
    BY <1>9, EndsAsLeave DEF Crash
<1>10. CASE UNCHANGED vars
    BY <1>10 DEF vars, Root!vars
<1> QED
    BY <1>2, <1>3, <1>4, <1>5, <1>6, <1>7, <1>8, <1>9, <1>10 DEF Next, Root!Next

\* The shared root, for any number of instruments, sources, temporary files and
\* faults and with torn listings too, implements RecordRoot: records appear one by
\* one, in order and for good, and only after a scan of their owner that it trusts.
THEOREM SharedRootImplementsRecordRoot == Spec => ImplementsRecordRoot
<1>1. Init => Root!Init
    BY DEF Init, Root!Init, PhaseOf
<1>2. DirectoryInv /\ [Next]_vars => [Root!Next]_(Root!vars)
    BY RootStep
<1> QED BY <1>1, <1>2, DirectoryInvariant, PTL DEF Spec, ImplementsRecordRoot, Root!Spec

\* Of its own instrument a scan is one atomic read, torn or not: this is what the
\* single step of RadarCandidateDelivery that reads the inventory rests on.
THEOREM OwnersSeeTheirOwn == Spec => []OwnRecordsSeen
<1>1. Init => OwnRecordsSeen
    BY DEF Init, OwnRecordsSeen
<1>2. ASSUME DirectoryInv, OwnRecordsSeen, [Next]_vars PROVE OwnRecordsSeen'
    <2> SUFFICES ASSUME NEW p \in Owners, NEW r \in Records, r.owner = p
                 PROVE  /\ pc'[p] = "listing" => (r \in opened'[p] <=> r \in entries')
                        /\ pc'[p] = "examining" => (r \in listing'[p] <=> r \in entries')
        BY DEF OwnRecordsSeen
    <2>1. r \in entries' => r \in entries \/ Link(p)
        <3>1. ASSUME NEW o \in Owners, NEW n \in NextRecord(o), Link(o),
                     entries' \cap Records = (entries \cap Records) \cup {n}
              PROVE  r \in entries' => r \in entries \/ Link(p)
            BY <3>1 DEF NextRecord
        <3> QED BY <1>2, <3>1, RecordsOfAStep
    <2>2. r \in entries => r \in entries'
        BY <1>2, RecordsStay
    <2>3. Link(p) => pc'[p] = "readingBack"
        BY <1>2 DEF Link, Goto, DirectoryInv, TypeOK
    <2>4. CASE OpenRoot(p)
        <3>1. pc'[p] = "listing" /\ opened'[p] = entries /\ entries' = entries
            BY <1>2, <2>4 DEF OpenRoot, Goto, DirectoryInv, TypeOK
        <3> QED BY <3>1
    <2>5. CASE ListRoot(p)
        <3>1. PICK found \in Listings(p) : listing' = [listing EXCEPT ![p] = found]
            BY <2>5 DEF ListRoot
        <3>2. pc[p] = "listing" /\ pc'[p] = "examining" /\ listing'[p] = found /\ entries' = entries
            BY <1>2, <2>5, <3>1 DEF ListRoot, Goto, DirectoryInv, TypeOK
        <3>3. r \in opened[p] <=> r \in entries
            BY <1>2, <3>2 DEF OwnRecordsSeen
        <3>4. r \in found <=> r \in entries
            BY <3>1, <3>3 DEF Listings
        <3> QED BY <3>2, <3>4
    <2>6. CASE ~OpenRoot(p) /\ ~ListRoot(p)
        <3>1. /\ pc'[p] = "listing" => pc[p] = "listing" /\ opened'[p] = opened[p]
              /\ pc'[p] = "examining" => pc[p] = "examining" /\ listing'[p] = listing[p]
            <4>1. ASSUME NEW o \in Owners, o # p,
                         \/ OpenRoot(o) \/ ListRoot(o) \/ Examine(o) \/ Judge(o)
                         \/ CreateTemp(o) \/ WriteTemp(o) \/ Link(o) \/ ReadBack(o) \/ Unlink(o)
                         \/ NothingToPublish(o) \/ PublicationFails(o) \/ Crash(o)
                  PROVE  UNCHANGED <<pc[p], opened[p], listing[p]>>
                BY <1>2, <4>1
                DEF OpenRoot, ListRoot, Examine, Judge, CreateTemp, WriteTemp, Link, ReadBack,
                    Unlink, NothingToPublish, PublicationFails, Crash, Goto, EndScan, scan,
                    DirectoryInv, TypeOK
            <4>2. ASSUME Examine(p) PROVE UNCHANGED <<pc, listing>> \/ pc'[p] = "idle"
                BY <1>2, <4>2 DEF Examine, Goto, DirectoryInv, TypeOK
            <4>3. ASSUME \/ Judge(p) \/ CreateTemp(p) \/ WriteTemp(p) \/ Link(p) \/ ReadBack(p)
                         \/ Unlink(p) \/ NothingToPublish(p) \/ PublicationFails(p) \/ Crash(p)
                  PROVE  pc'[p] \notin {"listing", "examining"}
                BY <1>2, <4>3
                DEF Judge, CreateTemp, WriteTemp, Link, ReadBack, Unlink, NothingToPublish,
                    PublicationFails, Crash, Goto, DirectoryInv, TypeOK
            <4>4. ASSUME Examine(p) PROVE pc[p] = "examining"
                BY <4>4 DEF Examine
            <4>5. CASE UNCHANGED vars
                BY <4>5 DEF vars
            <4> QED BY <1>2, <2>6, <4>1, <4>2, <4>3, <4>4, <4>5 DEF Next
        <3> QED BY <1>2, <2>1, <2>2, <2>3, <3>1 DEF OwnRecordsSeen
    <2> QED BY <2>4, <2>5, <2>6
<1>3. DirectoryInv /\ OwnRecordsSeen /\ [Next]_vars => OwnRecordsSeen'
    BY <1>2
<1> QED BY <1>1, <1>3, DirectoryInvariant, PTL DEF Spec
=============================================================================
