----------------------- MODULE RadarDeliverySharedRoot -----------------------
(***************************************************************************)
(* RadarCandidateDeliveryFileStore at the level of directory entries: the  *)
(* owners of several instruments publish into one root, each record by     *)
(* mkstemp, write and fsync, link, read-back and unlink, while every owner *)
(* scans the whole root before it publishes.                               *)
(*                                                                         *)
(* Every owner works through its sources in order and every source is      *)
(* eligible, so a source's records are prepared, accepted, decision and    *)
(* pending.  What the records say, and the checkpoint between them, is     *)
(* RadarCandidateDelivery's.                                               *)
(***************************************************************************)
EXTENDS Naturals, FiniteSets

CONSTANTS
    Owners,         \* one per instrument; each runs one call at a time
    NoEntry,        \* no directory entry
    TornListing,    \* may a listing mix two states of the directory?
    MaxSources,     \* bound: sources per owner
    MaxTemps,       \* bound: temporary names per owner
    MaxFaults       \* bound: crashes, failed publications and failed unlinks

ASSUME SharedRootAssumption ==
    /\ TornListing \in BOOLEAN
    /\ MaxSources \in Nat /\ MaxTemps \in Nat /\ MaxFaults \in Nat

\* Publication order of one source, and the order of sorted(iterdir()): a
\* temporary name starts with a dot.
Written == [prepared |-> 1, accepted |-> 2, decision |-> 3, pending |-> 4]
Sorted == [temporary |-> 0, accepted |-> 1, decision |-> 2, pending |-> 3, prepared |-> 4]

Records == [kind: DOMAIN Written, owner: Owners, no: 1..MaxSources]
Temporaries == [kind: {"temporary"}, owner: Owners, no: 1..MaxTemps]
Entry == Records \cup Temporaries

VARIABLES
    entries,    \* names in the root
    whole,      \* names whose file has all its bytes
    pc,         \* [Owners -> where the owner's call stands]
    temp,       \* [Owners -> the temporary file it created]
    opened,     \* [Owners -> the root when the scan opened it]
    listing,    \* [Owners -> what the scan listed]
    todo,       \* [Owners -> what it has not examined yet]
    report,     \* [Owners -> how its last scan or publication ended]
    faults

vars == <<entries, whole, pc, temp, opened, listing, todo, report, faults>>
scan == <<opened, listing, todo>>

Points == {"idle", "listing", "examining", "creating", "writing", "linking",
           "readingBack", "unlinking"}
Results == {"NONE", "CLEAN", "GONE", "PARTIAL", "ORPHAN", "FAILED"}
NoReport == [result |-> "NONE", entry |-> NoEntry]

Init ==
    /\ entries = {} /\ whole = {}
    /\ pc = [o \in Owners |-> "idle"]
    /\ temp = [o \in Owners |-> NoEntry]
    /\ opened = [o \in Owners |-> {}]
    /\ listing = [o \in Owners |-> {}]
    /\ todo = [o \in Owners |-> {}]
    /\ report = [o \in Owners |-> NoReport]
    /\ faults = 0

Goto(o, point) == pc' = [pc EXCEPT ![o] = point]
Report(o, result, e) == report' = [report EXCEPT ![o] = [result |-> result, entry |-> e]]

-----------------------------------------------------------------------------
(* _inventory *)

OpenRoot(o) ==
    /\ pc[o] = "idle" /\ Goto(o, "listing")
    /\ opened' = [opened EXCEPT ![o] = entries]
    /\ Report(o, "NONE", NoEntry)
    /\ UNCHANGED <<entries, whole, temp, listing, todo, faults>>

\* What a listing of the root may return: its names at one moment or, torn,
\* every name that was there throughout and some that came or went.
Listings(o) ==
    IF TornListing
    THEN {(opened[o] \cap entries) \cup some : some \in SUBSET (opened[o] \cup entries)}
    ELSE {entries}

ListRoot(o) ==
    /\ pc[o] = "listing" /\ Goto(o, "examining")
    /\ \E found \in Listings(o) :
          /\ listing' = [listing EXCEPT ![o] = found]
          /\ todo' = [todo EXCEPT ![o] = found]
    /\ opened' = [opened EXCEPT ![o] = {}]
    /\ UNCHANGED <<entries, whole, temp, report, faults>>

\* The scan is over; nothing of it is kept.
EndScan(o) ==
    /\ opened' = [opened EXCEPT ![o] = {}]
    /\ listing' = [listing EXCEPT ![o] = {}]
    /\ todo' = [todo EXCEPT ![o] = {}]

FirstOf(names) == {e \in names : \A f \in names : Sorted[e.kind] <= Sorted[f.kind]}

\* lstat the next name, skip a temporary file, read and decode anything else.
Examine(o) ==
    /\ pc[o] = "examining"
    /\ \E e \in FirstOf(todo[o]) :
          IF e \in entries /\ e \notin Records \ whole
          THEN /\ todo' = [todo EXCEPT ![o] = @ \ {e}]
               /\ UNCHANGED <<pc, report, opened, listing>>
          ELSE /\ Goto(o, "idle") /\ EndScan(o)
               /\ Report(o, IF e \in entries THEN "PARTIAL" ELSE "GONE", e)
    /\ UNCHANGED <<entries, whole, temp, faults>>

\* A record without its prepared and accepted records, or pending work without
\* its decision.
Orphans(names) ==
    {e \in names \cap Records :
        \E k \in {"prepared", "accepted"} \cup IF e.kind = "pending" THEN {"decision"} ELSE {} :
            e.kind # "prepared" /\ [e EXCEPT !.kind = k] \notin names}

Judge(o) ==
    /\ pc[o] = "examining" /\ todo[o] = {}
    /\ IF Orphans(listing[o]) = {} THEN Goto(o, "creating") /\ Report(o, "CLEAN", NoEntry)
       ELSE Goto(o, "idle") /\ \E e \in Orphans(listing[o]) : Report(o, "ORPHAN", e)
    /\ EndScan(o)
    /\ UNCHANGED <<entries, whole, temp, faults>>

-----------------------------------------------------------------------------
(* _publish *)

\* Mutant: the observation is accepted before its prepared record is there.
AcceptedFirst(e, f) == e.no < f.no \/ (e.no = f.no /\ Sorted[e.kind] <= Sorted[f.kind])

Precedes(e, f) == e.no < f.no \/ (e.no = f.no /\ Written[e.kind] <= Written[f.kind])

\* The record the owner publishes next, also when it resumes after a crash.
NextRecord(o) ==
    LET missing == {e \in Records \ entries : e.owner = o}
    IN {e \in missing : \A f \in missing : Precedes(e, f)}

\* Mutant: the name is linked before the bytes are written.
CreateAndLinkFirst(o) ==
    /\ pc[o] = "creating" /\ NextRecord(o) # {} /\ Goto(o, "linking")
    /\ \E t \in Temporaries \ entries :
          t.owner = o /\ entries' = entries \cup {t} /\ temp' = [temp EXCEPT ![o] = t]
    /\ UNCHANGED <<whole, scan, report, faults>>

CreateTemp(o) ==
    /\ pc[o] = "creating" /\ NextRecord(o) # {} /\ Goto(o, "writing")
    /\ \E t \in Temporaries \ entries :
          t.owner = o /\ entries' = entries \cup {t} /\ temp' = [temp EXCEPT ![o] = t]
    /\ UNCHANGED <<whole, scan, report, faults>>

WriteTemp(o) ==
    /\ pc[o] = "writing" /\ Goto(o, "linking")
    /\ whole' = whole \cup {temp[o]}
    /\ UNCHANGED <<entries, temp, scan, report, faults>>

\* The link gives the temporary file its second, permanent name.
Link(o) ==
    /\ pc[o] = "linking" /\ Goto(o, "readingBack")
    /\ \E r \in NextRecord(o) :
          /\ entries' = entries \cup {r}
          /\ whole' = IF temp[o] \in whole THEN whole \cup {r} ELSE whole
    /\ UNCHANGED <<temp, scan, report, faults>>

ReadBack(o) ==
    /\ pc[o] = "readingBack" /\ Goto(o, "unlinking")
    /\ UNCHANGED <<entries, whole, temp, scan, report, faults>>

\* Publication goes on with the next record of the source; after its pending
\* record the call is over.
Settled(o) == \A n \in 1..MaxSources :
    [kind |-> "prepared", owner |-> o, no |-> n] \in entries =>
        [kind |-> "pending", owner |-> o, no |-> n] \in entries

\* A failure to remove the temporary file is suppressed: the publication stands.
Unlink(o) ==
    /\ pc[o] = "unlinking" /\ Goto(o, IF Settled(o) THEN "idle" ELSE "creating")
    /\ \/ /\ entries' = entries \ {temp[o]} /\ whole' = whole \ {temp[o]}
          /\ UNCHANGED faults
       \/ /\ faults < MaxFaults /\ faults' = faults + 1
          /\ UNCHANGED <<entries, whole>>
    /\ temp' = [temp EXCEPT ![o] = NoEntry]
    /\ UNCHANGED <<scan, report>>

\* All sources are published: a clean scan ends the call.
NothingToPublish(o) ==
    /\ pc[o] = "creating" /\ NextRecord(o) = {} /\ Goto(o, "idle")
    /\ UNCHANGED <<entries, whole, temp, scan, report, faults>>

-----------------------------------------------------------------------------
(* Faults *)

\* Mutant: the clean-up of a failed publication also takes the record back.
FailsAndWithdraws(o) ==
    /\ pc[o] \in {"writing", "linking", "readingBack"} /\ Goto(o, "idle")
    /\ faults < MaxFaults /\ faults' = faults + 1
    /\ entries' = entries \ ({temp[o]} \cup {e \in Records : e.owner = o})
    /\ whole' = whole \cap entries'
    /\ temp' = [temp EXCEPT ![o] = NoEntry] /\ Report(o, "FAILED", NoEntry)
    /\ UNCHANGED scan

\* A step of the publication raises; the clean-up may fail as well, silently.
PublicationFails(o) ==
    /\ pc[o] \in {"writing", "linking", "readingBack"} /\ Goto(o, "idle")
    /\ faults < MaxFaults /\ faults' = faults + 1
    /\ \/ UNCHANGED <<entries, whole>>
       \/ entries' = entries \ {temp[o]} /\ whole' = whole \ {temp[o]}
    /\ temp' = [temp EXCEPT ![o] = NoEntry] /\ Report(o, "FAILED", NoEntry)
    /\ UNCHANGED scan

Crash(o) ==
    /\ pc[o] # "idle" /\ Goto(o, "idle")
    /\ faults < MaxFaults /\ faults' = faults + 1
    /\ temp' = [temp EXCEPT ![o] = NoEntry] /\ Report(o, "NONE", NoEntry)
    /\ EndScan(o)
    /\ UNCHANGED <<entries, whole>>

Next ==
    \E o \in Owners :
        \/ OpenRoot(o) \/ ListRoot(o) \/ Examine(o) \/ Judge(o)
        \/ CreateTemp(o) \/ WriteTemp(o) \/ Link(o) \/ ReadBack(o) \/ Unlink(o)
        \/ NothingToPublish(o) \/ PublicationFails(o) \/ Crash(o)

Spec == Init /\ [][Next]_vars

-----------------------------------------------------------------------------
(* Properties *)

\* A permanent name never shows a part of a record, whatever died between
\* mkstemp and link.
LinkedIsWhole == entries \cap Records \subseteq whole

\* Publishing while others scan never looks like a broken graph: whatever
\* prefix of a publication a listing catches, it is closed under the links
\* _inventory verifies.
NoOrphanSeen == \A o \in Owners : report[o].result # "ORPHAN"

\* A name that is gone when the scan reaches it was a temporary file of another
\* owner: records stay, and so do the owner's own leftovers.
GoneIsAnothersTemporary ==
    \A o \in Owners : report[o].result = "GONE" =>
        report[o].entry \in Temporaries /\ report[o].entry.owner # o

\* Values a directory, a call and its scan can have.
TypeOK ==
    /\ entries \subseteq Entry /\ whole \subseteq Entry
    /\ pc \in [Owners -> Points]
    /\ temp \in [Owners -> Temporaries \cup {NoEntry}]
    /\ opened \in [Owners -> SUBSET Entry]
    /\ listing \in [Owners -> SUBSET Entry] /\ todo \in [Owners -> SUBSET Entry]
    /\ report \in [Owners -> [result: Results, entry: Entry \cup {NoEntry}]]
    /\ faults \in 0..MaxFaults

\* A publishing owner holds its own temporary file, complete once written.
TempInv ==
    \A o \in Owners :
        /\ pc[o] \in {"writing", "linking", "readingBack", "unlinking"} =>
              temp[o] \in Temporaries /\ temp[o].owner = o
        /\ pc[o] \in {"linking", "readingBack", "unlinking"} => temp[o] \in whole

\* During a scan only temporary files of others have vanished from what it
\* listed; outside a scan nothing of it is kept.
ScanInv ==
    \A o \in Owners :
        /\ pc[o] # "listing" => opened[o] = {}
        /\ pc[o] # "examining" => listing[o] = {} /\ todo[o] = {}
        /\ \A e \in (opened[o] \cup todo[o]) \ entries : e \in Temporaries /\ e.owner # o

\* The directory itself is a closed record graph at every moment.
PrefixInv == Orphans(entries) = {}

\* The inductive invariant of the shared root.
DirectoryInv == TypeOK /\ TempInv /\ ScanInv /\ PrefixInv /\ LinkedIsWhole
                       /\ GoneIsAnothersTemporary

\* What an owner lists of its own records is what it has published, however torn
\* the listing: of its own instrument a scan is one atomic read.
OwnRecordsSeen ==
    \A o \in Owners, r \in Records : r.owner = o =>
        /\ pc[o] = "listing" => (r \in opened[o] <=> r \in entries)
        /\ pc[o] = "examining" => (r \in listing[o] <=> r \in entries)

-----------------------------------------------------------------------------
(* The root implements RecordRoot: its records are the published ones, and *)
(* temporary files are nothing.                                            *)

PhaseOf(point) ==
    CASE point = "idle"      -> "idle"
      [] point = "listing"   -> "looking"
      [] point = "examining" -> "looked"
      [] OTHER               -> "publishing"

Root == INSTANCE RecordRoot WITH
    Torn <- TornListing,
    published <- entries \cap Records,
    phase <- [o \in Owners |-> PhaseOf(pc[o])],
    since <- [o \in Owners |-> opened[o] \cap Records],
    view <- [o \in Owners |-> listing[o] \cap Records]

\* Through mkstemp, write, link, read-back and unlink, and every failure and crash
\* between them, records appear at once, in order and for good, each owner's only
\* after a scan that it could trust.
ImplementsRecordRoot == Root!Spec

\* Different instruments remain independent (ADR0051, decision 16): what other
\* owners do in the ordinary course never makes an owner's scan fail.
InstrumentsIndependent ==
    \A o \in Owners : report[o].result \notin {"GONE", "PARTIAL", "ORPHAN"}
=============================================================================
