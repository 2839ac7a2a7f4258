------------------------------ MODULE RecordRoot ------------------------------
(***************************************************************************)
(* What the shared root promises the owners of its instruments, with no    *)
(* files: each owner publishes its records one by one, in order and for    *)
(* good, and only after a look at the root that it trusts.  A look takes   *)
(* time, and what it sees lies between the root as it began and the root   *)
(* as it ends.                                                             *)
(***************************************************************************)
EXTENDS Naturals

CONSTANTS
    Owners,
    MaxSources,
    Torn            \* may a look mix moments, or is it of the last one?

Place == [prepared |-> 1, accepted |-> 2, decision |-> 3, pending |-> 4]

Record == [kind: DOMAIN Place, owner: Owners, no: 1..MaxSources]

Earlier(r, s) ==
    /\ r.owner = s.owner
    /\ r.no < s.no \/ (r.no = s.no /\ Place[r.kind] < Place[s.kind])

VARIABLES
    published,      \* the records in the root
    phase,          \* [Owners -> what the owner is doing]
    since,          \* [Owners -> the root when its look began]
    view            \* [Owners -> what its look saw]

vars == <<published, phase, since, view>>

Init ==
    /\ published = {}
    /\ phase = [o \in Owners |-> "idle"]
    /\ since = [o \in Owners |-> {}]
    /\ view = [o \in Owners |-> {}]

Becomes(o, from, to) == phase[o] = from /\ phase' = [phase EXCEPT ![o] = to]

StartLook(o) ==
    /\ Becomes(o, "idle", "looking")
    /\ since' = [since EXCEPT ![o] = published]
    /\ UNCHANGED <<published, view>>

Sights(o) ==
    IF Torn THEN {seen \in SUBSET published : since[o] \subseteq seen} ELSE {published}

Look(o) ==
    /\ Becomes(o, "looking", "looked")
    /\ \E seen \in Sights(o) : view' = [view EXCEPT ![o] = seen]
    /\ since' = [since EXCEPT ![o] = {}]
    /\ UNCHANGED published

\* With a record it saw all that its source wrote before it.
Closed(seen) ==
    \A s \in seen, r \in Record : Earlier(r, s) /\ r.no = s.no => r \in seen

Trust(o) ==
    /\ Becomes(o, "looked", "publishing")
    /\ Closed(view[o])
    /\ view' = [view EXCEPT ![o] = {}]
    /\ UNCHANGED <<published, since>>

Publish(o) ==
    /\ phase[o] = "publishing"
    /\ \E r \in Record \ published :
          /\ r.owner = o
          /\ \A e \in Record : Earlier(e, r) => e \in published
          /\ published' = published \cup {r}
    /\ UNCHANGED <<phase, since, view>>

\* Done, refused, failed or dead: what was published stays.
Leave(o) ==
    /\ phase[o] # "idle" /\ phase' = [phase EXCEPT ![o] = "idle"]
    /\ since' = [since EXCEPT ![o] = {}]
    /\ view' = [view EXCEPT ![o] = {}]
    /\ UNCHANGED published

Next == \E o \in Owners : StartLook(o) \/ Look(o) \/ Trust(o) \/ Publish(o) \/ Leave(o)

Spec == Init /\ [][Next]_vars
=============================================================================
