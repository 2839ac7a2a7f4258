-------------------------- MODULE CandidateHandoff ---------------------------
(***************************************************************************)
(* What coordinated delivery promises about one instrument, with no files, *)
(* no records and no failures: the visible observation is replaced only    *)
(* when nothing is owed, each source is settled once, in one step, and an  *)
(* eligible one becomes downstream work in that same step.                 *)
(***************************************************************************)
EXTENDS RadarObservation

CONSTANT Baselines      \* what is visible when coordination starts

VARIABLES
    visible,    \* the observation a reader of the checkpoint sees
    owed,       \* the visible source that is not settled yet, if any
    settled,    \* sources whose decision, and work if eligible, exist
    work        \* sources handed to the consumer of candidates

vars == <<visible, owed, settled, work>>

Init ==
    /\ visible \in Baselines
    /\ owed = {} /\ settled = {} /\ work = {}

\* A new observation becomes visible.  A source that recurs exactly (same
\* predecessor, same proposal) is the same source and is not owed again.
Replace ==
    /\ owed = {}
    /\ \E s \in owed' \cup settled :
          /\ ValidPrepared(s)
          /\ visible = s.predecessor /\ visible' = Complete(s.state)
          /\ owed' = {s} \ settled
    /\ UNCHANGED <<settled, work>>

Settle ==
    /\ \E s \in owed :
          /\ owed' = owed \ {s}
          /\ settled' = settled \cup {s}
          /\ work' = IF Eligible(s) THEN work \cup {s} ELSE work
    /\ UNCHANGED visible

Next == Replace \/ Settle

Spec == Init /\ [][Next]_vars
=============================================================================
