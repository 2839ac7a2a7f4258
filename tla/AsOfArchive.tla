------------------------------ MODULE AsOfArchive ------------------------------
(***************************************************************************)
(* What the governed histories promise a reader who asks what was known at *)
(* an instant, with no locks, stagings, decisions or clock: each is a log  *)
(* to which occurrences are only added, and it has a frontier that only    *)
(* moves on.  What is added became known at the frontier or after it, so   *)
(* what was known before the frontier is settled.                          *)
(***************************************************************************)
EXTENDS Naturals, Sequences

CONSTANT Names

VARIABLES
    log,            \* [Names -> the occurrences, each with its time of availability]
    frontier        \* [Names -> the earliest instant at which one may yet become known]

vars == <<log, frontier>>

Init ==
    /\ log = [n \in Names |-> <<>>]
    /\ frontier \in [Names -> Nat]

MovesOn ==
    /\ frontier' \in [Names -> Nat]
    /\ \A n \in Names : frontier[n] <= frontier'[n]

\* Time passes, or a reading of the clock is promised to what is added next.
Elapse == MovesOn /\ UNCHANGED log

Retain(n) ==
    /\ MovesOn
    /\ Len(log'[n]) = Len(log[n]) + 1
    /\ LET new == log'[n][Len(log[n]) + 1] IN
       /\ log' = [log EXCEPT ![n] = Append(@, new)]
       /\ frontier[n] <= new.available /\ new.available <= frontier'[n]

Next == Elapse \/ \E n \in Names : Retain(n)

Spec == Init /\ [][Next]_vars
=============================================================================
