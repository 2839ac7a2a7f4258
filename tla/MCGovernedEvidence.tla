-------------------------- MODULE MCGovernedEvidence --------------------------
(* Two threads, the calls they make and the clocks they read.                *)
EXTENDS GovernedEvidence, TLC

CONSTANTS t1, t2

Pipeline == <<"construct", "validate", "freshness", "admit", "activate", "qualify",
              "bridge", "analyse">>

\* A construction goes through the pipeline while another thread validates and
\* admits it again.  An availability reading moves a clock with distinct
\* readings by itself.
Regoverned ==
    [script |-> (t1 :> Pipeline) @@ (t2 :> <<"validate", "admit">>),
     clock |-> "distinct", moves |-> 0]

\* The use is qualified twice, so that the second may replay the first, while
\* another thread admits again; the clock moves on and is set back.
Replayed ==
    [script |-> (t1 :> <<"construct", "validate", "freshness", "admit", "activate",
                         "qualify", "qualify", "bridge">>) @@ (t2 :> <<"admit">>),
     clock |-> "adjusted", moves |-> 2]

\* Regoverned with a clock whose readings may be equal.
Ties == [Regoverned EXCEPT !.clock = "tied", !.moves = 1]

Governed == {Regoverned, Replayed, Ties}
Tied == {Ties}
=============================================================================
