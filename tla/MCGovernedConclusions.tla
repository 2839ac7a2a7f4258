------------------------ MODULE MCGovernedConclusions ------------------------
(* The governed calls of one thread and the conclusions of two.              *)
EXTENDS GovernedConclusions, TLC

CONSTANTS t1, t2

Pipeline == <<"construct", "validate", "freshness", "admit", "activate", "qualify",
              "bridge", "analyse">>

Execute(k) == [kind |-> k, does |-> "execute"]
Recall(k) == [kind |-> k, does |-> "recall"]

\* A full, fresh history that rises.
Usual == [bars |-> 250, lag |-> 7, close |-> 21, ema8 |-> 2, ema20 |-> 1, ema144 |-> 10,
          ema169 |-> 20, macd |-> 2, signal |-> 1, rsi |-> 60, volatility |-> 20, distance |-> 0]

\* Every threshold of the policies and its neighbours: what decides the
\* directions, with enough bars for them and not, and what qualifies them.
Directions ==
    {[Usual EXCEPT !.bars = bars, !.close = close, !.ema8 = ema8, !.macd = macd, !.rsi = rsi] :
        bars \in {168, 169, 250}, close \in {9, 10, 15, 20, 21}, ema8 \in 0..2, macd \in 0..2,
        rsi \in {29, 30, 31, 49, 50, 69, 70}}
Qualifiers ==
    {[Usual EXCEPT !.bars = bars, !.lag = lag, !.rsi = rsi, !.volatility = volatility,
                   !.distance = distance] :
        bars \in {20, 33, 34, 169, 249, 250}, lag \in {7, 8}, rsi \in {30, 31, 50, 69, 70},
        volatility \in {14, 29, 30}, distance \in {-6, -5, 5, 6}}

Thresholds == Directions \cup Qualifiers

\* Two threads draw conclusions from one analysis; a reading of the clock fails.
Concluded ==
    [script |-> (t1 :> Pipeline) @@ (t2 :> <<>>), clock |-> "distinct", moves |-> 0,
     conclude |-> (t1 :> <<Execute("interpretation"), Execute("strategy"), Recall("strategy")>>)
                  @@ (t2 :> <<Execute("assessment"), Recall("assessment"), Execute("strategy")>>),
     faults |-> 1, snapshots |-> {Usual}]

\* The version is validated again while conclusions are drawn from it.
Revalidated ==
    [script |-> (t1 :> Pipeline) @@ (t2 :> <<"validate">>), clock |-> "distinct", moves |-> 0,
     conclude |-> (t1 :> <<Execute("interpretation")>>) @@ (t2 :> <<Execute("interpretation")>>),
     faults |-> 0, snapshots |-> {Usual}]

\* The same where readings may be equal.
RevalidatedTied == [Revalidated EXCEPT !.clock = "tied"]

\* The clock is set back after an analysis, and put right again.
SetBack ==
    [script |-> (t1 :> Pipeline) @@ (t2 :> <<>>), clock |-> "adjusted", moves |-> 3,
     conclude |-> (t1 :> <<Execute("interpretation"), Recall("interpretation")>>) @@ (t2 :> <<>>),
     faults |-> 0, snapshots |-> {Usual}]

\* Nobody calls anything: only what the policies make of a snapshot.
Considered ==
    [script |-> (t1 :> <<>>) @@ (t2 :> <<>>), clock |-> "distinct", moves |-> 0,
     conclude |-> (t1 :> <<>>) @@ (t2 :> <<>>), faults |-> 0,
     snapshots |-> Thresholds]

Concluding == {Concluded, Revalidated, RevalidatedTied, SetBack, Considered}
=============================================================================
