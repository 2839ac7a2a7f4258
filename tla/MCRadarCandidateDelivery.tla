----------------------- MODULE MCRadarCandidateDelivery -----------------------
(* Small instances of RadarCandidateDelivery: two sessions and two contents  *)
(* on opposite sides of the moving averages; and a wide one with a third     *)
(* date, content and scope.                                                  *)
EXTENDS RadarCandidateDelivery, TLC

CONSTANTS c1, c2, c3, w1, w2, o1, o2, o3

OldMarket == [session |-> 1, content |-> c1, start |-> w1, observedAt |-> o1]
OldLight == [revision |-> 1, session |-> 1, content |-> c1, start |-> w1,
             relation |-> "ABOVE", asOf |-> 1]
OldState == [market |-> OldMarket, light |-> OldLight, outcome |-> "FILTERED",
             change |-> [prior |-> NoLight, classification |-> "BASELINE_INITIALIZED"]]

MCSessions == 1..2
MCTradingDays == 1..2
MCLatestSession == [t \in 1..2 |-> t]
MCContents == {c1, c2}
MCRelationOf == (c1 :> "ABOVE") @@ (c2 :> "BELOW")
MCStarts == {w1}

\* Never observed, observed by the content-only release, observed in full.
MCBaselines == {Absent, Legacy(OldMarket), Complete(OldState)}

\* Date 2 is no session; the calendar ends at 3.
WideSessions == 1..3
WideTradingDays == {1, 3}
WideLatestSession == (1 :> 1) @@ (2 :> 3)
WideContents == {c1, c2, c3}
WideRelationOf == (c1 :> "ABOVE") @@ (c2 :> "BELOW") @@ (c3 :> "BELOW")
WideStarts == {w1, w2}
WideBaselines ==
    MCBaselines \cup {Legacy([OldMarket EXCEPT !.session = 2]),
                      Legacy([OldMarket EXCEPT !.session = 3])}
=============================================================================
