---------------------- MODULE MCRadarDeliverySharedRoot ----------------------
(* Two owners in one root; they are interchangeable.                        *)
EXTENDS RadarDeliverySharedRoot, TLC

CONSTANTS a, b

Symmetry == Permutations({a, b})
=============================================================================
