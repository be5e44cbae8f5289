--------------------------- MODULE MCReplayServer ---------------------------
(* Small instances of the server for TLC. *)
EXTENDS ReplayServer, TLC

CONSTANTS r1, r2, r3, g1, g2, big, small

TwoSizes == (big :> 2) @@ (small :> 1)
SomeRecs == (big :> 1) @@ (small :> 0)

(* A scenario whose replay recommends nothing *)
OneEntity == small :> 1
NoRecs == small :> 0
=============================================================================
