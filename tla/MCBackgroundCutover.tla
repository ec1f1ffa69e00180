-------------------------- MODULE MCBackgroundCutover --------------------------
(* Two instances, one of each mode, and two deliveries of one job.          *)
EXTENDS BackgroundCutover, TLC

CONSTANTS a1, a2, r1, r2, j1, g1, g2

TwoDeliveries == r1 :> j1 @@ r2 :> j1
=============================================================================
