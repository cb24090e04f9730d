--------------------------- MODULE MCUpdateIntake ---------------------------
(* Model checking the intake of updates: both transports in one run. Shards *)
(* share nothing but the crash, so one worker, whose two updates can get in *)
(* each other's way, is the interesting case.                               *)
EXTENDS UpdateIntake

MCShards == {0}
=============================================================================
