---------------------------- MODULE MCCloudRefresh ----------------------------
(* Two machines, three days, four runs and two surviving dumps: enough for a   *)
(* prune, for a run that crosses midnight and for a backup window after every  *)
(* kind of failure.                                                            *)
EXTENDS CloudRefresh, TLC

CONSTANTS m1, m2

MCRunners == {m1, m2}
RunnerSymmetry == Permutations(MCRunners)
=============================================================================
