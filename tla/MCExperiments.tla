---------------------------- MODULE MCExperiments ----------------------------
(****************************************************************************)
(* The two chains of experiments, which share neither files nor processes:  *)
(* in every behaviour one of them is used and the other one stands still.   *)
(*                                                                          *)
(* The worker experiments: two settings make a series of six trials, a      *)
(* pilot of a rebuild and a hit, and a full campaign of two pairs.          *)
(****************************************************************************)
EXTENDS WorkerCampaigns, VersionComparison

OneSetting == <<7>>
TwoSettings == <<4, 7>>
SevenSixteen == <<7, 16>>
TwoCases == <<<<7, "miss">>, <<7, "hit">>>>

MCInit == Init /\ ComparisonInit
MCNext ==
    \/ ComparisonInit /\ Next /\ UNCHANGED comparisonVars
    \/ Init /\ ComparisonNext /\ UNCHANGED vars

\* The fairness is that of the worker experiments: of the comparison, whose steps are
\* disjoint from theirs, only safety is checked.
MCSpec == MCInit /\ [][MCNext]_<<vars, comparisonVars>> /\ Fairness
=============================================================================
